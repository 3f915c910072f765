# Verification of VNC for OS/2

TLA+ models of the VNC viewer and the VNC server in this repository, TLC runs
that check them on small instances, and TLAPS proofs of the central safety
properties for every instance. File names below are relative to the repository.

* [The system](#the-system): components, state, operations, what is hard
* [Modules](#modules): what models what, and how it corresponds to the code
* [Runs](#runs): what each run checks, with its bounds
* [Fairness](#fairness)
* [Proofs](#proofs)
* [Findings](#findings)
* [What is not modelled](#what-is-not-modelled)
* [Plan](#plan)

## The system

### Processes and threads

| program | thread | started at | what it does |
|---|---|---|---|
| Viewer | GUI | `VNCViewer/main.c` | launch pad, progress and password dialogs, client windows, file transfer dialogs; an idle call of `ccThreadWatchdog` |
| Viewer | RFB, one per connection | `clntconn.c:1209` | `rfbInitClient`, the message loop of LibVNCClient and its callbacks |
| Server | main | `VNCServer/main.c:482` | RFB server: `rfbsProcessEvents`, hook messages, requests of the GUI |
| Server | GUI | `gui.c:767` | icon, client list window, configuration, chat windows |
| Server | connect | `avdlg.c:299` | `connect()` for the attach viewer dialog |

The hook DLL (`pmhook`) runs in every process of the desktop and posts messages
to the main thread of the server; `vnckbd` is a physical device driver.

### Components

| component | state | operations | hard behaviour | what makes it correct |
|---|---|---|---|---|
| Connection object (`VNCViewer/clntconn.c`) | `ulRFBState`, `hmtxRFB`, `hevRFBState`, `pLogonInfo`, `ulStopSigTime`, `iRFBTid`, `pRFBClient`, `hwnd`, list of objects | `cc*` functions of the GUI, `threadClient` and the callbacks of LibVNCClient | two threads, auto-reset event shared by several purposes, time-outs, killed threads, lock left behind | a held state does not change; bitmap used by one thread; no object freed under its thread; an answer goes to the question it was given for; GUI calls return |
| Progress and password dialogs (`progress.c`, `pswddlg.c`) | object, memorised password flag, attempt, timers | `WM_VNC_STATE`, cancel, password, reconnect | messages of an object that is gone, nested message loop, retry | one attempt at a time; the object goes over to one window or is destroyed; Cancel ends it |
| Client window (`clntwnd.c`) | object, `rfbClient` | paint, close, `RFBSTATE_FINISH` | close only signals; the last message must arrive | the window's object is alive; closing ends both |
| File transfer engine (`filexfer.c`) | `FXCDFILE` record, open handle, listing in progress | send, receive, list, delete, make directory, abort; the messages of the server | two threads without a lock, messages that name no file, failed opens, reads and writes on both ends | a block goes to the file it was read from; the record is that of the operation's first item |
| File transfer dialog (`fxdlg.c`) | operation, list to scan, list to delete, flags, message boxes | copy, move, delete, confirm, cancel, close | each step is started by the answer to the one before; boxes that do not stop the other thread | nothing is deleted before it has arrived; operations end |
| Server clients (`rfbsrv.c`, LibVNCServer) | client list, protocol state, descriptor set, clients that log in, hooks, configuration | accept, handshake, update, reap, logon program, disconnect, attach, reconfigure, exit | several lists that name one client, addresses used again, closed but not reaped clients | lists agree; logon program asked once per client; hooks while there are clients; sharing rules; closed clients are reaped |
| Screen updates and pointer (`rfbsrv.c`, `rfbserver.c`, `cursor.c`) | regions asked for and modified of each client, pointer, slices, deferral | hook messages, update requests, encodings, updates | requests that are used up, slices, pointer drawn into what is sent, state of the pointer kept in flags | what has changed since a client was last sent it stays marked for it |
| Handshake (`rfbserver.c`, `auth.c`, `rfbsrv.c`; `rfbproto.c`, `clntconn.c`) | protocol state and version, security handlers, passwords, reverse flag | version, security type, challenge, result, reason, initialisation | what follows what depends on both versions and the type; configuration changes and other clients meanwhile | each side reads what the other sent; a handshake ends; a view-only password gives no control |
| Input (`clntwnd.c`, `clntconn.c`, `os2xkey.c`; `rfbserver.c`, `main.c`, `rfbsrv.c`) | pressed keys and their symbols, buttons, capture, key sequence; state of keys, masks, owner of the pointer, deferred position | keys, buttons, wheel, activation, sequences; key and pointer events | a release must reach the server with the symbol of its press; two threads send; several clients, one mouse | no key or button stays down that nobody holds |
| Access list and sharing modes (`config.c`, `config.h`) | ordered entries, flags | `aclCheck`, `rfbProcessClientInitMessage` | order decides, empty list | first enabled match decides |
| Server GUI (`gui.c`, `clientsdlg.c`) | list window records, chat windows | `WMSRV_*`, `WMGUI_*` messages | `WinSendMsg` in both directions, nested handlers, clients named by address | calls come back; records are those of live clients; the numbers agree; the program ends |
| WebSocket connections (`ws_decode.c`, `websockets.c`, `sockets.c`, `rfbssl_openssl.c`) | decoder state, header and buffer, carried bytes, bytes inside TLS | read a header, a payload, return bytes; read a message; select | pieces of any size, padding and fragments, bytes that `select` does not see | what is returned is what the frames carry, in order; nothing stays in a buffer |
| Attach dialog (`avdlg.c`) | socket, thread | connect, cancel, result | cancel kills the thread; who closes the socket | only the socket it sends is modelled |
| Launch pad, options, configuration dialog | profile | edit, save | none: one thread | not modelled |
| Keyboard driver and hook | queue of scan codes, last window rectangles | write, task time, hook calls | interrupt and task time | the hook's messages are the input of the screen model; the driver is not modelled |
| Linked sequences, log, character sets | data structures | | boundaries | not modelled |

In the viewer the GUI thread calls the `cc*` functions; the RFB thread answers
with posted `WM_VNC_STATE` messages and, for chat, clipboard and file transfer,
with sent messages that wait for the GUI thread. In the server the GUI thread
posts `WMSRV_DISCONNECT`, `WMSRV_ATTACH`, `WMSRV_SET` and so on to the hidden
window of the main thread; the main thread sends `WMGUI_*` back. LibVNCServer is
called by the main thread only, and calls the hooks of `rfbsrv.c` from inside.

`PROJECT.json` lists the components with their status, and the hazards, each at
its line with the properties that cover it.

## Modules

```
Connection            what the viewer promises of its connections
    ^ Implements
ViewerSession <------ ViewerProofs         proofs for any number of objects and
    |                 attempts, refinement
    |                 dialogs, client window, message loop of the GUI thread
    | EXTENDS
ClientConn            a connection object and its thread

FileDialog <--------- FileDialogProofs     proofs for any files and commands
    |                 operations of the file transfer dialog
    | EXTENDS
FileXfer              the viewer's engine, used by two threads
    | EXTENDS
FileServer            the server's side, and the socket between them

ServerClients <------ ServerProofs         proofs for any records and configurations
                      life cycle of the server's clients
ServerGui   <-------- ServerGuiProofs      proofs for any connections and windows
                      main thread and GUI thread of the server
ScreenUpdate <------- ServerProofs         proofs for any screen and requests
                      what a client is sent of the screen and the pointer
WebSocket <---------- WebSocketProofs      proofs for any frames and reads
                      a browser's bytes, from the socket to the messages
Handshake <---------- HandshakeProofs      proofs for any programs that meet
                      viewer and server, from the version to the initialisation
Input <-------------- InputProofs          proofs for any keyboards, mice and clients
                      keys and buttons, from the user to the server's system

SequenceLemmas        what the proofs share about sequences

MCClientConn, MCViewerSession, MCFileDialog, MCServerClients, MCServerGui,
MCScreenUpdate, MCWebSocket, MCHandshake, MCInput    instances for TLC
```

Operators have the names of the functions and fields they model where there is
one. A definition whose comment begins "Faulty variant" is not part of a
specification: it is the definition after it, or of the property named in
`PROJECT.json`, with a plausible mistake, and shows that the properties notice
it.

### ClientConn

One record of variables per `CLNTCONN` object. The RFB thread is `pc`, with one
value for each point at which another thread can see a difference: before and
after each request of the mutex, each wait, each message. `_ccSetThreadState` is
two steps: `SetState` (lines 134-137, under the mutex) and `PostState` (line
139, after it); `cont` says which message is posted and where the thread goes
on. The GUI thread is `gui`: the `cc*` function it is in, and the object. A
critical section without a blocking call is one step.

| code | actions |
|---|---|
| `threadClient` 777-876 | `RfbStart`, `RfbQueue`, `RfbNoQueue`, `RfbInitFail`, `RfbForget`, `RfbInitDone`, `RfbReady`, `RfbLeaveLoop`, `RfbFinish` |
| `_logonInfoToThread` 148-195 | `RfbAsk`, `RfbAskState`, `RfbAskReset`, `RfbAskWait`, `RfbAskTake`, `RfbAskRefuse`, `RfbAskBack` |
| `_cbRFBResize` 197-357 | `RfbResize`, `RfbResized` |
| `_cbRFBUpdate` 359-417 | `RfbUpdate`, `RfbUpdated`, `RfbUpdateError` |
| chat, clipboard, file transfer callbacks | `RfbSend`, `AnswerSent` |
| blocking reads of LibVNCClient | `RfbBlock`, `RfbUnblock` |
| `ccCreate`, `ccWaitState` | `CreateThread`, `CreateList`, `CreateWaitState`, `CreateWaitEvent` |
| `ccDestroy` 1252-1319 | `DestroyUnlist`, `DestroySignal`, `DestroyWait`, `DestroyCheck`, `DestroyKill`, `DestroyFree` |
| `ccLockReadyState` ... `ccUnlockReadyState` | the same names, `ccSetWindow` between them |
| `ccGetHPS`, `ccReleaseHPS` of the GUI | the same names |
| `ccSendLogonInfo`, `ccDisconnectSignal` | the same names |
| `ccThreadWatchdog` 1837-1862 | `WatchdogExpired`, `WatchdogFinish`, `WatchdogNotify`, `WatchdogKill` |

Details that matter:

* The mutex is recursive, as OS/2's are. `"leaked"` is the state after the early
  return of `_cbRFBUpdate`: the RFB thread owns it once more than it will
  release it. A mutex whose owner has died no longer blocks.
* `_cbRFBResize` is also called inside `rfbInitClient`, before there is a window
  that could paint; only its calls from the message loop are steps.
* A wait with a time-out may end at any time; an event that is posted stays
  posted until somebody waits for it or resets it.
* `RfbAskRefuse` is possible whatever was sent: the callbacks compare the kind of
  the answer with a field of their own structure that they have not set.
* A thread whose object is freed takes no more steps: what it would do is
  undefined. `FreedThreadDone` says how far it can be by then.
* In this module the GUI thread may call anything at any time, so its safety
  properties do not depend on how the windows use it.

### ViewerSession

The progress dialog, the password dialog, the reconnect timer, one client window
and the message loop, over the actions of `ClientConn`. Handlers read the object
from their window, not from the message, as `_wmVNCState` does (`dlgCC`,
`winCC`). A handler that calls a `cc*` function which may block leaves its
continuation in `task`; no other handler runs meanwhile, except those a nested
message loop dispatches: with the message box of a failed connection open
(`dlg = "box"`) the model lets `OnCancel`, messages sent by a connection thread
and messages to other windows run. Second destruction of one object is not
modelled as a step, being undefined.

The user (`User`) presses anything at any time. `PMFails` lets `ccCreate` and
`cwCreate` fail, `GpiFails` the bitmap query.

### Connection

The abstract life cycle. `ViewerSession` maps each object's `life` and
`ulRFBState` to a phase (`phaseOf`) and `Implements` is `Connection`'s
specification under that mapping: attempts do not overlap, a connection is
established at most once and only from the connecting phase, and nothing
follows its end.

### ServerClients

All of it is one thread; what is interleaved are the peers (which may send,
fail or disappear between any two reads), the messages of the GUI and the
phases of a round:

| phase | code | actions |
|---|---|---|
| `idle` | `VNCServer/main.c:491-500` and the `WMSRV_*` handlers | `Round`, `Disconnect`, `SendFails`, `Attach`, `Reconfigure`, `Exit` |
| `read` | `rfbCheckFds`, `rfbHttpCheckFds` | `Read`, `ReadNothing`, then `BeginReap` |
| `reap` | second loop of `rfbProcessEvents` | `Update`, `Reap`, then `BeginLogon` |
| `logon` | `rfbsrv.c:2038-2090` | `Logon`, `NoLogon`, then `EndRound` |
| `exit` | `rfbShutdownServer` | `ShutdownClient` |

`AskDisconnect` is the GUI thread's post and happens at any time. `Read` is the
handler of the client's protocol state: `ProtocolVersion`, `SecurityType`,
`Authentication`, `Initialisation`, or `ReadFails`.

* A member of `Clients` is the address of a record. It may be allocated again
  after it is freed, while `asked` or a forgotten pointer still names it.
* The library is built without threads, so its iterators return closed clients,
  as in the code; `FD_ISSET` and `FD_CLR` of the descriptor -1 are taken for
  "not a member" and "no effect".
* `rfbClientConnectionGone` is one step: it unlinks the record, runs
  `_cbClientGone` and frees it. The messages that hook sends to the GUI are in
  `ServerGui`.
* A new client comes from the listening socket (`Round`), from a proxy
  connection of the HTTP server (`ProxyConnection`) or from `rfbsAttach` (`Attach`);
  `Accept` is what the three have in common.
* Every incoming client is offered VNC authentication: `authPasswdData` is
  always set (`rfbsrv.c:1734`). An attached viewer is offered none. Viewers
  answer with the type they were offered.
* The hook sees `reverseConnection = FALSE` for every client, because
  `rfbsAttach` sets the flag when `rfbNewClient` has returned.
* `_progExecute` may leave its buffer unset, so the external program's answer is
  nondeterministic when a program is configured.
* `newest` and `logons` are history that the properties need; the code has no
  such variables.

### FileServer, FileXfer, FileDialog

Three layers of one specification: the dialog's operations run over the engine,
and the engine over the server. `toServer` and `toViewer` are the two directions
of the socket; a message keeps only what the other side looks at, and none of
them names the request it answers, which is the point of most properties here.

| module | code | actions and operators |
|---|---|---|
| FileServer | `rfbProcessFileTransfer` 1851-2290 and what it calls, in `rfbserver.c` | `DrivesList`, `DirContent`, `FileTransferRequest`, `FileHeader`, `FileTransferOffer`, `FilePacket`, `EndOfFile`, `AbortFileTransfer`, `CommandDirCreate`, `CommandFileDelete`; `SendFileTransferChunk` between them |
| FileXfer | `_cbRFBMessage`, `filexfer.c` 131-462, in the RFB thread | `FileTransferAccess`, `ADrivesList`, `ADirectory`, `EndOfList`, `FileHeaderAnswer` (`HeaderRefused`, `HeaderAccepted`), `FilePacketIn`, `EndOfFileIn`, `AbortFileTransferIn`, `FileAcceptHeader`, `CommandReturn` |
| | `fxWaitForMessage` 833-903, in the RFB thread | `SendBlock`, `SendAbort`, `CleanAfterNote` |
| | `fx*` functions called by the GUI thread | `FxRecvFile`, `FxSendFile`, `FxAbortFileTransfer`, `FxClean`, `ListRequest`: operators, used by the dialog's actions |
| FileDialog | `_filexfer*` 2128-2452, on a message of the engine | `FilexferDrives`, `FilexferPath`, `FilexferFindData`, `FilexferEndOfList`, `FilexferFileChunk`, `FilexferEndOfFile`, `FilexferFail`, `FilexferDeleteResult`, `FilexferMkDirResult`, `PermissionDenied` |
| | `_scanNextStep` 960-983 | `ScanNextStep`, with `ScanSendRequest` or `ScanLocalRequest` |
| | `_wmEndOfLocalList` 2488-2551 | `WmEndOfLocalList` |
| | commands and boxes | `OpenFileTransfer`, `CloseDialog`, `Refresh`, `Copy`, `Confirm`, `Confirmed`, `NotConfirmed`, `Cancel`, `WmMsgBoxDismiss` |

* Files are paths with a sequence of blocks; `remote` and `local` are the two
  file systems. A file that is open for writing is in them as far as it is
  written.
* The engine's thread sends the window what it has to say and waits (`note`);
  the GUI thread may change `rec` first, by a command or by the answer to a box.
  `CleanAfterNote` is what the engine does when the window has returned.
* The message boxes do not stop the other thread: `job.boxes` is the set of
  those that are open, and the user dismisses any of them.
* Without a window (`~shown`) the engine's messages are dropped (`NobodyHears`),
  as the handler of WM_VNC_FILEXFER in `clntwnd.c` does.
* `crashed` is set by a handler that follows a NULL record, and nothing follows.
* Renaming, moving through the directories and commands on local files only are
  left out: they touch neither the record nor the lists of an operation.

### ScreenUpdate

The main thread of the server between the hook's messages and the updates it
sends. A pixel is a pair, a region a set of pixels. `image` and `pos` are the
pointer of `rfbsSetMouse`; for each client `requested`, `modified`, slices,
encodings and the flags of the pointer are the fields of `rfbClientRec`. What a
client sees is not kept as a picture: `lag` is the set of pixels copied into the
frame buffer since they were sent to the client, `scars` those with an old
pointer drawn into them.

| code | actions |
|---|---|
| `rfbsUpdateScreen` (`rfbsrv.c` 1939-1957), with `rfbMarkRectAsModified` | `UpdateScreen` |
| `rfbsSetMouse` 1665-1690, `_cursorSet`, `rfbSetCursor` | `SetMouse` |
| configuration of slices and deferral | `SetServer` |
| FramebufferUpdateRequest, `rfbserver.c` 2664-2725 | `AskMore`, `AskPart` |
| SetEncodings 2398-2488, SetDesktopSize 3052-3071 | `SetEncodings`, `SetDesktopSize` |
| `rfbUpdateClient`, `main.c` 1270-1296 | `UpdateClient`: `StartDeferring` or `SendFramebufferUpdate` |
| `rfbSendFramebufferUpdate` 3108-3480 | `SendSize`, `NothingToSend`, `SendRegion` (`Answers`) |
| new client, closed client | `Connect`, `Leave` |

What is sent may be the bounding box of the region instead of the region
(`BBox`), when it has more than `maxRectsPerUpdate` rectangles: both are
possible for every region. `ServerProofs` extends this module and `ServerClients`, so
names that both would have carry a prefix here: `ScreenInit`, `ScreenNext`, `ScreenSpec`,
`ScreenTypeOK`, and the clients are `Viewers`.

### ServerGui

`WinSendMsg` between the main thread and the GUI thread of the server. Each
thread has a stack of calls (`stack`) and a queue of messages sent to it
(`inbox`): a sender waits for the answer and meanwhile serves what the other
thread sends it (`Take`), so handlers nest. The program counter in a call names
the next step of a handler that sends more than one message.

| code | actions |
|---|---|
| `_cbClientNew`, `_cbClientGone` (`rfbsrv.c` 433-568), `rfbsAttach` | `Accept`, `Attach`, `AttachFails`, `Joined`, `ConnectionGone`, `CountDown`, `FreeClient` |
| `_cbSetTextChat` 940-1003 | `TextChatOpen`, `ChatOpened`, `ShowChat`, `TextChatLeft` |
| `WMSRV_*` handlers, `rfbsListClients`, `rfbsChatWindow` | `ListClients`, `ListNext`, `ChatAsk`, `SetChatWindow` |
| `WMGUI_*` handlers of `gui.c`, `clientsdlg.c`, `chatwin.c` | `GuiNumChanged`, `ListClient`, `ChatOpen`, `ChatSystem`, `SendSocket` |
| the user's commands and the timer | `OpenList`, `CloseList`, `Timer`, `CmdChat`, `BoxAnswered`, `CloseChat`, `CmdQuit` |
| the ends of the threads | `GuiEnds`, `ServerEnds` |

The receiver finds a client by its address, as `_isClientExists` does; a client
record (`Slots` are those of the list window) keeps the pointer.

### WebSocket

One connection of a browser: the socket below, TLS if there is one, the decoder
and the function of LibVNCServer that reads a message piece by piece. A byte is
its place in the stream, so that `got`, what the readers have been given, can be
compared with `Payload`, what the frames carry; a byte that was decoded with the
wrong mask or base64 place is `Garbled`.

| code | actions |
|---|---|
| `hybiReadHeader` 129-303 | `ReadHeader`, `ReadRest`, `ReadFails` |
| `hybiReadAndDecode` 344-477 | `ReadAndDecode`, `ReadFails` |
| `hybiReturnData` 80-115 | `ReturnData`, `ReturnReady` |
| loop of `rfbCheckFds`, `sockets.c` 464-471 | `CheckFds`, `NextMessage` |
| `rfbReadExactTimeout` 637-712 | `Waited`, `Timeout`, `Returned` |
| network and browser | `Arrive`, `HangUp` |

The state, the buffer's write position, the carried bytes and the continuation
opcode are those of `ws_ctx_t`. `HasDataInBuffer` asks the decoder and TLS,
`Readable` is what `select` sees of the socket.

### Handshake

Both ends of a connection, message by message. Either end may be a program of
another make: the viewers of protocol 3.3 and 3.7 and the one of Mac OS X that
`auth.c` makes exceptions for, and servers that say a version and offer security
types. At least one end is the program of this repository, and a viewer that is
attached (`rfbsAttach`) is one of the pairs.

| code | actions |
|---|---|
| `rfbNewClient`, `rfbsAttach` | `NewClient` |
| `rfbProcessClientProtocolVersion`, `rfbAuthNewClient` | `ProtocolVersion` |
| `rfbProcessClientSecurityType`, `rfbVncAuthNone` | `SecurityType` |
| `rfbAuthProcessClientMessage`, `rfbCheckPasswordByList` | `Authentication` |
| `rfbProcessClientInitMessage` | `InitMessage`, `EnterNormal` |
| `rfbsSetServer` of a running server | `Reconfigure` |
| `InitialiseRFBConnection` 893-1145 | `TakeVersion`, `TakeTypes`, `TakeScheme`, `TakeServerInit`, `SendInit` |
| `HandleVncAuth`, `rfbHandleAuthResult`, `ReadReason` | `TakeChallenge`, `TypePassword`, `TakeResult`, `TakeReason` |
| socket closed by the other end, password dialog cancelled | `ReadEof`, `TakeEof`, `Cancel` |

* Both ends read a whole message before they go on, so a message is one step. An
  end that finds another message than the one its state reads has no step:
  `Understood` says that this does not happen.
* The security handlers are a list shared by all clients; the code registers one
  and removes the other when a client comes (`handler`), and looks a choice up
  in the list there is then.
* The passwords are those of `rfbsSetServer`: `FirstViewOnly` is 0 when no
  primary password is set.
* The challenge and the response stand for the password; DES is not modelled.

### Input

One server, several viewers with a user each. The viewer's part is what
`clntwnd.c` sees of its user, the keys of `aKeysPressed` with the symbols they
were pressed with, and the key sequence that the connection thread sends key by
key; the server's part is what each client's record says of keys and buttons,
the owner of the pointer, and what has been given to the system (`keysDown`,
`buttonsDown`).

| code | actions |
|---|---|
| WM_CHAR, `ccSendWMCharEvent`, `xkKeysymFromMP` | `KeyPress`, `KeyRepeat`, `KeyRelease` |
| WM_ACTIVATE, `xkKeysymFromMPCheck` | `Activate`, `Deactivate` |
| `ccSendKeySequence`; `threadClient` 848-863 | `SendKeySequence`; `SequenceKey`, `SequenceEnd`, `SequenceFree` |
| mouse messages, `_wmMouse`, `ccSendMouseEvent` | `Move`, `ButtonDown`, `ButtonUp`, `TurnWheel` |
| `ccSetViewOnly` | `ToggleViewOnly` |
| KeyEvent, `xkMPFromKeysym`, `_cbKeyEvent` | `KeyEvent` |
| PointerEvent, `_cbPtrEvent` | `PointerEvent` |
| deferred position, `main.c` 1298-1317 | `UpdatePointer` |
| `rfbClientConnectionGone` | `Gone` |

* A key has a symbol without and one with Shift, and the server's table may have
  the two on different keys: a release must be sent for the one that was pressed.
* Only the window that is active or has captured the mouse hears of its user;
  other windows capture the mouse as well (`other`).
* The server posts a message for one button of those that differ in two masks.
* Three things are assumed of a user, and named where a guard says so: he holds
  no more keys than `aKeysPressed` has slots, turns view-only mode on and off
  with nothing held and no sequence under way, and does not press Shift while a
  key repeats whose two symbols are on different keys. Without them keys do stay
  down; see "seen while modelling".
* A client that goes with keys or buttons down leaves them down in the system,
  so the properties speak of clients that are present and of what the clients'
  records say.

## Runs

"violation" runs show a disagreement between the code and what a comment beside
it says; see the findings.

| run | properties | bounds | about |
|---|---|---|---|
| ConnSafety | `TypeOK` `ReadyHeld` `BitmapExclusive` `FreedThreadDone` `FreshAnswer` | 1 object, 2 questions, bitmap queries may fail | every interleaving of a connection's thread with arbitrary calls |
| SessionSafety | `STypeOK` `HeldObjects` `Implements` | 2 objects, 2 attempts, 1 question each, everything may fail | messages, windows and objects belong together, and the life cycle is the abstract one |
| SessionLive | `UserEnds` `GuiReturns` | 1 object, 1 question, bitmap queries do not fail | what the user asks for happens, no GUI call hangs |
| ServerSafety | `TypeOK` `Books` `LogonAsked` `SoleClient` `ClosedReaped` | 2 records, 2 addresses, 2 configurations, memory and listening may fail | what is kept per client agrees with the client list |
| FxSafety | `TypeOK` `SentWhole` | a file and a directory on the server, two files in the viewer, 1 block in flight, 3 commands, every failure, an impatient user | blocks go to the file they were read from, whatever fails and whatever the user does |
| FxOrderly | `TransferInStep` `MovedIsCopied` `Ended` | 2 files and 1 directory on each side, 2 blocks in flight, 3 commands, refusals, a patient user | record and list agree, moving loses nothing, operations end |
| ScreenSafety | `ScreenTypeOK` `PixelsCovered` `CursorCovered` `CursorKnown` `PixelsArrive` | 1 client, 2 x 2 pixels, 1 pointer image at 2 places, slices of a row, deferral | no change is forgotten between the hook and the client, and each is sent |
| GuiSafety | `TypeOK` `RecordsLive` `Told` `Settles` `QuitEnds` | 2 clients, 2 addresses, 2 records, 1 chat window | handlers may nest as they like: calls return, windows tell the truth, the program ends |
| WsFrames | `TypeOK` `Delivered` `Drained` | 10 streams, with TLS or not, messages read in 2 or 3 parts, buffer of 20 bytes | what a browser's frames carry is what the server reads, in order, and all of it |
| HandshakeSafety | `TypeOK` `Understood` `Admitted` `HandshakeEnds` | 2 connections, 27 pairs, 3 configurations, 1 change, 2 passwords | both ends read what the other one sent, handshakes end, only a control password gives control |
| InputSafety | `TypeOK` `KeysReleased` `DragOwned` | 2 viewers, one with 3 keys or both with 2 buttons; 2 slots, 2 sequences | no key or button stays down that nobody holds |
| SessionAnswer | `AnswerRead` | 1 object | violation |

Why the bounds are enough:

* An object's thread and the GUI thread meet only in the variables of that
  object, apart from the list and the message queue. One object shows their
  interleavings; two in a session show a retry, with messages of the first
  attempt in the queue when the second begins. A third would repeat the second.
  The proofs of `ClientConn` and `ViewerSession` are for any number.
* Two questions in `ConnSafety` are the least for an answer to be left over from
  an earlier one.
* Two client records are the least with a second client to be disturbed, refused
  or closed by, and, since a record is used again at once, sessions of any
  number of clients follow each other. The logon list is a list of two of them;
  its growth is tested by failing memory at size zero.
* Two configurations cover sharing modes 4 and 2 with changes between them
  (the comment at `config.h:42-56`), an access list whose first entry is
  disabled and whose later entries overlap, the external program and HTTP proxy
  connections.
* File transfer: files of one and two blocks, a directory with an item and an
  empty one, and a name that exists on both sides are the least that show a
  file in the middle of its transfer, a directory listed in the middle of an
  operation and each question (`MCFileDialog`). `MaxCommands` = 3 allows an
  operation, its cancel and a second operation that gets what was sent for the
  first. `MaxQueue` is the number of blocks the server has in flight before its
  socket is full. `Events`
  names the failures and user actions of a run: every one in FxSafety; in
  FxOrderly only refusals, since `MovedIsCopied` and `Ended` do not hold after
  the failures listed under "seen while modelling"; `FilesInStep` proves
  `TransferInStep` for more of them. `Patient` keeps the
  user of FxOrderly from giving a command while an operation, a listing or a
  clean-up is under way.
* Screen: two rows and two columns have a region that is not its bounding box, a
  slice boundary and a place where the pointer is not. `AllDamage` are the
  changed lines, `TopAndAll` the parts asked for. The invariants are proved for
  every screen, set of requests and slices, and but for `CursorCovered` for any
  pointer images; with images of different size or hot spot that one fails.
* Server GUI: two clients of which one goes while the other is being listed; a
  list window with room for both; one chat window, so that creating a second one
  fails. `MaxClients` bounds `cClients`.
* WebSocket: the header lengths 6, 8 and 14 are real; `BufLen`, `Extended` and
  `Long` are 20, 6 and 16 instead of 2062, 126 and 65536, so that a short payload
  has each of the headers and one frame is longer than the buffer. The streams
  have a fragmented text message with a PING inside, CLOSE, an empty frame,
  padding, and each kind of frame the decoder refuses. `Pieces` bounds what waits
  in the socket. In WsFrames a frame arrives whole but for the first bytes of its
  header (`Whole` in `MCWebSocket`, of which TLC evaluates `Framed`): without that
  assumption `Delivered` fails.
* Handshake: the versions and types at which something else is sent or read
  (3.3, 3.7, 3.8, Mac OS X's 3.889, UltraVNC's 4, 6, 14 and 16; a list with both
  types, one, none that is supported). A second connection is what changes the
  shared handler or is closed by the sharing rules. One change of the
  configuration (`MaxConfigs`) at any point of a handshake.
* Input: two keys at a time (`Slots` = 2 instead of 4) are the least with a
  modifier and a key it changes; the table puts the two symbols of "2" on
  different keys of the server. Two users with a mouse are the least that fight
  for the pointer. `MaxQueue` = 1: a viewer acts when the server has read what it
  sent, or goes on with what one act sends; `MaxKeys` is the longest sequence
  of the menu. A scene has keys or mice, since they share no state but the
  connection.

Deadlock is not checked where the program may stop: a destroyed object, a closed
session, a server that has ended, a connection that is closed and a user who asks
for nothing have no next step. In `ClientConn` and `FileDialog` the bounds on
questions and commands end the runs as well.

`PROJECT.json` names for each property of a passing run a faulty variant of one
definition that violates it.

## Fairness

`ViewerSession.SFairness`: the GUI thread goes on with its handler and takes
messages from its queue; the connection thread takes the steps that do not depend
on the server and sees the stop signal in its loop, which it tests every 50 ms.
Fairness is strong where a mutex that is released again and again is requested
(`DosRequestMutexSem` queues its waiters) and where a handler is enabled only
between other handlers. Nothing is assumed of the user. `ServerGoesOn`, an
assumption of `SessionLive` alone, says that a server does not stop for ever in
the middle of a message.

`ServerClients.FairSpec`: the main thread goes on with a round once it is begun
and begins one when its queue is empty; `QueueDrains` is the assumption that the
user does not keep the queue filled for ever. A round begins only with an open
listening socket (`rfbsrv.c:2015`), hence the exception in `ClosedReaped`.

`FileDialog.Fairness`: both threads and the server go on, and the user answers
the boxes: an operation whose error box stays open does not end.

`ScreenUpdate.ScreenFairness`: the server comes to every client
(`rfbProcessEvents` goes through the whole list) and a client that has its update
asks for the next. Nothing is assumed of the hook, the pointer or requests for
parts.

`ServerGui.Fairness`: a thread goes on with its handler. It is strong for a
thread that takes a sent message (`WinSendMsg` waits in the window system, which
hands over what was sent first), for the timer and for the ends of the loops,
since a loop looks for them each time it comes round, and for the message box,
which the user answers in the end.

`Handshake.Fairness`: both ends read what has come, and a user who is asked for a
password types one or cancels. Nothing is assumed of reconfigurations or of other
clients.

`Input` has none. `WebSocket` has none: `Drained` is stated of the states in which the server
waits, so it needs no fairness.

## Proofs

`ViewerProofs` proves of `ClientConn`, for every finite or infinite set `Conns`, every
`MaxAsk` and both values of `GpiFails`, from the assumptions named in
`ClientConn` and no others:

| theorem | statement |
|---|---|
| `TypeCorrect` | `Spec => []TypeOK` |
| `ReadyStaysReady` | `Spec => []ReadyHeld` |
| `BitmapMutex` | `Spec => []BitmapExclusive` |
| `FreedOnlyDone` | `Spec => []FreedThreadDone` |
| `AnswersFresh` | `Spec => []FreshAnswer` |

None of the last four is inductive. Three invariants make them so:

* `LockInv`: the GUI owns an object's mutex while it is in `"ready"` or `"hps"`
  of that object, with state READY in the first case, and a thread in `"update"`
  or `"resize"` owns it. A state is set only
  by an owner or when the mutex is free, so it cannot change under the GUI;
  two owners at once would be needed inside the bitmap.
* `ThreadInv`: the state FINISH of an object means that its thread is done or
  that the watchdog is about to kill it; an object that has lost its thread
  identifier has no running thread. `ccDestroy` frees only in these cases.
* `AnswerInv`: an answer that is kept always bears the number of the last
  question: `_logonInfoToThread` drops the old one before it asks again.

`ServerProofs` proves of `ScreenUpdate`, for every screen, set of clients, set of
rectangles and parts asked for, slices and pointer images, from `ScreenAssumption`:

| theorem | statement |
|---|---|
| `ScreenTypeCorrect` | `ScreenSpec => []ScreenTypeOK` |
| `PixelsAlwaysCovered` | `ScreenSpec => []PixelsCovered` |
| `CursorAlwaysKnown` | `ScreenSpec => []CursorKnown` |
| `CursorAlwaysCovered` | `SameBox`, `~TurnOff`: `ScreenSpec => []CursorCovered` |

* `StepBecomes` reduces a step to what one client's record becomes, so the other
  lemmas are about a client and not about the function of all of them.
* `PixelsCovered` rests on two facts about rectangles: `rfbsUpdateScreen` marks
  all that it copies though it turns the rectangle round twice (`MarkedCopied`),
  and what is sent as a bounding box holds the region (`InBox`).
* `CursorCovered` is not inductive. `ScarsModified` says where the pixels with an
  old pointer are marked, according to whether the client has been shown the
  pointer since; it needs images of one size and hot spot (`SameBox`), and
  TLC shows that without them the property fails.

`ServerProofs` proves of `ServerClients`, for every set of client records, addresses and
configurations:

| theorem | statement |
|---|---|
| `TypeCorrect` | `Spec => []TypeOK` |
| `BooksKept` | `Spec => []Books` |
| `AskedOnce` | `Spec => []LogonAsked` |
| `OneClient` | `Spec => []SoleClient` |

* `BooksInv`: no record is linked twice and what is not linked is blank. Without
  it `Unlisted` might leave a second link to a freed record, and the hooks'
  counter would not be the length of the list.
* `TodoInv`: a loop that lets clients go finds each of them once and still listed.
* `LogonInv`: a client is in `paLogonClients` exactly while it has not been asked
  about, and a round's search misses none that has logged in. The place of a
  client in the list moves when another one is removed (`SwapRemoveSet`).
* `NewestInv`: the clients that came in under this configuration are in
  RFB_NORMAL, which is what `rfbProcessClientInitMessage` looks at.

`HandshakeProofs` proves, for any number of connections, every set of pairs of
programs that `PairsAssumption` describes, every number of changes of the
configuration and every set of passwords:

| theorem | statement |
|---|---|
| `TypeCorrect` | `Spec => []TypeOK`; at most three messages are under way in a direction |
| `Understanding` | `Spec => []Understood` |
| `Admission` | `Spec => []Admitted` |

* `Understood` is about what is read, but a message was sent when the other side
  was elsewhere. `Talk` lists where both sides can be and what is under way while
  both are there, `Bereft` and `Deserted` the same when one of them has gone.
* `SameVersion` says from which states on both sides use one minor version, which
  decides what the next message is; `Cleared` and `PastPassword` say who gets past the
  password, in the terms of `Admitted`.

`ViewerProofs` proves of `ViewerSession`, for every set of objects and every number of
attempts that `AttemptsAssumption` allows (an attempt takes an object of its own):

| theorem | statement |
|---|---|
| `SessionTyped` | `SSpec => []STypeOK` |
| `WindowsHoldObjects` | `SSpec => []HeldObjects` |
| `SessionImplements` | `SSpec => Implements`, the specification of `Connection` under `phaseOf` |

* `LockInv` and the lemmas about types of the first part are used again, since a step of a session is one of `ClientConn` or leaves its variables.
* `SInv` adds what the windows know. At most one object is live (`OneLive`), which
  is what makes attempts follow each other; each point of a thread goes with a
  state (`Course`); the call the GUI thread is in belongs to its handler (`Calls`);
  only the connection of a client window, or one that is being destroyed, is told
  to stop (`Stops`); `Dialog` and `Window` say what each window has of the object and of
  the messages that wait.
* The refinement is proved step by step: a step changes no phase, or the phase of
  one object by one step of `Connection`. That an attempt begins with nothing alive,
  and is established from the connecting phase only, comes from the invariant.

`InputProofs` proves, for every set of clients, keyboard, mouse, key sequence that
releases what it presses, size of `aKeysPressed` and number of messages under way:

| theorem | statement |
|---|---|
| `InputTyped` | `Spec => []TypeOK` |
| `KeysComeUp` | `Spec => []KeysReleased` |
| `DragsOwn` | `Spec => []DragOwned` |

* `KeysReleased` speaks of a moment when all has arrived. `KeyFlow` says the same of
  every moment: what will be down once the messages under way have been read
  (`After`) has a slot, or is named in the rest of a key sequence, which releases it
  (`ToCome`). `AfterConcat` says what appending a message does to `After`.
* `KeyboardInv`: what takes a slot is held as long as the window is active, so there
  are no more of them than the user holds keys (`FewSlots`), and none loses its slot.
* `PointerFlow`: two masks that follow each other in the queue differ in at most one
  button, the wheel aside (`Near`), and so does the first from the server's flags; the
  last is what the viewer has down. That is why the one button that `_cbPtrEvent`
  posts is the only one that changed.

`ServerGuiProofs` proves, for every number of connections and all sets of record
addresses, of records of the list window and of chat windows:

| theorem | statement |
|---|---|
| `Invariant` | `Spec => []IInv`, with the shape of both stacks |
| `TypeCorrect` | `Spec => []TypeOK` |
| `RecordsAlive` | `Spec => []RecordsLive` |
| `NumbersTold` | `Spec => []Told` |

* `Nest` says how handlers nest: on the main thread one handler of its own and above
  it one request of the GUI; on the GUI thread a message box, one command, and on
  top one call of the main thread. A command waits exactly while its request is
  under way or served (`Pending`). Of the calls that are under way each has a frame
  that waits for it, the lower frame for the earlier call (`Calling`): that is why
  numbers are shown in the order in which the counter changed.
* `Named` says what stays true of a client while a call about it is under way:
  a new client cannot go, and one that goes is not freed, before the call has
  come back. Because of it `listclient` never adds the record of a client that goes.
* `RecordsLive` alone is not inductive: a record could outlive its client. `Recorded`
  adds that the list window is still to be told of each client that goes
  (`Leaving`) and will then be known to the GUI window: it is open, or shown before
  anything else. While it is being created it has records only once its own request
  has been taken.
* `Numbers` chains the numbers under way from the one that is shown to the counter;
  `Counter` says the counter is that of the clients that are listed or have not been
  counted down yet. So `_cbClientGone` never finds it zero (`CountDownStep`).
* The lemmas go by what happens to the stacks (`SrvSends`, `SrvPops`, `GuiPops`,
  `GuiSends`, `SrvTakes`, `GuiTakes`, ...), what such a step leaves of the data
  (`DataKept` and the lemmas after it), and one lemma per action.

`FileDialogProofs` proves of the dialog, its engine and the server together, for
any files on both sides, any room in the socket and any number of commands:

| theorem | statement |
|---|---|
| `Invariant` | `Spec => []IInv`, types and the marks along the queue |
| `TypeCorrect` | `Spec => []TypeOK` |
| `WholeFiles` | `Spec => []SentWhole`, whatever fails and whatever the user does |
| `FilesInStep` | `Orderly`, `~IsSeq(Folder)`: `Spec => []TransferInStep` |

* Messages name no file, so `SentWhole` says nothing of the messages behind the
  first one. `Line` puts a mark between any two messages under way to the server:
  the file it will be writing there, if any, and how much of it. The mark before the
  first message agrees with the server (`Written`), the mark behind the last one
  with the viewer's record (`Sent`), and every message leads from a mark to the next
  (`Follows`). Taking a message drops the first mark, sending one adds a last one
  (`LineTaken`, `LinePlain`, `LineOne`).
* Answers name no request either. `InStep` says that at most one thing is under way
  and which one (`Phase`): nothing (`Rest`), a request (`Asking`), its answer
  (`Answering`), a listing (`Streaming`), a file in one direction (`Receiving`,
  `SendingFile`), or a message for the dialog (`Noted`). Each phase says what there
  is of it in the dialog, the record, both queues and the server; what arrives is
  then the answer to what was asked. `Receiving` says of the two copies of the file
  that what is here and what is in the socket make up its beginning on the server
  (`Arrives`), which at the end of the file makes them equal.
* `Orderly` is the precondition of that: the user lets an operation, a listing and a
  clean-up end, does not cancel or close, and the viewer can write its files. After
  any of these two things are under way at once and the property fails ("seen while
  modelling" below). The server may refuse, and both sides may fail to read,
  wherever they can. `~IsSeq(Folder)`: the content of a directory is not
  that of a file; TLC has a model value for it.
* What a handler does in all to the lists and the files is a fold over a list.
  `FoldAddsListed` and `FoldDeletesPart` say what of it matters: the result is a
  list of items, and no file but one that is deleted changes.

`WebSocketProofs` proves, for any set of streams of frames, any lengths of the reads and
any buffer with room for a header and a group:

| theorem | statement |
|---|---|
| `Invariant` | `Spec => []Typed`, types and what the context holds when |
| `TypeCorrect` | `Spec => []TypeOK` |
| `EveryByte` | `Framed`: `Spec => []Delivered` |
| `NothingWaits` | `Framed`: `Spec => []Drained` |

* `Typed` needs no condition on the pieces. That the buffer is not overrun rests on
  `InFrame`: what is carried over is part of the payload, at most three bytes, and ends
  inside the buffer; every read is bounded by the room that is left.
* `Framed` is the hypothesis of the other two: the bytes of every stream stop only where
  the decoder keeps its state (`WholeAt`). The code does not keep it elsewhere ("WebSocket"
  under "Findings"), so without it `Delivered` fails. TLC evaluates `Framed` for the instance
  it checks (`CutsWhole` in `MCWebSocket`), so there are streams and pieces that satisfy it.
* `PInv` is inductive with `Typed`. While the connection lives the decoder is in the header
  of one frame (`AtHeader`) or in its payload (`AtBody`). Both say how much of the
  messages the readers have: at a header all of the frames before it, in a payload up
  to what is decoded, but for the bytes that wait in the buffer, which follow. The bytes
  carried over are the last ones read, and begin at a group of four, so the mask and
  base64 start again at the right place (`Base % 4 = 0`). The open message is that of the
  stream (`ContBefore`, `ContWithin`).
* `Drained` needs the socket's side too: where the thread waits nothing is pending in TLS,
  and on a plain socket the bytes stop where a frame begins and no message is open,
  or in the first bytes of a header (`CutBefore` and the lemmas of that section).
* `Start` and `Payload` are functions defined by recursion over the frames of a stream.
  That such a function exists and obeys its rule is `Recursion`, proved by induction over
  a set of numbers (`NumberInduction`).

`SequenceLemmas` has what these proofs share: lists without duplicates, removal,
places in a list, the least and the greatest number of a set, and folds. The
library's induction theorems take a predicate and cannot be used; these take a set,
and start from `<` on the numbers being well-founded (`NumberInduction`,
`SubsetInduction`). A fold is the value of a function that is defined by recursion
over subsets; that the function exists (`FoldExists`) and stays in a set that the
step does not leave (`FoldTyped`) is proved that way.

Each invariant is proved from the initial state and through every action, one
step or lemma per action, one fact per conjunct. The inductive invariants were
checked with TLC on the bounds of the runs before they were proved; the properties
they imply are checked by the runs themselves. `TypeCorrect` of `ClientConn` and of
`ScreenUpdate` is inductive by itself; that of `Input`, of `Handshake` and of `ServerGui`
is not: the number of slots, of messages under way and of clients counted is bounded
by the protocol only.

Assumptions on constants are those the modules name, and no others. Most say that
a constant has the type it has to have. Those with content:

* `SequencesAssumption` (Input): a key sequence of the menu releases what it presses,
  as the four in `clntwnd.c` (1300-1335) do.
* `PairsAssumption` (Handshake): in every connection one end is a program of this
  repository; the viewers it may meet are those its source names; a server of
  another make that offers nothing says so (`failed`), it sends no empty list.
* `AttemptsAssumption` (ViewerSession): there are as many objects as attempts.
* `ServerAssumption`, `LocalAssumption` (file transfer): there are finitely many files,
  and each is a directory or a sequence of blocks.
* `ScreenAssumption` (ScreenUpdate): the screen is not empty, and changes and requests
  lie on it.
* `TextAssumption`, `CutsAssumption`, `BufferRoom` (WebSocket): a text frame carries whole
  groups of base64, and an empty one no padding; bytes stop inside the stream; the buffer
  has room for a header and a group (`codeBufDecode` has 2062 bytes).

Model-checked only:

* liveness: `UserEnds`, `GuiReturns`, `HandshakeEnds`, `ClosedReaped`, `Ended`, `PixelsArrive`,
  `Settles`, `QuitEnds`. Fairness is out of the prover's reach.
* `MovedIsCopied`: it rests on no path being twice in the lists of an operation, and
  on what a list says of the directories above its items.

## Findings

| run | where | what |
|---|---|---|
| SessionAnswer | `clntconn.c:163` | the event is reset after the window was told to answer; an answer in between is lost |

Seen while modelling. These have no run: the models leave the case out or make
it one of their outcomes, and the properties are stated so that they hold.

Viewer, connection:

* `clntconn.c:381`: early return of `_cbRFBUpdate` with the mutex owned; then
  closing the window blocks the GUI thread (in the model: `"leaked"`; SessionLive
  assumes that the query does not fail).
* `clntconn.c:1274`: `ccDestroy` may free the object between its thread's last
  state and last message.
* `progress.c:279`: a connection lost before READY is handled leaves no window,
  and an object that nobody holds.
* `progress.c:393`: Cancel, dispatched by the message box's own loop, destroys the
  object that the suspended handler destroys again.
* `clntconn.c:540`: `_cbRFBGetCredential` reports WAITPASSWORD, so the state
  RFBSTATE_WAITCREDENTIAL that `ccSendLogonInfo` expects for a user name does not
  occur.
* `clntconn.c:898`, `923`: the log callback takes `hmtxCCList` while its thread
  may own `hmtxRFB`; the watchdog (1845, then 134) takes them in the other order.
* `clntconn.c:705`: the mouse pointer is destroyed outside the mutex.

File transfer:

* `filexfer.c:342`: the end of a cancelled transfer is applied to the next one.
* `filexfer.c:424`: a late answer to a header, after a cancel, follows a NULL
  record.
* `filexfer.c:512`: after a failed open `hFile` is -1 and `fxClean` deletes a local
  file that was there before.
* `filexfer.c:283`: a local failure to create or write is not told to the server,
  which goes on sending.
* `rfbserver.c:2146`: the server tells nobody of a failed write, so a move from
  the viewer deletes the only complete copy (`MovedIsCopied` is checked without
  that failure).
* `fxdlg.c:1723`: "Yes" to a confirmation that is answered during another
  operation empties that operation's lists.
* `_scanLocalRequest`: when `DosFindFirst` fails, no step follows and the operation
  stays.
* The header and the payload of a message are two writes without a lock between
  two threads.

Server:

* `auth.c:350`: the list of security handlers is shared by clients of different
  kinds. `rfbsrv.c:2224`: attached viewers are checked by the access list meant for
  incoming ones. `rfbserver.c:855`: a closed client that is not reaped yet counts
  as connected.
* `rfbsrv.c:1478`: `_isClientExists` compares the address only: a request, a chat
  or a disconnect meant for a client that is gone reaches another one whose record
  has its place.
* `rfbsrv.c:1264`: `_cursorSet` overwrites the pointer that the screen has before
  the rectangle of the old one is marked: with another size or hot spot a part of
  the old pointer stays on the screen of a client that does not draw it.
* `rfbserver.c:2398`, `3161-3164`: a client that goes back to a pointer drawn by
  the server is not sent it before the pointer moves (`TurnOff`).
* `rfbserver.c:3135`: a client with ExtDesktopSize that asks for everything is told
  the size only. Requests for parts use up the slice that was due, so their part
  may never be sent (`Distracted`).
* `clientsdlg.c`: if `WinSetWindowPos` dispatches sent messages while the list
  window is created, a client that goes then leaves its record.
* When the main thread takes WM_QUIT first, requests of the GUI thread run with
  `rfbsDone` behind them, and a message posted then may wait for a thread that
  waits for the GUI thread. The model's `CmdQuit` ends the GUI thread first, and
  not while a message box is open.
* `avdlg.c`: the thread may be killed between `soclose` and `iSock = -1`, or with
  the socket open.

Handshake:

* `auth.c:347-350` looks a client's choice up in the shared list ("Make sure it was
  present in the list sent by the server"), from which the type that was sent may
  have gone: an honest choice is refused when a client of another kind comes in
  between. `Understood` and `HandshakeEnds` hold, since the refusal is a close.
* `rfbsrv.c:1734`: `authPasswdData` is never NULL, so a server with neither
  password admits nobody.
* `clntconn.c`: the credential callback returns NULL for X509, so VeNCrypt's X509
  types fail.

Input:

* `os2xkey.c:567`: with five keys held the first loses its slot, and its release is
  not sent ("Send events for keys released while the window has been inactive",
  `clntwnd.c:1121`, does not find it either).
* `clntconn.c:1361`: view-only mode turned on with a key or button held, or while a
  sequence is sent, keeps the release from being sent.
* `clntconn.c:848-863`, `1718-1747`: the connection thread steps and frees a sequence
  without the mutex that the other thread takes to append to it. What is appended
  between the test and the `free` is lost whole (a step of the model); the time
  between `realloc` and the assignment, when the thread may use freed memory,
  is not modelled.
* `os2xkey.c:575`: a repeat after Shift has changed replaces the symbol of the slot;
  if the two symbols are on different keys of the server, the first stays down.
* `rfbsrv.c:853-878`: a key pressed through the driver because Ctrl was down, and
  released after Ctrl, is broken by a posted message only: `KeysReleased` speaks of
  the keys that always go through the driver.
* A client that goes leaves its keys and buttons down; there is no clean-up.
* `rfbserver.c:2757`: a client that may only watch takes the pointer like any
  other, and keeps it as long as its user holds a button.
* `rfbsrv.c:641-652`: of several buttons that differ in one message (after messages
  were dropped) only the last is posted.
* `clntwnd.c:509`: a release without its press makes `lMouseButtonsDown` -1, and the
  next press does not capture the mouse.
* `main.c:1298-1317`: a deferred position may be given to the system after a newer
  one, or inside the drag of another client; the server's `deferPtrUpdateTime` is 0
  unless an option sets it.

WebSocket:

* `ws_decode.c:372`: on a plain socket a read that finds nothing in the middle of a
  frame drops the frame's state, though the decoder "emulates a read call on a
  socket" (508): the bytes that follow are taken for a header.
* A header of 8 or 14 bytes that comes in two parts split after the sixth byte:
  the rest is asked for with length 0, which is taken for a closed connection, and
  later splits with a negative length.
* Waiting for the next fragment forgets the opcode of the message, so the
  continuation is refused.
* A PING alone leaves the reader in the middle of a message: the client is closed
  after 20 seconds; there is no PONG.
* `rfbssl_read` repeats a read that wants more bytes, so a browser that stops in
  the middle of a TLS record stops the server.

## What is not modelled

* Encodings, the tables of key symbols, chat and clipboard text, dialog layout, the profile:
  data that no property here distinguishes.
* LibVNCClient but for the handshake: external, as its callbacks see it. TLS,
  VeNCrypt, MSLogon and Apple's authentication. The encoders,
  compressors and cryptographic code of LibVNCServer and its vendored parts
  (`minilzo`, `turbojpeg`, `d3des`, `sha1`): data without control that concerns
  the components above.
* The encoding side of the WebSocket connection and its HTTP handshake.
* The attach dialog except for the socket it sends, the configuration dialog, the
  launch pad and the host list.
* The kill of a thread inside one library call, between the library's clean-up
  and the thread's own: one step of the model.
* `common/` but for the chat window's life, `libgiconv/`, `KbdXKey/`, `WPS/`, `warpin/`, web clients
  and examples: helpers with no state of their own, tables, generated or
  packaging code.

## Plan

What is left, in this order; the modules stay free of RECURSIVE operators where
proofs are planned.

1. `MovedIsCopied` as a theorem.
2. `AttachDlg`: connect thread, cancel, result message; the socket is closed or
   attached exactly once.
3. `LockOrder` once the defects named above are repaired: no useful property of it
   holds today.
4. Pure algorithms against a reference definition: `LinkSeq`, log rotation, the
   pointer path queue, the access list, the keyboard driver's queue.
