---------------------------- MODULE ServerClients ----------------------------
(***************************************************************************)
(* The clients of the VNC server: the hooks and the main thread's loop of  *)
(* VNCServer/rfbsrv.c and VNCServer/main.c over the client list, the       *)
(* handshake and the event loop of libvncserver.                           *)
(*                                                                         *)
(* Everything here runs in the main thread (the library is built without   *)
(* threads, rfb/rfbconfig.h:28).  When its message queue is empty it makes *)
(* one round of rfbsProcessEvents: accept, read from the clients, update   *)
(* and reap them, look for clients that have logged in.  Between rounds it *)
(* serves the messages of the GUI thread.  Clients may send, fail and      *)
(* disappear between any two steps of a round.                             *)
(*                                                                         *)
(* A member of Clients is the address of a client record: a freed one may  *)
(* be allocated again, while a message of the GUI still names it.          *)
(***************************************************************************)
EXTENDS Integers, Sequences, SequencesExt

CONSTANTS Clients,     \* addresses of client records
          Addrs,       \* addresses of hosts that connect
          Configs,     \* configurations: records of flags and an ACL
          MemoryFails, \* whether realloc may return NULL
          ListenFails  \* whether the listening socket may fail to open

ASSUME FlagsAssumption == MemoryFails \in BOOLEAN /\ ListenFails \in BOOLEAN

VARIABLES
  state,             \* cl->state, "none": the record is not allocated
  open,              \* cl->sock # -1
  reverseConnection, \* cl->reverseConnection
  offer,             \* the security type cl was offered and has to choose from
  clientHead,        \* rfbScreen's list of clients, the newest first
  allFds,            \* clients whose sockets are in rfbScreen->allFds
  handler,           \* the registered security handler, shared by all clients
  cClients,          \* rfbsrv.c: number of clients
  hooks,             \* pmhInit() called, pmhDone() not yet
  paLogonClients,    \* clients that have not logged in yet
  ulMaxLogonClients, \* room in paLogonClients
  config,            \* the configuration in use
  listening,         \* rfbScreen->listenSock # -1
  phase,             \* where the main thread is
  todo,              \* clients its iterator has still to visit
  asked,             \* clients named by WMSRV_DISCONNECT messages in the queue
  logons,            \* whether a client is "unlisted" in paLogonClients, "waits" there,
                     \* was taken out as logged in "once" or "twice"
  newest             \* clients that entered RFB_NORMAL under this configuration

clVars     == <<state, open, reverseConnection, offer, clientHead, allFds>>
logonVars  == <<paLogonClients, ulMaxLogonClients, logons>>
countVars  == <<cClients, hooks>>
screenVars == <<config, listening>>
loopVars   == <<phase, todo>>
vars == <<clVars, logonVars, countVars, screenVars, loopVars, asked, handler, newest>>

NoType == "nil"
SecTypes == {"None", "VncAuth"}
States == {"none", "PROTOCOL_VERSION", "SECURITY_TYPE", "AUTHENTICATION",
           "INITIALISATION", "NORMAL"}
Listed == ToSet(clientHead)
Free == Clients \ Listed

Init ==
  /\ state = [c \in Clients |-> "none"]
  /\ open = [c \in Clients |-> FALSE]
  /\ reverseConnection = [c \in Clients |-> FALSE]
  /\ offer = [c \in Clients |-> NoType]
  /\ clientHead = <<>> /\ allFds = {}
  /\ handler = NoType
  /\ cClients = 0 /\ hooks = FALSE
  /\ paLogonClients = <<>> /\ ulMaxLogonClients = 0
  /\ config \in Configs
  /\ listening \in {TRUE, ~ListenFails}
  /\ phase = "idle" /\ todo = <<>>
  /\ asked = {}
  /\ logons = [c \in Clients |-> "unlisted"]
  /\ newest = {}

-----------------------------------------------------------------------------
(* Access control list: the first enabled entry whose range holds the      *)
(* address decides.                                                        *)

aclCheck(acl, addr) ==
  LET hits == {i \in DOMAIN acl : /\ acl[i].fEnable
                                  /\ acl[i].stInAddr1 <= addr /\ addr <= acl[i].stInAddr2}
      first == CHOOSE i \in hits : \A j \in hits : i <= j
  IN IF acl = <<>> THEN "EMPTY"
     ELSE IF hits = {} THEN "NOT_FOUND"
     ELSE IF acl[first].fAllow THEN "ALLOW" ELSE "DENY"

\* The results whose lowest bit is set.
Allowed(addr) == aclCheck(config.acl, addr) \in {"EMPTY", "ALLOW"}

-----------------------------------------------------------------------------
(* A new client. *)

\* Faulty variant: the result of realloc is not looked at.
ListForLogonFull(c) ==
  /\ paLogonClients' = Append(paLogonClients, c)
  /\ ulMaxLogonClients' \in {ulMaxLogonClients, IF Len(paLogonClients) = ulMaxLogonClients
                              THEN ulMaxLogonClients + 4 ELSE ulMaxLogonClients}
  /\ logons' = [logons EXCEPT ![c] = "waits"]

\* The list of clients that wait for authentication grows by four; a client
\* for whom there is no memory is not listed.
ListForLogon(c) ==
  \/ /\ paLogonClients' = Append(paLogonClients, c)
     /\ ulMaxLogonClients' = IF Len(paLogonClients) = ulMaxLogonClients
                             THEN ulMaxLogonClients + 4 ELSE ulMaxLogonClients
     /\ logons' = [logons EXCEPT ![c] = "waits"]
  \/ /\ MemoryFails /\ Len(paLogonClients) = ulMaxLogonClients
     /\ logons' = [logons EXCEPT ![c] = "unlisted"]
     /\ UNCHANGED <<paLogonClients, ulMaxLogonClients>>

\* rfbNewClient: the record is linked at the head of the list and the hook
\* accepts it.
NewClient(c, reverse) ==
  /\ state' = [state EXCEPT ![c] = "PROTOCOL_VERSION"]
  /\ open' = [open EXCEPT ![c] = TRUE]
  /\ clientHead' = <<c>> \o clientHead
  /\ allFds' = allFds \cup {c}
  /\ cClients' = cClients + 1
  /\ hooks' = (hooks \/ cClients + 1 = 1)
  /\ ListForLogon(c)
  /\ reverseConnection' = [reverseConnection EXCEPT ![c] = reverse]
  /\ UNCHANGED offer

\* What the hook is asked: the flag is still FALSE for every new client, and a
\* host whose name cannot be queried is let in.
HookAccepts(addr, nameKnown) == nameKnown => Allowed(addr)

\* A socket is made a client, if the hook lets it in.
Accept(reverse) ==
  \E c \in Free, addr \in Addrs, nameKnown \in BOOLEAN :
     HookAccepts(addr, nameKnown) /\ NewClient(c, reverse)

-----------------------------------------------------------------------------
(* One round of rfbsProcessEvents. *)

\* The round begins: a new connection, if there is one, is accepted; the
\* hook may refuse it, or writing to it fail: then its record is freed again.
Round ==
  /\ phase = "idle" /\ asked = {} /\ listening
  /\ Accept(FALSE) \/ UNCHANGED <<clVars, logonVars, countVars>>
  /\ phase' = "read" /\ todo' = clientHead
  /\ UNCHANGED <<handler, screenVars, asked, newest>>

\* rfbCloseClient: the record stays in the list, in its state.
Close(S) ==
  /\ open' = [c \in Clients |-> open[c] /\ c \notin S]
  /\ allFds' = allFds \ S

SetState(c, s) ==
  /\ state' = [state EXCEPT ![c] = s]
  /\ UNCHANGED <<open, allFds>>

\* rfbAuthNewClient: a viewer of protocol 3.3 is told the type, a newer one
\* gets a list; then the handler of that type replaces the other one.
PrimaryType(c) == IF reverseConnection[c] THEN "None" ELSE "VncAuth"

ProtocolVersion(c) ==
  /\ state[c] = "PROTOCOL_VERSION"
  /\ \/ /\ SetState(c, IF PrimaryType(c) = "None" THEN "INITIALISATION" ELSE "AUTHENTICATION")
        /\ UNCHANGED <<offer, handler>>
     \/ /\ handler' = PrimaryType(c)
        /\ offer' = [offer EXCEPT ![c] = PrimaryType(c)]
        /\ SetState(c, "SECURITY_TYPE")
  /\ UNCHANGED newest

\* rfbProcessClientInitMessage: the sharing rules of config.h:42-56.
Others(c) == {o \in Listed \ {c} : state[o] = "NORMAL"}

\* Faulty variant: neverShared is not looked at.
ExclusiveWish(c, shared) ==
  /\ ~reverseConnection[c]
  /\ ~config.alwaysShared /\ ~shared

Exclusive(c, shared) ==
  /\ ~reverseConnection[c]
  /\ config.neverShared \/ (~config.alwaysShared /\ ~shared)

EnterNormal(c, shared) ==
  /\ state' = [state EXCEPT ![c] = "NORMAL"]
  /\ newest' = newest \cup {c}
  /\ \/ ~Exclusive(c, shared) /\ UNCHANGED <<open, allFds>>
     \/ /\ Exclusive(c, shared) /\ config.dontDisconnect
        /\ Close(IF Others(c) # {} THEN {c} ELSE {})
     \/ Exclusive(c, shared) /\ ~config.dontDisconnect /\ Close(Others(c))

InitMessage(c, shared) == EnterNormal(c, shared) /\ UNCHANGED <<offer, handler>>

\* The type the viewer has chosen, the one it was offered, is looked for among
\* the registered handlers.  A viewer of Mac OS X that chooses "None" sends no
\* init message: it goes on as a sharing one.
SecurityType(c) ==
  /\ state[c] = "SECURITY_TYPE"
  /\ \/ offer[c] # handler /\ Close({c}) /\ UNCHANGED <<state, newest>>
     \/ offer[c] = handler /\ handler = "VncAuth" /\ SetState(c, "AUTHENTICATION")
        /\ UNCHANGED newest
     \/ offer[c] = handler /\ handler = "None" /\ SetState(c, "INITIALISATION")
        /\ UNCHANGED newest
     \/ offer[c] = handler /\ handler = "None" /\ EnterNormal(c, TRUE)
  /\ offer' = [offer EXCEPT ![c] = NoType]
  /\ UNCHANGED handler

\* The right password; a wrong one closes.
Authentication(c) ==
  /\ state[c] = "AUTHENTICATION"
  /\ SetState(c, "INITIALISATION")
  /\ UNCHANGED <<offer, handler, newest>>

Initialisation(c) ==
  /\ state[c] = "INITIALISATION"
  /\ \E shared \in BOOLEAN : InitMessage(c, shared)

\* In every state: the peer is gone, sends what is not understood, or an
\* answer cannot be written.
ReadFails(c) ==
  /\ Close({c})
  /\ UNCHANGED <<state, offer, handler, newest>>

Visit(c) == /\ todo # <<>> /\ c = Head(todo)
            /\ todo' = Tail(todo)

\* rfbProcessClientMessage for a client whose socket was ready...
Read(c) ==
  /\ phase = "read" /\ Visit(c)
  /\ c \in allFds
  /\ \/ ProtocolVersion(c) \/ SecurityType(c) \/ Authentication(c) \/ Initialisation(c)
     \/ ReadFails(c)
  /\ UNCHANGED <<reverseConnection, clientHead, logonVars, countVars, screenVars, phase,
                 asked>>

\* ... and a client that sent nothing, or nothing that changes its state.
ReadNothing(c) ==
  /\ phase = "read" /\ Visit(c)
  /\ UNCHANGED <<clVars, logonVars, countVars, screenVars, phase, handler, asked, newest>>

\* The HTTP server hands over the socket of a proxy connection.
ProxyConnection == config.httpEnableProxyConnect /\ Accept(FALSE)

\* Faulty variant: the iterator does not return closed clients.
BeginReapOpen ==
  /\ phase = "read" /\ todo = <<>>
  /\ ProxyConnection \/ UNCHANGED <<clVars, logonVars, countVars>>
  /\ phase' = "reap" /\ todo' = SelectSeq(clientHead', LAMBDA c : open'[c])
  /\ UNCHANGED <<screenVars, handler, asked, newest>>

\* The HTTP server has its turn; the second loop visits closed clients too.
BeginReap ==
  /\ phase = "read" /\ todo = <<>>
  /\ ProxyConnection \/ UNCHANGED <<clVars, logonVars, countVars>>
  /\ phase' = "reap" /\ todo' = clientHead'
  /\ UNCHANGED <<screenVars, handler, asked, newest>>

\* The last element takes the place of the one that is removed.
SwapRemove(s, i) == SubSeq(IF i = Len(s) THEN s ELSE [s EXCEPT ![i] = s[Len(s)]],
                           1, Len(s) - 1)

PlaceOf(s, c) == CHOOSE i \in DOMAIN s : s[i] = c

Unlisted(s, c) == IF c \in ToSet(s) THEN SwapRemove(s, PlaceOf(s, c)) ELSE s

\* Faulty variant: the client stays in the list of those that log in.
ClientGoneKeep(c) ==
  /\ cClients' = IF cClients = 0 THEN 0 ELSE cClients - 1
  /\ hooks' = (hooks /\ cClients # 1)
  /\ UNCHANGED <<paLogonClients, ulMaxLogonClients, logons>>

\* _cbClientGone
ClientGone(c) ==
  /\ cClients' = IF cClients = 0 THEN 0 ELSE cClients - 1
  /\ hooks' = (hooks /\ cClients # 1)
  /\ paLogonClients' = Unlisted(paLogonClients, c)
  /\ UNCHANGED <<ulMaxLogonClients, logons>>

\* rfbClientConnectionGone: the record is unlinked, the hook runs, the record
\* is freed.
ConnectionGone(c) ==
  /\ clientHead' = RemoveAt(clientHead, PlaceOf(clientHead, c))
  /\ ClientGone(c)
  /\ state' = [state EXCEPT ![c] = "none"]
  /\ open' = [open EXCEPT ![c] = FALSE]
  /\ allFds' = allFds \ {c}
  /\ offer' = [offer EXCEPT ![c] = NoType]
  /\ reverseConnection' = [reverseConnection EXCEPT ![c] = FALSE]
  /\ newest' = newest \ {c}

\* A client that is open gets its update; one that cannot be written to is
\* closed by that, and is gone like those that were closed before.
Update(c) ==
  /\ phase = "reap" /\ Visit(c)
  /\ open[c]
  /\ UNCHANGED <<clVars, logonVars, countVars, screenVars, phase, handler, asked, newest>>

Reap(c) ==
  /\ phase = "reap" /\ Visit(c)
  /\ ~open[c] \/ state[c] = "NORMAL"
  /\ ConnectionGone(c)
  /\ UNCHANGED <<screenVars, phase, handler, asked>>

\* "Let's see is there a clients authenticated now" (rfbsrv.c:2042).
BeginLogon ==
  /\ phase = "reap" /\ todo = <<>>
  /\ IF paLogonClients = <<>> THEN phase' = "idle" /\ UNCHANGED todo
     ELSE phase' = "logon" /\ todo' = clientHead
  /\ UNCHANGED <<clVars, logonVars, countVars, screenVars, handler, asked, newest>>

\* Faulty variant: only clients that have sent their init message.
LoggedInNormal(c) == state[c] = "NORMAL"

LoggedIn(c) == state[c] \in {"INITIALISATION", "NORMAL"}

\* The external program, when there is one, refuses the client or not; what it
\* answered is not defined when it could not be run.
Logon(c) ==
  /\ phase = "logon" /\ Visit(c)
  /\ LoggedIn(c) /\ c \in ToSet(paLogonClients)
  /\ paLogonClients' = Unlisted(paLogonClients, c)
  /\ logons' = [logons EXCEPT ![c] = IF @ = "waits" THEN "once" ELSE "twice"]
  /\ Close({}) \/ (config.onLogon /\ Close({c}))
  /\ UNCHANGED <<state, reverseConnection, offer, clientHead, countVars, screenVars, phase,
                 handler, asked, newest, ulMaxLogonClients>>

NoLogon(c) ==
  /\ phase = "logon" /\ Visit(c)
  /\ ~ (LoggedIn(c) /\ c \in ToSet(paLogonClients))
  /\ UNCHANGED <<clVars, logonVars, countVars, screenVars, phase, handler, asked, newest>>

EndRound ==
  /\ phase = "logon" /\ todo = <<>>
  /\ phase' = "idle"
  /\ UNCHANGED <<clVars, logonVars, countVars, screenVars, todo, handler, asked, newest>>

-----------------------------------------------------------------------------
(* Messages of the GUI thread, served between two rounds. *)

\* The user selects a client of the list window; the request is posted, while
\* the client may be gone before it is served.
AskDisconnect(c) ==
  /\ phase # "exit" /\ c \in Listed
  /\ asked' = asked \cup {c}
  /\ UNCHANGED <<clVars, logonVars, countVars, screenVars, loopVars, handler, newest>>

\* rfbsDisconnect: only a client that is still listed is closed.
Disconnect(c) ==
  /\ phase = "idle" /\ c \in asked
  /\ asked' = asked \ {c}
  /\ Close({c} \cap Listed)
  /\ UNCHANGED <<state, reverseConnection, offer, clientHead, logonVars, countVars,
                 screenVars, loopVars, handler, newest>>

\* The clipboard has changed or a chat line was typed: a client to whom it cannot
\* be written is closed.
SendFails(c) ==
  /\ phase = "idle" /\ c \in Listed /\ open[c]
  /\ Close({c})
  /\ UNCHANGED <<state, reverseConnection, offer, clientHead, logonVars, countVars,
                 screenVars, loopVars, handler, asked, newest>>

\* rfbsAttach: the connection flag is set when the hook has answered.
Attach ==
  /\ phase = "idle"
  /\ Accept(TRUE) \/ UNCHANGED <<clVars, logonVars, countVars>>
  /\ UNCHANGED <<screenVars, loopVars, handler, asked, newest>>

\* rfbsSetServer for a running server: the sockets are opened again, which
\* empties allFds; the sockets of the clients are put back.
Reconfigure ==
  /\ phase = "idle"
  /\ config' \in Configs
  /\ listening' \in {TRUE, ~ListenFails}
  /\ allFds' = {c \in Listed : open[c]}
  /\ newest' = {}
  /\ UNCHANGED <<state, open, reverseConnection, offer, clientHead, logonVars, countVars,
                 loopVars, handler, asked>>

\* WM_QUIT ends the loop: rfbsDone closes all clients and lets them go.
Exit ==
  /\ phase = "idle" /\ asked = {}
  /\ phase' = "exit" /\ todo' = clientHead
  /\ UNCHANGED <<clVars, logonVars, countVars, screenVars, handler, asked, newest>>

ShutdownClient(c) ==
  /\ phase = "exit" /\ Visit(c)
  /\ ConnectionGone(c)
  /\ UNCHANGED <<screenVars, phase, handler, asked>>

-----------------------------------------------------------------------------
Step(c) == \/ Read(c) \/ ReadNothing(c) \/ Update(c) \/ Reap(c) \/ Logon(c) \/ NoLogon(c)
           \/ ShutdownClient(c)

Turn == BeginReap \/ BeginLogon \/ EndRound

Next == \/ Round \/ Turn \/ Attach \/ Reconfigure \/ Exit
        \/ \E c \in Clients : Step(c) \/ AskDisconnect(c) \/ Disconnect(c) \/ SendFails(c)

Spec == Init /\ [][Next]_vars

\* The main thread goes on, and a user does not keep its queue filled for ever.
Fairness == /\ SF_vars(Round)
            /\ WF_vars(Turn)
            /\ \A c \in Clients : WF_vars(Step(c)) /\ WF_vars(Disconnect(c))

QueueDrains == []<>(asked = {})

FairSpec == Spec /\ Fairness /\ QueueDrains

-----------------------------------------------------------------------------
(* Properties. *)

TypeOK ==
  /\ state \in [Clients -> States]
  /\ open \in [Clients -> BOOLEAN] /\ reverseConnection \in [Clients -> BOOLEAN]
  /\ offer \in [Clients -> SecTypes \cup {NoType}]
  /\ clientHead \in Seq(Clients) /\ allFds \subseteq Clients
  /\ handler \in SecTypes \cup {NoType}
  /\ cClients \in Nat /\ hooks \in BOOLEAN
  /\ paLogonClients \in Seq(Clients)
  /\ ulMaxLogonClients \in Nat /\ Len(paLogonClients) <= ulMaxLogonClients
  /\ config \in Configs /\ listening \in BOOLEAN
  /\ phase \in {"idle", "read", "reap", "logon", "exit"} /\ todo \in Seq(Clients)
  /\ asked \subseteq Clients
  /\ logons \in [Clients -> {"unlisted", "waits", "once", "twice"}]
  /\ newest \subseteq Clients

\* The hooks of the system are active exactly while there are clients: the
\* first one activates them, "Last client is gone - deactivate hooks"
\* (rfbsrv.c:466), through every way a client may come and go.
HooksForClients == hooks <=> clientHead # <<>>

\* paLogonClients never names a record that is freed, or one client twice, even
\* when the record's address is used again.
LogonListLive ==
  /\ ToSet(paLogonClients) \subseteq Listed
  /\ IsInjective(paLogonClients)

\* "Insert client's sockets at the sockets descriptors list" (rfbsrv.c:1872):
\* the clients the loop can read from are the open ones, also after the sockets
\* have been opened again.
WatchedOpen == allFds = {c \in Listed : open[c]}

\* Clients are named in three places besides the library's list, and each of
\* these tells the truth whatever ways clients come and go.
Books == HooksForClients /\ LogonListLive /\ WatchedOpen

\* "We have clients registered at _cbClientNew() and not logged-in yet"
\* (rfbsrv.c:2041): the OnLogon program is asked about a client at most once, and
\* between two rounds it has been asked about every client that is
\* authenticated, unless there was no memory to list it.
LogonAsked ==
  /\ \A c \in Clients : logons[c] # "twice"
  /\ phase = "idle" =>
       \A c \in Listed : state[c] \in {"INITIALISATION", "NORMAL"} => logons[c] # "waits"

\* "Never treat connections as shared" (config.h:50-54): of the clients that
\* came since the configuration was set one is connected, attached viewers
\* aside.
SoleClient ==
  config.neverShared =>
    \A a, b \in newest : open[a] /\ open[b] /\ ~reverseConnection[a] /\ ~reverseConnection[b]
                        => a = b

\* A closed client is reaped: its record, its count and its hooks do not stay,
\* as long as the server listens.
ClosedReaped ==
  \A c \in Clients : c \in Listed /\ ~open[c] ~> c \notin Listed \/ ~listening
=============================================================================
