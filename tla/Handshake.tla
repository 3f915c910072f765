------------------------------ MODULE Handshake ------------------------------
(***************************************************************************)
(* The handshake of a viewer and a server, message by message: protocol    *)
(* version, security type, password, initialisation.  The server's side is *)
(* libvncserver (rfbserver.c, auth.c, main.c) as VNCServer/rfbsrv.c sets   *)
(* it up, the viewer's is InitialiseRFBConnection of libvncclient, with    *)
(* the password asked from the user by VNCViewer/clntconn.c.               *)
(*                                                                         *)
(* A connection is a pair [viewer, server].  "own" is the program of this  *)
(* repository.  Others are external: viewers of protocol 3.3, 3.7 and the  *)
(* one of Mac OS X that auth.c describes, and servers of another make that *)
(* say a version and offer security types.  They act as the version both   *)
(* sides speak demands.                                                    *)
(*                                                                         *)
(* Both sides read a message whole (rfbReadExact, ReadFromRFBServer), so a *)
(* message is one step; only the minor version is kept, one above 8 stands *)
(* for protocol 4 as well.  A side that found another message than the one *)
(* it reads would take its bytes for something else: it has no step here,  *)
(* and Understood says that it does not happen.                            *)
(***************************************************************************)
EXTENDS Integers, SequencesExt

CONSTANTS Conns,      \* connections
          Pairs,      \* who may meet on them: sets of functions from Conns
          SecurityTypes, \* the names of security types
          Configs,    \* configurations of the server
          Typed,      \* passwords a user may type
          MaxConfigs  \* bound: number of reconfigurations

\* "failed" is the type that says that there is none (rfbConnFailed).
ASSUME SecurityTypesAssumption == {"None", "VncAuth", "failed"} \subseteq SecurityTypes

\* A server of another make that offers nothing says so, it does not send an
\* empty list.
ASSUME PairsAssumption ==
  \A p \in Pairs : DOMAIN p = Conns /\ \A c \in Conns :
    LET v == p[c].viewer  s == p[c].server
    IN \/ s.kind = "own" /\ s.attach \in BOOLEAN /\ v \in {"own", "3.3", "3.7", "mac"}
       \/ /\ s.kind # "own" /\ v = "own" /\ s.minor \in Nat
          /\ s.types \in Seq(SecurityTypes \ {"failed"}) /\ s.types # <<>>

ASSUME MaxConfigsAssumption == MaxConfigs \in Nat

VARIABLES
  pair,                 \* the two sides of each connection
  config, changes,      \* the server's configuration, how often it was changed
  handler,              \* the registered security handler, shared by all clients
  state,                \* cl->state, "CLOSED" with the socket
  protocolMinorVersion, \* cl->protocolMinorVersion
  reverseConnection,    \* cl->reverseConnection
  viewOnly,             \* cl->viewOnly
  vstate, minor,        \* what the viewer waits for, client->minor
  typed,                \* the password its user has typed
  toServer, toViewer    \* messages under way

serverVars == <<handler, state, protocolMinorVersion, reverseConnection, viewOnly>>
viewerVars == <<vstate, minor, typed>>
vars == <<pair, config, changes, serverVars, viewerVars, toServer, toViewer>>

NoPassword == "no password"
NoHandler == "nil"

-----------------------------------------------------------------------------
(* Messages *)

Version(m) == [is |-> "version", minor |-> m]
Types(ts) == [is |-> "types", types |-> ts]
Scheme(t) == [is |-> "scheme", type |-> t]
Choice(t) == [is |-> "choice", type |-> t]
Challenge == [is |-> "challenge"]
Response(p) == [is |-> "response", password |-> p]
Result(ok) == [is |-> "result", ok |-> ok]
Reason == [is |-> "reason"]
ClientInit(shared) == [is |-> "clientinit", shared |-> shared]
ServerInit == [is |-> "serverinit"]
Eof == [is |-> "eof"]

Message ==
  [is : {"version"}, minor : Nat] \cup [is : {"types"}, types : Seq(SecurityTypes)]
  \cup [is : {"scheme", "choice"}, type : SecurityTypes] \cup [is : {"response"}, password : Typed]
  \cup [is : {"result"}, ok : BOOLEAN] \cup [is : {"clientinit"}, shared : BOOLEAN]
  \cup [is : {"challenge", "reason", "serverinit", "eof"}]

Own(c) == pair[c].server.kind = "own"

Init ==
  /\ pair \in Pairs
  /\ config \in Configs /\ changes = 0
  /\ handler = NoHandler
  /\ state = [c \in Conns |-> "NONE"]
  /\ protocolMinorVersion = [c \in Conns |-> 0]
  /\ reverseConnection = [c \in Conns |-> FALSE]
  /\ viewOnly = [c \in Conns |-> FALSE]
  /\ vstate = [c \in Conns |-> "VERSION"]
  /\ minor = [c \in Conns |-> 0]
  /\ typed = [c \in Conns |-> NoPassword]
  /\ toServer = [c \in Conns |-> <<>>] /\ toViewer = [c \in Conns |-> <<>>]

-----------------------------------------------------------------------------
(* The server *)

\* What the server sends to c and the state it is in then; the message it has
\* read is consumed.
Reply(c, ms, s) ==
  /\ toViewer' = [toViewer EXCEPT ![c] = @ \o ms]
  /\ toServer' = [toServer EXCEPT ![c] = IF @ = <<>> THEN @ ELSE Tail(@)]
  /\ state' = [state EXCEPT ![c] = s]

\* Faulty variant: the connection stays open when the server gives the client up.
CloseSilently(c, ms) == Reply(c, ms, "CLOSED")
Close(c, ms) == Reply(c, Append(ms, Eof), "CLOSED")

\* rfbNewClient: the version is sent before the hook is asked, which may refuse;
\* rfbsAttach marks a reverse connection after that.
NewClient(c) ==
  /\ state[c] = "NONE"
  /\ LET hello == <<Version(IF ~Own(c) THEN pair[c].server.minor
                            ELSE IF config.ultra THEN 6 ELSE 8)>>
     IN Reply(c, hello, "PROTOCOL_VERSION") \/ (Own(c) /\ Close(c, hello))
  /\ reverseConnection' = [reverseConnection EXCEPT ![c] = Own(c) /\ pair[c].server.attach]
  /\ UNCHANGED <<pair, config, changes, handler, protocolMinorVersion, viewOnly, viewerVars>>

\* A message comes that the server reads in the state s.
Reads(c, s, kind) ==
  /\ state[c] = s
  /\ toServer[c] # <<>> /\ Head(toServer[c]).is = kind

\* rfbAuthNewClient: passwords are always set, if only to an empty list.
PrimaryType(c) == IF reverseConnection[c] THEN "None" ELSE "VncAuth"

\* A viewer of protocol 3.7 chooses from a list, an older one is told the type.
Lists(m) == m >= 7

\* Where the server goes with a type: rfbVncAuthSendChallenge sends the
\* challenge, and after "None" comes the init message.
Announce(c, t, ms) ==
  IF t = "VncAuth" THEN Reply(c, Append(ms, Challenge), "AUTHENTICATION")
  ELSE Reply(c, ms, "INITIALISATION")

ProtocolVersion(c) ==
  /\ Reads(c, "PROTOCOL_VERSION", "version")
  /\ LET m == Head(toServer[c]).minor
         t == PrimaryType(c)
     IN /\ protocolMinorVersion' = [protocolMinorVersion EXCEPT ![c] = m]
        /\ \/ /\ Own(c) /\ ~Lists(m)
              /\ Announce(c, t, <<Scheme(t)>>)
              /\ UNCHANGED handler
           \/ /\ Own(c) /\ Lists(m)
              /\ Reply(c, <<Types(<<t>>)>>, "SECURITY_TYPE")
              /\ handler' = t
           \/ /\ ~Own(c) /\ m < 7
              /\ \/ \E i \in DOMAIN pair[c].server.types :
                      LET o == pair[c].server.types[i] IN Announce(c, o, <<Scheme(o)>>)
                 \/ Close(c, <<Scheme("failed"), Reason>>)
              /\ UNCHANGED handler
           \/ /\ ~Own(c) /\ m >= 7
              /\ \/ Reply(c, <<Types(pair[c].server.types)>>, "SECURITY_TYPE")
                 \/ Close(c, <<Types(<<>>), Reason>>)
              /\ UNCHANGED handler
  /\ UNCHANGED <<pair, config, changes, reverseConnection, viewOnly, viewerVars>>

\* rfbProcessClientInitMessage: the sharing rules, and who is closed by them.
Others(c) == {o \in Conns \ {c} : Own(o) /\ state[o] = "NORMAL"}

EnterNormal(c, ms, shared) ==
  LET exclusive == /\ Own(c) /\ ~reverseConnection[c]
                   /\ config.neverShared \/ (~config.alwaysShared /\ ~shared)
      closed == IF ~exclusive THEN {}
                ELSE IF ~config.dontDisconnect THEN Others(c)
                ELSE IF Others(c) # {} THEN {c} ELSE {}
      sent == [o \in Conns |-> IF o = c THEN Append(ms, ServerInit) ELSE <<>>]
  IN /\ toServer' = [toServer EXCEPT ![c] = Tail(@)]
     /\ state' = [o \in Conns |-> IF o \in closed THEN "CLOSED"
                                  ELSE IF o = c THEN "NORMAL" ELSE state[o]]
     /\ toViewer' = [o \in Conns |-> toViewer[o] \o sent[o]
                                       \o (IF o \in closed THEN <<Eof>> ELSE <<>>)]

\* Faulty variant: the result of "None" is sent to viewers of protocol 3.7 too.
SaysNoneFrom37(m) == m > 6 /\ m # 889
\* Whether "None" is followed by a result.
SaysNone(m) == m > 7 /\ m # 889

\* The type is looked for among the handlers there are now.
SecurityType(c) ==
  /\ Reads(c, "SECURITY_TYPE", "choice")
  /\ LET t == Head(toServer[c]).type
         m == protocolMinorVersion[c]
         known == IF Own(c) THEN t = handler ELSE t \in ToSet(pair[c].server.types)
     IN \/ ~known /\ Close(c, <<>>)
        \/ known /\ t = "VncAuth" /\ Announce(c, t, <<>>)
        \/ /\ known /\ t = "None" /\ m # 889
           /\ Announce(c, t, IF SaysNone(m) THEN <<Result(TRUE)>> ELSE <<>>)
        \/ known /\ t = "None" /\ m = 889 /\ EnterNormal(c, <<>>, TRUE)
  /\ UNCHANGED <<pair, config, changes, handler, protocolMinorVersion, reverseConnection,
                 viewOnly, viewerVars>>

\* rfbsSetServer: the primary password is the first of the list, if it is set;
\* the others are for viewing only.
Passwords == (IF config.primary = NoPassword THEN <<>> ELSE <<config.primary>>)
             \o (IF config.viewOnly = NoPassword THEN <<>> ELSE <<config.viewOnly>>)
\* Faulty variant: the first password always gives control.
FirstAlways == 1
FirstViewOnly == IF config.primary = NoPassword THEN 0 ELSE 1

\* rfbCheckPasswordByList: the first password that fits decides.
Fits(p) == {i \in DOMAIN Passwords : Passwords[i] = p}
Watches(p) == \A i \in Fits(p) : i - 1 >= FirstViewOnly

\* Whether a failure is followed by its reason.
Tells(m) == m > 7

Authentication(c) ==
  /\ Reads(c, "AUTHENTICATION", "response")
  /\ LET p == Head(toServer[c]).password
         ok == IF Own(c) THEN {Fits(p) # {}} ELSE BOOLEAN
     IN \/ /\ TRUE \in ok
           /\ viewOnly' = [viewOnly EXCEPT ![c] = @ \/ (Own(c) /\ Watches(p))]
           /\ Reply(c, <<Result(TRUE)>>, "INITIALISATION")
        \/ /\ FALSE \in ok
           /\ Close(c, IF Tells(protocolMinorVersion[c]) THEN <<Result(FALSE), Reason>>
                       ELSE <<Result(FALSE)>>)
           /\ UNCHANGED viewOnly
  /\ UNCHANGED <<pair, config, changes, handler, protocolMinorVersion, reverseConnection,
                 viewerVars>>

InitMessage(c) ==
  /\ Reads(c, "INITIALISATION", "clientinit")
  /\ EnterNormal(c, <<>>, Head(toServer[c]).shared)
  /\ UNCHANGED <<pair, config, changes, handler, protocolMinorVersion, reverseConnection,
                 viewOnly, viewerVars>>

\* The viewer has gone.
ReadEof(c) ==
  /\ \E s \in {"PROTOCOL_VERSION", "SECURITY_TYPE", "AUTHENTICATION", "INITIALISATION",
               "NORMAL"} : Reads(c, s, "eof")
  /\ Close(c, <<>>)
  /\ UNCHANGED <<pair, config, changes, handler, protocolMinorVersion, reverseConnection,
                 viewOnly, viewerVars>>

\* rfbsSetServer for a running server.
Reconfigure ==
  /\ changes < MaxConfigs
  /\ changes' = changes + 1
  /\ config' \in Configs \ {config}
  /\ UNCHANGED <<pair, serverVars, viewerVars, toServer, toViewer>>

-----------------------------------------------------------------------------
(* The viewer *)

\* What the viewer sends, and what it waits for then.
Send(c, ms, s) ==
  /\ toServer' = [toServer EXCEPT ![c] = @ \o ms]
  /\ vstate' = [vstate EXCEPT ![c] = s]

Takes(c, s, kind) ==
  /\ vstate[c] = s
  /\ toViewer[c] # <<>> /\ Head(toViewer[c]).is = kind
  /\ toViewer' = [toViewer EXCEPT ![c] = Tail(@)]

Fail(c) == Send(c, <<Eof>>, "FAILED")

\* Faulty variant: UltraVNC's versions are corrected on the wrong side.
SpeaksShifted(m) == IF m \in {4, 6} THEN m - 10 ELSE IF m > 8 THEN 8 ELSE m
\* The version our viewer answers with.
Speaks(m) == IF m \in {14, 16} THEN m - 10 ELSE IF m > 8 THEN 8 ELSE m

\* The answers of the other viewers.
Answer(v, m) ==
  CASE v = "own" -> Speaks(m)
    [] v = "3.3" -> 3
    [] v = "3.7" -> IF m < 7 THEN 3 ELSE 7
    [] v = "mac" -> IF m < 7 THEN 3 ELSE 889

TakeVersion(c) ==
  /\ Takes(c, "VERSION", "version")
  /\ LET m == Answer(pair[c].viewer, Head(toViewer[c]).minor)
     IN /\ minor' = [minor EXCEPT ![c] = m]
        /\ Send(c, <<Version(m)>>, IF m > 6 THEN "TYPES" ELSE "SCHEME")
  /\ UNCHANGED <<pair, config, changes, serverVars, typed>>

\* What follows a security type.
SendInit(c, ms) ==
  \E shared \in BOOLEAN : Send(c, Append(ms, ClientInit(shared)), "SERVERINIT")

HandleType(c, t, ms) ==
  \/ t = "VncAuth" /\ Send(c, ms, "CHALLENGE")
  \/ t = "None" /\ minor[c] > 7 /\ minor[c] # 889 /\ Send(c, ms, "RESULT")
  \/ t = "None" /\ minor[c] <= 7 /\ SendInit(c, ms)
  \/ t = "None" /\ minor[c] = 889 /\ Send(c, ms, "SERVERINIT")

\* ReadSupportedSecurityType: the first of the list that the viewer supports.
Supported == {"None", "VncAuth"}

TakeTypes(c) ==
  /\ Takes(c, "TYPES", "types")
  /\ LET types == Head(toViewer[c]).types
     IN \/ types = <<>> /\ Send(c, <<>>, "REASON")
        \/ types # <<>> /\ ToSet(types) \cap Supported = {} /\ Fail(c)
        \/ \E i \in DOMAIN types :
             /\ types[i] \in Supported /\ \A j \in 1..i-1 : types[j] \notin Supported
             /\ HandleType(c, types[i], <<Choice(types[i])>>)
  /\ UNCHANGED <<pair, config, changes, serverVars, minor, typed>>

TakeScheme(c) ==
  /\ Takes(c, "SCHEME", "scheme")
  /\ LET t == Head(toViewer[c]).type
     IN \/ t = "failed" /\ Send(c, <<>>, "REASON")
        \/ t \in Supported /\ HandleType(c, t, <<>>)
        \/ t \notin Supported \cup {"failed"} /\ Fail(c)
  /\ UNCHANGED <<pair, config, changes, serverVars, minor, typed>>

\* HandleVncAuth asks for the password, _logonInfoToThread waits for the user...
TakeChallenge(c) ==
  /\ Takes(c, "CHALLENGE", "challenge")
  /\ Send(c, <<>>, "PASSWORD")
  /\ UNCHANGED <<pair, config, changes, serverVars, minor, typed>>

\* ... who types one.
TypePassword(c, p) ==
  /\ vstate[c] = "PASSWORD"
  /\ typed' = [typed EXCEPT ![c] = p]
  /\ Send(c, <<Response(p)>>, "RESULT")
  /\ UNCHANGED <<pair, config, changes, serverVars, minor, toViewer>>

\* rfbHandleAuthResult
TakeResult(c) ==
  /\ Takes(c, "RESULT", "result")
  /\ LET ok == Head(toViewer[c]).ok
     IN \/ ok /\ SendInit(c, <<>>)
        \/ ~ok /\ minor[c] > 7 /\ Send(c, <<>>, "REASON")
        \/ ~ok /\ minor[c] <= 7 /\ Fail(c)
  /\ UNCHANGED <<pair, config, changes, serverVars, minor, typed>>

TakeReason(c) ==
  /\ Takes(c, "REASON", "reason")
  /\ Fail(c)
  /\ UNCHANGED <<pair, config, changes, serverVars, minor, typed>>

TakeServerInit(c) ==
  /\ Takes(c, "SERVERINIT", "serverinit")
  /\ Send(c, <<>>, "READY")
  /\ UNCHANGED <<pair, config, changes, serverVars, minor, typed>>

Awaited == [VERSION |-> "version", TYPES |-> "types", SCHEME |-> "scheme",
            CHALLENGE |-> "challenge", RESULT |-> "result", REASON |-> "reason",
            SERVERINIT |-> "serverinit"]

\* The server has gone.
TakeEof(c) ==
  /\ \E s \in DOMAIN Awaited \cup {"READY"} : Takes(c, s, "eof")
  /\ Fail(c)
  /\ UNCHANGED <<pair, config, changes, serverVars, minor, typed>>

\* The user cancels.
Cancel(c) ==
  /\ vstate[c] \in DOMAIN Awaited \cup {"PASSWORD"} /\ state[c] # "NONE"
  /\ Fail(c)
  /\ UNCHANGED <<pair, config, changes, serverVars, minor, typed, toViewer>>

-----------------------------------------------------------------------------
ServerStep(c) == \/ ProtocolVersion(c) \/ SecurityType(c) \/ Authentication(c)
                 \/ InitMessage(c) \/ ReadEof(c)

ViewerStep(c) == \/ TakeVersion(c) \/ TakeTypes(c) \/ TakeScheme(c) \/ TakeChallenge(c)
                 \/ TakeResult(c) \/ TakeReason(c) \/ TakeServerInit(c) \/ TakeEof(c)

UserStep(c) == (\E p \in Typed : TypePassword(c, p)) \/ Cancel(c)

Next == Reconfigure \/ \E c \in Conns : NewClient(c) \/ ServerStep(c) \/ ViewerStep(c) \/ UserStep(c)

\* Both sides read what has come, and a user answers the question.
Fairness == \A c \in Conns : /\ WF_vars(ServerStep(c)) /\ WF_vars(ViewerStep(c))
                             /\ WF_vars(UserStep(c) /\ vstate[c] = "PASSWORD")

Spec == Init /\ [][Next]_vars /\ Fairness

-----------------------------------------------------------------------------
(* Properties *)

\* The message each state of the server waits for; Awaited has those of the viewer.
Expected == [PROTOCOL_VERSION |-> "version", SECURITY_TYPE |-> "choice",
             AUTHENTICATION |-> "response", INITIALISATION |-> "clientinit"]

TypeOK ==
  /\ pair \in Pairs /\ config \in Configs /\ changes \in 0..MaxConfigs
  /\ handler \in {"None", "VncAuth", NoHandler}
  /\ state \in [Conns -> DOMAIN Expected \cup {"NONE", "NORMAL", "CLOSED"}]
  /\ vstate \in [Conns -> DOMAIN Awaited \cup {"PASSWORD", "READY", "FAILED"}]
  /\ protocolMinorVersion \in [Conns -> Nat] /\ minor \in [Conns -> Nat]
  /\ reverseConnection \in [Conns -> BOOLEAN] /\ viewOnly \in [Conns -> BOOLEAN]
  /\ typed \in [Conns -> Typed \cup {NoPassword}]
  /\ toServer \in [Conns -> Seq(Message)] /\ toViewer \in [Conns -> Seq(Message)]
  /\ \A c \in Conns : Len(toServer[c]) <= 3 /\ Len(toViewer[c]) <= 3

\* Whatever versions meet, and whatever is changed or refused on the way, each
\* side reads the message that the other one has sent: the type as a list or as
\* a number, a result after "None" or not, a reason after a failure or not.
Understood ==
  \A c \in Conns :
    /\ state[c] \in DOMAIN Expected /\ toServer[c] # <<>> =>
         Head(toServer[c]).is \in {Expected[state[c]], "eof"}
    /\ vstate[c] \in DOMAIN Awaited /\ toViewer[c] # <<>> =>
         Head(toViewer[c]).is \in {Awaited[vstate[c]], "eof"}

\* A viewer that is ready has been admitted and speaks the server's version, and
\* one whose user typed a password that nowhere gives control may only watch.
Admitted ==
  \A c \in Conns : vstate[c] = "READY" /\ Own(c) =>
    /\ state[c] \in {"NORMAL", "CLOSED"}
    /\ minor[c] = protocolMinorVersion[c]
    /\ reverseConnection[c] \/ (\E k \in Configs : k.primary = typed[c]) \/ viewOnly[c]

\* A handshake ends: the viewer is ready or has failed, also when it is
\* cancelled, the server is configured anew or another client takes its place.
HandshakeEnds ==
  \A c \in Conns : state[c] # "NONE" ~> vstate[c] \in {"READY", "FAILED"}
=============================================================================
