--------------------------- MODULE HandshakeProofs ---------------------------
(***************************************************************************)
(* Proofs of the safety properties of Handshake for every set of           *)
(* connections, of pairs of programs, of configurations and of passwords.  *)
(*                                                                         *)
(* Who reads a message must know where the other side was when it sent it. *)
(* The invariant therefore says, for every connection, where both sides    *)
(* are and what is under way: Talk while both are there, Bereft when the   *)
(* server has closed, Deserted when the viewer has.                        *)
(***************************************************************************)
EXTENDS Handshake, SequenceLemmas, SequenceTheorems

\* The kinds of the messages under way.
Single(s, a) == Len(s) = 1 /\ s[1].is = a
Couple(s, a, b) == Len(s) = 2 /\ s[1].is = a /\ s[2].is = b
Triple(s, a, b, d) == Len(s) = 3 /\ s[1].is = a /\ s[2].is = b /\ s[3].is = d

\* The viewer is there, and so is the server: one of them has spoken last, and
\* the other one's next message answers that.
Talk(c) ==
  LET S == state[c]  V == vstate[c]  in == toServer[c]  out == toViewer[c]  m == minor[c]
  IN \/ S = "NONE" /\ V = "VERSION" /\ in = <<>> /\ out = <<>>
     \/ S = "PROTOCOL_VERSION" /\ V = "VERSION" /\ in = <<>> /\ Single(out, "version")
     \/ /\ S = "PROTOCOL_VERSION" /\ V = (IF m > 6 THEN "TYPES" ELSE "SCHEME")
        /\ Single(in, "version") /\ in[1].minor = m /\ out = <<>>
     \/ /\ S = "SECURITY_TYPE" /\ V = "TYPES" /\ m > 6 /\ in = <<>>
        /\ Single(out, "types") /\ out[1].types # <<>>
        /\ Own(c) => out[1].types = <<PrimaryType(c)>>
     \/ /\ S = "AUTHENTICATION" /\ V = "SCHEME" /\ in = <<>>
        /\ Couple(out, "scheme", "challenge") /\ out[1].type = "VncAuth"
     \/ /\ S = "INITIALISATION" /\ V = "SCHEME" /\ m <= 6 /\ in = <<>>
        /\ Single(out, "scheme") /\ out[1].type \notin {"failed", "VncAuth"}
     \/ /\ S = "SECURITY_TYPE" /\ V = "CHALLENGE" /\ Single(in, "choice")
        /\ in[1].type = "VncAuth" /\ out = <<>>
     \/ /\ S = "SECURITY_TYPE" /\ (Own(c) => reverseConnection[c])
        /\ in # <<>> /\ in[1].type = "None" /\ out = <<>>
        /\ \/ V = "RESULT" /\ m > 7 /\ m # 889 /\ Single(in, "choice")
           \/ V = "SERVERINIT" /\ m = 889 /\ Single(in, "choice")
           \/ V = "SERVERINIT" /\ m <= 7 /\ Couple(in, "choice", "clientinit")
     \/ S = "AUTHENTICATION" /\ V = "CHALLENGE" /\ in = <<>> /\ Single(out, "challenge")
     \/ S = "AUTHENTICATION" /\ V = "PASSWORD" /\ in = <<>> /\ out = <<>>
     \/ /\ S = "AUTHENTICATION" /\ V = "RESULT" /\ Single(in, "response")
        /\ in[1].password = typed[c] /\ out = <<>>
     \/ /\ S = "INITIALISATION" /\ V = "RESULT" /\ in = <<>>
        /\ Single(out, "result") /\ out[1].ok
     \/ S = "INITIALISATION" /\ V = "SERVERINIT" /\ Single(in, "clientinit") /\ out = <<>>
     \/ S = "NORMAL" /\ V = "SERVERINIT" /\ in = <<>> /\ Single(out, "serverinit")
     \/ S = "NORMAL" /\ V = "READY" /\ in = <<>> /\ out = <<>>

\* The server has closed: what it said before is in the way, and then the end.
Bereft(c) ==
  LET V == vstate[c]  out == toViewer[c]  m == minor[c]
  IN /\ Len(toServer[c]) <= 1
     /\ \/ V = "VERSION" /\ toServer[c] = <<>> /\ Couple(out, "version", "eof")
        \/ V = "TYPES" /\ Triple(out, "types", "reason", "eof") /\ out[1].types = <<>>
        \/ V = "SCHEME" /\ Triple(out, "scheme", "reason", "eof") /\ out[1].type = "failed"
        \/ V = "REASON" /\ Couple(out, "reason", "eof")
        \/ V = "RESULT" /\ m <= 7 /\ Couple(out, "result", "eof") /\ ~out[1].ok
        \/ V = "RESULT" /\ m > 7 /\ Triple(out, "result", "reason", "eof") /\ ~out[1].ok
        \/ V = "SERVERINIT" /\ Couple(out, "serverinit", "eof")
        \/ /\ V \in {"TYPES", "SCHEME", "CHALLENGE", "RESULT", "SERVERINIT", "READY"}
           /\ Single(out, "eof")

\* The viewer has closed: the server still reads what it said before.
Deserted(c) ==
  LET S == state[c]  in == toServer[c]  before == Len(toViewer[c])
  IN \/ /\ S \in {"PROTOCOL_VERSION", "SECURITY_TYPE", "AUTHENTICATION", "INITIALISATION", "NORMAL"}
        /\ Single(in, "eof") /\ before <= 2
     \/ /\ S = "PROTOCOL_VERSION" /\ before = 0
        /\ Couple(in, "version", "eof") /\ in[1].minor = minor[c]
     \/ S = "SECURITY_TYPE" /\ before = 0 /\ Couple(in, "choice", "eof")
     \/ /\ S = "SECURITY_TYPE" /\ before = 0 /\ minor[c] <= 7
        /\ Triple(in, "choice", "clientinit", "eof") /\ in[1].type = "None"
     \/ S = "AUTHENTICATION" /\ before = 0 /\ Couple(in, "response", "eof")
     \/ S = "INITIALISATION" /\ before = 0 /\ Couple(in, "clientinit", "eof")

\* Both sides know the version that was agreed upon.
SameVersion(c) ==
  (\/ state[c] \in {"SECURITY_TYPE", "AUTHENTICATION", "INITIALISATION", "NORMAL"}
   \/ vstate[c] \in {"CHALLENGE", "PASSWORD", "RESULT", "SERVERINIT", "READY"})
  => minor[c] = protocolMinorVersion[c]

\* The user attached the viewer, or has typed a password that gives control, or
\* may only watch.
Cleared(c) ==
  reverseConnection[c] \/ (\E k \in Configs : k.primary = typed[c]) \/ viewOnly[c]

PastPassword(c) ==
  /\ vstate[c] # "FAILED"
  /\ vstate[c] \in {"SERVERINIT", "READY"} \/ state[c] \in {"INITIALISATION", "NORMAL"}

Sound(c) ==
  /\ vstate[c] # "FAILED" /\ state[c] # "CLOSED" => Talk(c)
  /\ vstate[c] # "FAILED" /\ state[c] = "CLOSED" => Bereft(c)
  /\ vstate[c] = "FAILED" /\ state[c] # "CLOSED" => Deserted(c)
  /\ SameVersion(c)
  /\ Own(c) /\ PastPassword(c) => Cleared(c)

IInv == TypeOK /\ \A c \in Conns : Sound(c)

-----------------------------------------------------------------------------
(* Messages.                                                               *)

LEMMA VersionMade ==
  \A n \in Nat : Version(n) \in Message /\ Version(n).is = "version" /\ Version(n).minor = n
  BY DEF Version, Message

LEMMA TypesMade ==
  \A ts \in Seq(SecurityTypes) : Types(ts) \in Message /\ Types(ts).is = "types" /\ Types(ts).types = ts
  BY DEF Types, Message

LEMMA TypeMade ==
  \A t \in SecurityTypes : /\ Scheme(t) \in Message /\ Scheme(t).is = "scheme" /\ Scheme(t).type = t
                    /\ Choice(t) \in Message /\ Choice(t).is = "choice" /\ Choice(t).type = t
  BY DEF Scheme, Choice, Message

LEMMA ResponseMade ==
  \A p \in Typed : /\ Response(p) \in Message /\ Response(p).is = "response"
                   /\ Response(p).password = p
  BY DEF Response, Message

LEMMA ResultMade ==
  \A b \in BOOLEAN : Result(b) \in Message /\ Result(b).is = "result" /\ Result(b).ok = b
  BY DEF Result, Message

LEMMA InitMade ==
  \A b \in BOOLEAN : ClientInit(b) \in Message /\ ClientInit(b).is = "clientinit"
  BY DEF ClientInit, Message

LEMMA PlainMade ==
  /\ Challenge \in Message /\ Challenge.is = "challenge"
  /\ Reason \in Message /\ Reason.is = "reason"
  /\ ServerInit \in Message /\ ServerInit.is = "serverinit"
  /\ Eof \in Message /\ Eof.is = "eof"
  BY DEF Challenge, Reason, ServerInit, Eof, Message

LEMMA MessageRead ==
  ASSUME NEW x \in Message
  PROVE  /\ x.is = "version" => x.minor \in Nat
         /\ x.is = "types" => x.types \in Seq(SecurityTypes)
         /\ x.is \in {"scheme", "choice"} => x.type \in SecurityTypes
         /\ x.is = "response" => x.password \in Typed
         /\ x.is = "result" => x.ok \in BOOLEAN
         /\ x.is = "clientinit" => x.shared \in BOOLEAN
  BY DEF Message

\* What is left when the first message is taken.
LEMMA Taken ==
  ASSUME NEW s \in Seq(Message), NEW a, NEW b, NEW d
  PROVE  /\ s # <<>> => Head(s) = s[1] /\ s[1] \in Message /\ Tail(s) \in Seq(Message)
                        /\ Len(Tail(s)) = Len(s) - 1
         /\ Single(s, a) => s # <<>> /\ s[1].is = a /\ Tail(s) = <<>>
         /\ Couple(s, a, b) => s # <<>> /\ s[1].is = a /\ Single(Tail(s), b)
                               /\ Tail(s)[1] = s[2]
         /\ Triple(s, a, b, d) => s # <<>> /\ s[1].is = a /\ Couple(Tail(s), b, d)
                                  /\ Tail(s)[1] = s[2]
<1>1. ASSUME s # <<>>
      PROVE  /\ Head(s) = s[1] /\ s[1] \in Message /\ Tail(s) \in Seq(Message)
             /\ Len(Tail(s)) = Len(s) - 1 /\ \A i \in 1..Len(s) - 1 : Tail(s)[i] = s[i + 1]
  <2>1. Len(s) \in Nat \ {0}
    BY <1>1
  <2>. QED BY <1>1, <2>1
<1>2. ASSUME Single(s, a) PROVE s # <<>> /\ Tail(s) = <<>>
  <2>1. Len(s) = 1
    BY <1>2 DEF Single
  <2>2. s # <<>>
    BY <2>1
  <2>3. Tail(s) \in Seq(Message) /\ Len(Tail(s)) = 0
    BY <1>1, <2>1, <2>2
  <2>4. Tail(s) = <<>>
    BY <2>3, EmptySeq
  <2>. QED BY <2>2, <2>4
<1>3. ASSUME Couple(s, a, b) PROVE s # <<>> /\ Single(Tail(s), b) /\ Tail(s)[1] = s[2]
  BY <1>1, <1>3 DEF Couple, Single
<1>4. ASSUME Triple(s, a, b, d) PROVE s # <<>> /\ Couple(Tail(s), b, d) /\ Tail(s)[1] = s[2]
  <2>1. s # <<>> /\ Len(s) = 3 /\ 1 \in 1..Len(s) - 1 /\ 2 \in 1..Len(s) - 1
    BY <1>4, EmptySeq DEF Triple
  <2>2. Len(Tail(s)) = 2 /\ Tail(s)[1] = s[2] /\ Tail(s)[2] = s[3]
    BY <1>1, <2>1
  <2>. QED BY <1>4, <2>1, <2>2 DEF Triple, Couple
<1>. QED
  BY <1>1, <1>2, <1>3, <1>4 DEF Single, Couple, Triple

LEMMA TakenOfTwo ==
  ASSUME NEW s \in Seq(Message), NEW a, NEW b, Couple(s, a, b)
  PROVE  /\ s # <<>> /\ s[1].is = a /\ s[2].is = b
         /\ Single(Tail(s), b) /\ Tail(s)[1] = s[2]
<1>1. Couple(s, a, b) => s # <<>> /\ s[1].is = a /\ Single(Tail(s), b) /\ Tail(s)[1] = s[2]
  BY Taken, Zenon
<1>. QED BY <1>1 DEF Couple

LEMMA TakenOfThree ==
  ASSUME NEW s \in Seq(Message), NEW a, NEW b, NEW d, Triple(s, a, b, d)
  PROVE  /\ s # <<>> /\ s[1].is = a /\ s[2].is = b
         /\ Couple(Tail(s), b, d) /\ Tail(s)[1] = s[2]
<1>1. Triple(s, a, b, d) => /\ s # <<>> /\ s[1].is = a
                           /\ Couple(Tail(s), b, d) /\ Tail(s)[1] = s[2]
  BY Taken, Zenon
<1>. QED BY <1>1 DEF Triple

\* What there is when a message is added.
LEMMA Added ==
  ASSUME NEW s \in Seq(Message), NEW x \in Message, NEW a, NEW b
  PROVE  /\ s \o <<x>> \in Seq(Message) /\ Len(s \o <<x>>) = Len(s) + 1
         /\ s = <<>> => Single(s \o <<x>>, x.is) /\ (s \o <<x>>)[1] = x
         /\ Single(s, a) => Couple(s \o <<x>>, a, x.is) /\ (s \o <<x>>)[1] = s[1]
         /\ Couple(s, a, b) => Triple(s \o <<x>>, a, b, x.is) /\ (s \o <<x>>)[1] = s[1]
  BY DEF Single, Couple, Triple

LEMMA AddedAll ==
  ASSUME NEW s \in Seq(Message), NEW t \in Seq(Message)
  PROVE  /\ s \o t \in Seq(Message) /\ Len(s \o t) = Len(s) + Len(t)
         /\ s = <<>> => s \o t = t
         /\ t = <<>> => s \o t = s
  OBVIOUS

\* What a side says at once.
Phrases == {ms \in Seq(Message) : Len(ms) <= 3}

LEMMA SameMessages ==
  ASSUME NEW u \in Seq(Message), NEW v \in Seq(Message), Len(u) = Len(v),
         \A i \in 1..Len(u) : u[i] = v[i]
  PROVE  u = v
  BY SeqEqual

LEMMA Phrase1 ==
  ASSUME NEW x \in Message
  PROVE  /\ <<x>> \in Phrases /\ Len(<<x>>) = 1 /\ Single(<<x>>, x.is) /\ <<x>>[1] = x
         /\ Append(<<>>, x) = <<x>>
<1>1. <<x>> \in Seq(Message) /\ Len(<<x>>) = 1 /\ Single(<<x>>, x.is)
  BY DEF Single
<1>2. /\ Append(<<>>, x) \in Seq(Message) /\ Len(Append(<<>>, x)) = 1
      /\ Append(<<>>, x)[1] = x
  OBVIOUS
<1>3. \A i \in 1..1 : Append(<<>>, x)[i] = <<x>>[i]
  BY <1>2
<1>. QED BY <1>1, <1>2, <1>3, SameMessages DEF Phrases

LEMMA Phrase2 ==
  ASSUME NEW x \in Message, NEW y \in Message
  PROVE  /\ <<x, y>> \in Phrases /\ Len(<<x, y>>) = 2
         /\ Couple(<<x, y>>, x.is, y.is) /\ <<x, y>>[1] = x
         /\ Append(<<x>>, y) = <<x, y>>
<1>1. <<x, y>> \in Seq(Message) /\ Len(<<x, y>>) = 2 /\ Couple(<<x, y>>, x.is, y.is)
  BY DEF Couple
<1>2. /\ Append(<<x>>, y) \in Seq(Message) /\ Len(Append(<<x>>, y)) = 2
      /\ Append(<<x>>, y)[1] = x /\ Append(<<x>>, y)[2] = y
  OBVIOUS
<1>3. \A i \in 1..2 : Append(<<x>>, y)[i] = <<x, y>>[i]
  BY <1>2
<1>4. Append(<<x>>, y) = <<x, y>>
  BY <1>1, <1>2, <1>3, SameMessages
<1>5. <<x, y>> \in Phrases
  BY <1>1 DEF Phrases
<1>6. <<x, y>>[1] = x
  OBVIOUS
<1>. QED BY <1>1, <1>4, <1>5, <1>6, Zenon

LEMMA Phrase3 ==
  ASSUME NEW x \in Message, NEW y \in Message, NEW z \in Message
  PROVE  /\ <<x, y, z>> \in Phrases /\ Len(<<x, y, z>>) = 3
         /\ Triple(<<x, y, z>>, x.is, y.is, z.is) /\ <<x, y, z>>[1] = x
         /\ Append(<<x, y>>, z) = <<x, y, z>>
<1>1. <<x, y, z>> \in Seq(Message) /\ Len(<<x, y, z>>) = 3
      /\ Triple(<<x, y, z>>, x.is, y.is, z.is)
  BY DEF Triple
<1>2. /\ Append(<<x, y>>, z) \in Seq(Message) /\ Len(Append(<<x, y>>, z)) = 3
      /\ Append(<<x, y>>, z)[1] = x /\ Append(<<x, y>>, z)[2] = y
      /\ Append(<<x, y>>, z)[3] = z
  OBVIOUS
<1>3. \A i \in 1..3 : Append(<<x, y>>, z)[i] = <<x, y, z>>[i]
  BY <1>2
<1>4. Append(<<x, y>>, z) = <<x, y, z>>
  BY <1>1, <1>2, <1>3, SameMessages
<1>5. <<x, y, z>> \in Phrases
  BY <1>1 DEF Phrases
<1>6. <<x, y, z>>[1] = x
  OBVIOUS
<1>. QED BY <1>1, <1>4, <1>5, <1>6, Zenon

\* The two sides of a connection.
LEMMA Sides ==
  ASSUME TypeOK, NEW c \in Conns
  PROVE  /\ Own(c) => /\ pair[c].server.attach \in BOOLEAN
                      /\ pair[c].viewer \in {"own", "3.3", "3.7", "mac"}
         /\ ~Own(c) => /\ pair[c].viewer = "own" /\ pair[c].server.minor \in Nat
                       /\ pair[c].server.types \in Seq(SecurityTypes) /\ pair[c].server.types # <<>>
                       /\ \A i \in DOMAIN pair[c].server.types :
                            pair[c].server.types[i] \in SecurityTypes \ {"failed"}
<1>1. CASE Own(c)
  BY <1>1, PairsAssumption DEF TypeOK, Own
<1>2. CASE ~Own(c)
  <2>1. /\ pair[c].viewer = "own" /\ pair[c].server.minor \in Nat
        /\ pair[c].server.types \in Seq(SecurityTypes \ {"failed"}) /\ pair[c].server.types # <<>>
    BY <1>2, PairsAssumption DEF TypeOK, Own
  <2>2. pair[c].server.types \in Seq(SecurityTypes)
    BY <2>1, SeqMonotonic
  <2>3. \A i \in DOMAIN pair[c].server.types :
          pair[c].server.types[i] \in SecurityTypes \ {"failed"}
    BY <2>1, LenProperties, ElementOfSeq
  <2>. QED BY <1>2, <2>1, <2>2, <2>3
<1>. QED
  BY <1>1, <1>2

-----------------------------------------------------------------------------
(* What a step of a side changes.                                          *)

ServerStates == DOMAIN Expected \cup {"NONE", "NORMAL", "CLOSED"}
ViewerStates == DOMAIN Awaited \cup {"PASSWORD", "READY", "FAILED"}

\* The other connections are not touched.
Apart(c) ==
  \A d \in Conns \ {c} :
    /\ state'[d] = state[d] /\ vstate'[d] = vstate[d]
    /\ toServer'[d] = toServer[d] /\ toViewer'[d] = toViewer[d]
    /\ minor'[d] = minor[d] /\ protocolMinorVersion'[d] = protocolMinorVersion[d]
    /\ reverseConnection'[d] = reverseConnection[d] /\ viewOnly'[d] = viewOnly[d]
    /\ typed'[d] = typed[d]

Fits3(c) == Len(toServer[c]) <= 3 /\ Len(toViewer[c]) <= 3

LEMMA StateSets ==
  /\ ServerStates = {"PROTOCOL_VERSION", "SECURITY_TYPE", "AUTHENTICATION", "INITIALISATION",
                     "NONE", "NORMAL", "CLOSED"}
  /\ ViewerStates = {"VERSION", "TYPES", "SCHEME", "CHALLENGE", "RESULT", "REASON", "SERVERINIT",
                     "PASSWORD", "READY", "FAILED"}
  BY DEF ServerStates, ViewerStates, Expected, Awaited

LEMMA Untouched ==
  ASSUME NEW d \in Conns, Sound(d), pair' = pair,
         state'[d] = state[d], vstate'[d] = vstate[d],
         toServer'[d] = toServer[d], toViewer'[d] = toViewer[d],
         minor'[d] = minor[d], protocolMinorVersion'[d] = protocolMinorVersion[d],
         reverseConnection'[d] = reverseConnection[d], viewOnly'[d] = viewOnly[d],
         typed'[d] = typed[d]
  PROVE  Sound(d)'
<1>1. Own(d)' = Own(d)
  BY DEF Own
<1>2. PrimaryType(d)' = PrimaryType(d)
  BY DEF PrimaryType
<1>3. Talk(d)' = Talk(d)
  BY <1>1, <1>2 DEF Talk, Single, Couple
<1>4. Bereft(d)' = Bereft(d)
  BY DEF Bereft, Single, Couple, Triple
<1>5. Deserted(d)' = Deserted(d)
  BY DEF Deserted, Single, Couple, Triple
<1>6. SameVersion(d)' = SameVersion(d)
  BY DEF SameVersion
<1>7. PastPassword(d)' = PastPassword(d) /\ Cleared(d)' = Cleared(d)
  BY DEF PastPassword, Cleared
<1>. QED
  BY <1>1, <1>3, <1>4, <1>5, <1>6, <1>7 DEF Sound

LEMMA ReplyEffect ==
  ASSUME TypeOK, NEW c \in Conns, NEW ms \in Seq(Message), NEW s \in ServerStates,
         Reply(c, ms, s)
  PROVE  /\ toViewer'[c] = toViewer[c] \o ms /\ state'[c] = s
         /\ toServer'[c] = IF toServer[c] = <<>> THEN <<>> ELSE Tail(toServer[c])
         /\ toViewer' \in [Conns -> Seq(Message)] /\ toServer' \in [Conns -> Seq(Message)]
         /\ state' \in [Conns -> ServerStates]
         /\ \A d \in Conns \ {c} : /\ state'[d] = state[d] /\ toServer'[d] = toServer[d]
                                   /\ toViewer'[d] = toViewer[d]
<1>1. toViewer[c] \o ms \in Seq(Message)
  BY AddedAll DEF TypeOK
<1>2. (IF toServer[c] = <<>> THEN <<>> ELSE Tail(toServer[c])) \in Seq(Message)
  BY Taken DEF TypeOK
<1>. QED
  BY <1>1, <1>2 DEF Reply, TypeOK, ServerStates

LEMMA SendEffect ==
  ASSUME TypeOK, NEW c \in Conns, NEW ms \in Seq(Message), NEW s \in ViewerStates,
         Send(c, ms, s)
  PROVE  /\ toServer'[c] = toServer[c] \o ms /\ vstate'[c] = s
         /\ toServer' \in [Conns -> Seq(Message)] /\ vstate' \in [Conns -> ViewerStates]
         /\ \A d \in Conns \ {c} : vstate'[d] = vstate[d] /\ toServer'[d] = toServer[d]
<1>1. toServer[c] \o ms \in Seq(Message)
  BY AddedAll DEF TypeOK
<1>. QED
  BY <1>1 DEF Send, TypeOK, ViewerStates

LEMMA TakesEffect ==
  ASSUME TypeOK, NEW c \in Conns, NEW s, NEW kind, Takes(c, s, kind)
  PROVE  /\ vstate[c] = s /\ toViewer[c] # <<>> /\ Head(toViewer[c]) = toViewer[c][1]
         /\ toViewer[c][1] \in Message /\ toViewer[c][1].is = kind
         /\ toViewer'[c] = Tail(toViewer[c]) /\ Len(toViewer'[c]) <= 2
         /\ toViewer' \in [Conns -> Seq(Message)]
         /\ \A d \in Conns \ {c} : toViewer'[d] = toViewer[d]
<1>1. toViewer[c] \in Seq(Message) /\ toViewer[c] # <<>> /\ Len(toViewer[c]) <= 3
  BY DEF Takes, TypeOK
<1>2. /\ Head(toViewer[c]) = toViewer[c][1] /\ toViewer[c][1] \in Message
      /\ Tail(toViewer[c]) \in Seq(Message) /\ Len(Tail(toViewer[c])) = Len(toViewer[c]) - 1
  BY <1>1, Taken
<1>. QED
  BY <1>1, <1>2 DEF Takes, TypeOK

-----------------------------------------------------------------------------
(* The server.                                                             *)

\* What the server says before it closes, and with the end that follows it.
LEMMA Closings ==
  ASSUME NEW c, NEW x \in Message, NEW y \in Message
  PROVE  /\ Close(c, <<>>) => Reply(c, <<Eof>>, "CLOSED")
         /\ Close(c, <<x>>) => Reply(c, <<x, Eof>>, "CLOSED")
         /\ Close(c, <<x, y>>) => Reply(c, <<x, y, Eof>>, "CLOSED")
<1>1. Eof \in Message
  BY PlainMade
<1>2. /\ Append(<<>>, Eof) = <<Eof>> /\ Append(<<x>>, Eof) = <<x, Eof>>
      /\ Append(<<x, y>>, Eof) = <<x, y, Eof>>
  BY <1>1, Phrase1, Phrase2, Phrase3, Zenon
<1>. QED
  BY <1>2, Zenon DEF Close

\* The types after a reply.
LEMMA ReplyTyped ==
  ASSUME TypeOK, NEW c \in Conns, NEW ms \in Seq(Message), NEW s \in ServerStates,
         Reply(c, ms, s), Len(toViewer[c]) + Len(ms) <= 3,
         UNCHANGED <<pair, config, changes, viewerVars>>,
         handler' \in {"None", "VncAuth", NoHandler},
         protocolMinorVersion' \in [Conns -> Nat],
         reverseConnection' \in [Conns -> BOOLEAN], viewOnly' \in [Conns -> BOOLEAN]
  PROVE  TypeOK'
<1>1. Len(toViewer'[c]) <= 3
  BY ReplyEffect, AddedAll DEF TypeOK
<1>2. Len(toServer'[c]) <= 3
  <2>1. toServer[c] \in Seq(Message) /\ Len(toServer[c]) \in Nat /\ Len(toServer[c]) <= 3
    BY DEF TypeOK
  <2>2. toServer'[c] = IF toServer[c] = <<>> THEN <<>> ELSE Tail(toServer[c])
    BY ReplyEffect
  <2>. QED BY <2>1, <2>2, Taken
<1>3. \A d \in Conns : Len(toServer'[d]) <= 3 /\ Len(toViewer'[d]) <= 3
  BY <1>1, <1>2, ReplyEffect DEF TypeOK
<1>4. /\ toViewer' \in [Conns -> Seq(Message)] /\ toServer' \in [Conns -> Seq(Message)]
      /\ state' \in [Conns -> ServerStates]
  BY ReplyEffect
<1>. QED
  BY <1>3, <1>4 DEF TypeOK, ServerStates, viewerVars

\* A reply to what was all that was under way.
LEMMA Answered ==
  ASSUME TypeOK, NEW c \in Conns, NEW ms \in Seq(Message), NEW s \in ServerStates,
         Reply(c, ms, s), toViewer[c] = <<>>
  PROVE  toViewer'[c] = ms /\ state'[c] = s
<1>1. toViewer'[c] = toViewer[c] \o ms /\ state'[c] = s
  BY ReplyEffect
<1>2. <<>> \o ms = ms
  BY ConcatEmptySeq
<1>. QED
  BY <1>1, <1>2, Zenon

LEMMA NewClientSound ==
  ASSUME IInv, NEW c \in Conns, NewClient(c)
  PROVE  TypeOK' /\ Sound(c)' /\ Apart(c)
<1>. DEFINE hello == Version(IF ~Own(c) THEN pair[c].server.minor ELSE IF config.ultra THEN 6 ELSE 8)
<1>1. hello \in Message /\ hello.is = "version"
  BY Sides, VersionMade DEF IInv
<1>2. /\ state[c] = "NONE" /\ vstate[c] = "VERSION" /\ toServer[c] = <<>> /\ toViewer[c] = <<>>
  <2>1. Sound(c) /\ state[c] = "NONE"
    BY DEF IInv, NewClient
  <2>2. Talk(c)
    BY <2>1 DEF Sound, Deserted
  <2>. QED BY <2>1, <2>2 DEF Talk
<1>3. Reply(c, <<hello>>, "PROTOCOL_VERSION") \/ Close(c, <<hello>>)
  BY Zenon DEF NewClient, hello
<1>. HIDE DEF hello
<1>4. /\ UNCHANGED <<pair, config, changes, handler, protocolMinorVersion, viewOnly, viewerVars>>
      /\ reverseConnection' \in [Conns -> BOOLEAN]
      /\ \A d \in Conns \ {c} : reverseConnection'[d] = reverseConnection[d]
  BY Sides DEF NewClient, IInv, TypeOK
<1>5. ASSUME NEW ms \in Seq(Message), NEW s \in ServerStates, Reply(c, ms, s),
             Len(ms) <= 2
      PROVE  /\ TypeOK' /\ Apart(c)
             /\ toViewer'[c] = ms /\ toServer'[c] = <<>> /\ state'[c] = s
  <2>0. TypeOK
    BY DEF IInv
  <2>1. TypeOK'
    <3>1. /\ handler' \in {"None", "VncAuth", NoHandler}
          /\ protocolMinorVersion' \in [Conns -> Nat] /\ viewOnly' \in [Conns -> BOOLEAN]
      BY <1>4, <2>0 DEF TypeOK
    <3>2. Len(toViewer[c]) + Len(ms) <= 3
      BY <1>2, <1>5
    <3>. QED BY <1>4, <1>5, <2>0, <3>1, <3>2, ReplyTyped
  <2>2. Apart(c)
    BY <1>4, <1>5, <2>0, ReplyEffect DEF Apart, viewerVars
  <2>3. toViewer'[c] = ms /\ state'[c] = s
    BY <1>2, <1>5, <2>0, Answered
  <2>4. toServer'[c] = <<>>
    BY <1>2, <1>5, <2>0, ReplyEffect
  <2>. QED BY <2>1, <2>2, <2>3, <2>4
<1>6. CASE Reply(c, <<hello>>, "PROTOCOL_VERSION")
  <2>1. /\ TypeOK' /\ Apart(c)
        /\ toViewer'[c] = <<hello>> /\ toServer'[c] = <<>> /\ state'[c] = "PROTOCOL_VERSION"
    <3>1. <<hello>> \in Seq(Message) /\ Len(<<hello>>) <= 2 /\ "PROTOCOL_VERSION" \in ServerStates
      BY <1>1, Phrase1, StateSets DEF Phrases
    <3>. QED BY <1>5, <1>6, <3>1
  <2>2. Talk(c)'
    BY <1>1, <1>2, <1>4, <2>1, Phrase1 DEF Talk, viewerVars
  <2>. QED
    BY <1>2, <1>4, <2>1, <2>2 DEF Sound, SameVersion, PastPassword, viewerVars
<1>7. CASE Close(c, <<hello>>)
  <2>1. /\ TypeOK' /\ Apart(c)
        /\ toViewer'[c] = <<hello, Eof>> /\ toServer'[c] = <<>> /\ state'[c] = "CLOSED"
    <3>1. /\ <<hello, Eof>> \in Seq(Message) /\ Len(<<hello, Eof>>) <= 2
          /\ "CLOSED" \in ServerStates
      BY <1>1, PlainMade, Phrase2, StateSets DEF Phrases
    <3>2. Reply(c, <<hello, Eof>>, "CLOSED")
      BY <1>1, <1>7, Closings
    <3>. QED BY <1>5, <3>1, <3>2
  <2>2. Couple(<<hello, Eof>>, "version", "eof")
    BY <1>1, Phrase2, PlainMade
  <2>3. Bereft(c)'
    BY <1>2, <1>4, <2>1, <2>2 DEF Bereft, viewerVars
  <2>. QED
    BY <1>2, <1>4, <2>1, <2>3 DEF Sound, SameVersion, PastPassword, viewerVars
<1>. QED
  BY <1>3, <1>6, <1>7

\* The server reads a message.
LEMMA Heard ==
  ASSUME TypeOK, NEW c \in Conns, NEW s, NEW kind, Reads(c, s, kind)
  PROVE  /\ state[c] = s /\ toServer[c] \in Seq(Message) /\ toServer[c] # <<>>
         /\ Head(toServer[c]) = toServer[c][1] /\ toServer[c][1] \in Message
         /\ toServer[c][1].is = kind
<1>1. state[c] = s /\ toServer[c] \in Seq(Message) /\ toServer[c] # <<>>
  BY DEF Reads, TypeOK
<1>. QED
  BY <1>1, Taken DEF Reads

\* What it finds, and what is behind it: the viewer's init message at most,
\* unless the viewer is gone.
LEMMA HeardVersion ==
  ASSUME TypeOK, NEW c \in Conns, Sound(c), Reads(c, "PROTOCOL_VERSION", "version")
  PROVE  /\ toViewer[c] = <<>> /\ toServer[c][1].minor = minor[c]
         /\ vstate[c] # "FAILED" => /\ vstate[c] = (IF minor[c] > 6 THEN "TYPES" ELSE "SCHEME")
                                    /\ Tail(toServer[c]) = <<>>
         /\ vstate[c] = "FAILED" => Single(Tail(toServer[c]), "eof")
<1>1. state[c] = "PROTOCOL_VERSION" /\ toServer[c] \in Seq(Message) /\ toServer[c] # <<>>
      /\ toServer[c][1].is = "version" /\ toViewer[c] \in Seq(Message)
  BY Heard DEF TypeOK
<1>2. CASE vstate[c] # "FAILED"
  <2>1. Talk(c)
    BY <1>1, <1>2 DEF Sound
  <2>. QED BY <1>1, <1>2, <2>1, Taken DEF Talk
<1>3. CASE vstate[c] = "FAILED"
  <2>1. Deserted(c)
    BY <1>1, <1>3 DEF Sound
  <2>2. Couple(toServer[c], "version", "eof") /\ toServer[c][1].minor = minor[c]
        /\ Len(toViewer[c]) = 0
    BY <1>1, <2>1 DEF Deserted, Single, Couple, Triple
  <2>. QED BY <1>1, <1>3, <2>2, Taken, EmptySeq
<1>. QED
  BY <1>2, <1>3

LEMMA HeardChoice ==
  ASSUME TypeOK, NEW c \in Conns, Sound(c), Reads(c, "SECURITY_TYPE", "choice")
  PROVE  /\ toViewer[c] = <<>> /\ minor[c] = protocolMinorVersion[c]
         /\ vstate[c] # "FAILED" =>
              \/ /\ toServer[c][1].type = "VncAuth" /\ vstate[c] = "CHALLENGE"
                 /\ Tail(toServer[c]) = <<>>
              \/ /\ toServer[c][1].type = "None" /\ (Own(c) => reverseConnection[c])
                 /\ \/ /\ vstate[c] = "RESULT" /\ minor[c] > 7 /\ minor[c] # 889
                       /\ Tail(toServer[c]) = <<>>
                    \/ /\ vstate[c] = "SERVERINIT" /\ minor[c] = 889
                       /\ Tail(toServer[c]) = <<>>
                    \/ /\ vstate[c] = "SERVERINIT" /\ minor[c] <= 7
                       /\ Single(Tail(toServer[c]), "clientinit")
         /\ vstate[c] = "FAILED" =>
              \/ Single(Tail(toServer[c]), "eof")
              \/ /\ toServer[c][1].type = "None" /\ minor[c] <= 7
                 /\ Couple(Tail(toServer[c]), "clientinit", "eof")
<1>1. state[c] = "SECURITY_TYPE" /\ toServer[c] \in Seq(Message) /\ toServer[c] # <<>>
      /\ toServer[c][1].is = "choice" /\ toViewer[c] \in Seq(Message)
  BY Heard DEF TypeOK
<1>2. minor[c] = protocolMinorVersion[c]
  BY <1>1 DEF Sound, SameVersion
<1>3. CASE vstate[c] # "FAILED"
  <2>1. Talk(c)
    BY <1>1, <1>3 DEF Sound
  <2>. QED BY <1>1, <1>2, <1>3, <2>1, Taken DEF Talk
<1>4. CASE vstate[c] = "FAILED"
  <2>1. Deserted(c)
    BY <1>1, <1>4 DEF Sound
  <2>2. /\ Len(toViewer[c]) = 0
        /\ \/ Couple(toServer[c], "choice", "eof")
           \/ /\ Triple(toServer[c], "choice", "clientinit", "eof")
              /\ toServer[c][1].type = "None" /\ minor[c] <= 7
    BY <1>1, <2>1 DEF Deserted, Single, Couple, Triple
  <2>. QED BY <1>1, <1>2, <1>4, <2>2, Taken, EmptySeq
<1>. QED
  BY <1>3, <1>4

LEMMA HeardResponse ==
  ASSUME TypeOK, NEW c \in Conns, Sound(c), Reads(c, "AUTHENTICATION", "response")
  PROVE  /\ toViewer[c] = <<>> /\ minor[c] = protocolMinorVersion[c]
         /\ vstate[c] # "FAILED" => /\ vstate[c] = "RESULT" /\ Tail(toServer[c]) = <<>>
                                    /\ toServer[c][1].password = typed[c]
         /\ vstate[c] = "FAILED" => Single(Tail(toServer[c]), "eof")
<1>1. state[c] = "AUTHENTICATION" /\ toServer[c] \in Seq(Message) /\ toServer[c] # <<>>
      /\ toServer[c][1].is = "response" /\ toViewer[c] \in Seq(Message)
  BY Heard DEF TypeOK
<1>2. minor[c] = protocolMinorVersion[c]
  BY <1>1 DEF Sound, SameVersion
<1>3. CASE vstate[c] # "FAILED"
  <2>1. Talk(c)
    BY <1>1, <1>3 DEF Sound
  <2>. QED BY <1>1, <1>2, <1>3, <2>1, Taken DEF Talk
<1>4. CASE vstate[c] = "FAILED"
  <2>1. Deserted(c)
    BY <1>1, <1>4 DEF Sound
  <2>2. Couple(toServer[c], "response", "eof") /\ Len(toViewer[c]) = 0
    BY <1>1, <2>1 DEF Deserted, Single, Couple, Triple
  <2>. QED BY <1>1, <1>2, <1>4, <2>2, Taken, EmptySeq
<1>. QED
  BY <1>3, <1>4

LEMMA HeardInit ==
  ASSUME TypeOK, NEW c \in Conns, Sound(c), Reads(c, "INITIALISATION", "clientinit")
  PROVE  /\ toViewer[c] = <<>>
         /\ vstate[c] # "FAILED" => vstate[c] = "SERVERINIT" /\ Tail(toServer[c]) = <<>>
         /\ vstate[c] = "FAILED" => Single(Tail(toServer[c]), "eof")
<1>1. state[c] = "INITIALISATION" /\ toServer[c] \in Seq(Message) /\ toServer[c] # <<>>
      /\ toServer[c][1].is = "clientinit" /\ toViewer[c] \in Seq(Message)
  BY Heard DEF TypeOK
<1>3. CASE vstate[c] # "FAILED"
  <2>1. Talk(c)
    BY <1>1, <1>3 DEF Sound
  <2>. QED BY <1>1, <1>3, <2>1, Taken DEF Talk
<1>4. CASE vstate[c] = "FAILED"
  <2>1. Deserted(c)
    BY <1>1, <1>4 DEF Sound
  <2>2. Couple(toServer[c], "clientinit", "eof") /\ Len(toViewer[c]) = 0
    BY <1>1, <2>1 DEF Deserted, Single, Couple, Triple
  <2>. QED BY <1>1, <1>4, <2>2, Taken, EmptySeq
<1>. QED
  BY <1>3, <1>4

LEMMA HeardEof ==
  ASSUME TypeOK, NEW c \in Conns, Sound(c), NEW s \in ServerStates \ {"NONE", "CLOSED"},
         Reads(c, s, "eof")
  PROVE  vstate[c] = "FAILED" /\ Len(toViewer[c]) <= 2
<1>1. state[c] = s /\ toServer[c] \in Seq(Message) /\ toServer[c] # <<>>
      /\ toServer[c][1].is = "eof" /\ toViewer[c] \in Seq(Message)
  BY Heard DEF TypeOK
<1>2. vstate[c] = "FAILED"
  <2>1. SUFFICES ASSUME Talk(c) PROVE FALSE
    BY <1>1, StateSets DEF Sound
  <2>. QED BY <1>1, <2>1 DEF Talk, Single, Couple
<1>3. Deserted(c)
  BY <1>1, <1>2, StateSets DEF Sound
<1>. QED
  BY <1>1, <1>2, <1>3 DEF Deserted

\* The server answers a message: what that leaves to show.
LEMMA ReplyStep ==
  ASSUME TypeOK, NEW c \in Conns, NEW ms \in Phrases, NEW s \in ServerStates,
         Reply(c, ms, s), toViewer[c] = <<>>, toServer[c] # <<>>,
         UNCHANGED <<pair, config, changes, reverseConnection, viewerVars>>,
         handler' \in {"None", "VncAuth", NoHandler},
         protocolMinorVersion' \in [Conns -> Nat], viewOnly' \in [Conns -> BOOLEAN],
         \A d \in Conns \ {c} : /\ protocolMinorVersion'[d] = protocolMinorVersion[d]
                                /\ viewOnly'[d] = viewOnly[d]
  PROVE  /\ TypeOK' /\ Apart(c)
         /\ toViewer'[c] = ms /\ state'[c] = s /\ toServer'[c] = Tail(toServer[c])
         /\ vstate' = vstate /\ minor' = minor /\ typed' = typed /\ Own(c)' = Own(c)
<1>. ms \in Seq(Message) /\ Len(ms) <= 3
  BY DEF Phrases
<1>1. TypeOK'
  <2>1. Len(toViewer[c]) + Len(ms) <= 3 /\ reverseConnection' \in [Conns -> BOOLEAN]
    BY DEF TypeOK
  <2>. QED BY <2>1, ReplyTyped
<1>2. Apart(c)
  BY ReplyEffect DEF Apart, viewerVars
<1>3. toViewer'[c] = ms /\ state'[c] = s /\ toServer'[c] = Tail(toServer[c])
  BY ReplyEffect, Answered
<1>. QED
  BY <1>1, <1>2, <1>3 DEF viewerVars, Own

LEMMA ProtocolVersionSound ==
  ASSUME IInv, NEW c \in Conns, ProtocolVersion(c)
  PROVE  TypeOK' /\ Sound(c)' /\ Apart(c)
<1>. DEFINE m == minor[c]
            t == PrimaryType(c)
            offers == pair[c].server.types
<1>1. TypeOK /\ Sound(c) /\ Reads(c, "PROTOCOL_VERSION", "version") /\ m \in Nat
      /\ t \in SecurityTypes \ {"failed"} /\ t \in {"None", "VncAuth"}
      /\ (t # "VncAuth" => t = "None" /\ reverseConnection[c])
  <2>1. TypeOK /\ Sound(c) /\ Reads(c, "PROTOCOL_VERSION", "version")
    BY DEF IInv, ProtocolVersion
  <2>2. m \in Nat /\ reverseConnection[c] \in BOOLEAN
    BY <2>1 DEF TypeOK
  <2>3. t = IF reverseConnection[c] THEN "None" ELSE "VncAuth"
    BY DEF PrimaryType
  <2>4. "None" \in SecurityTypes /\ "VncAuth" \in SecurityTypes
    BY SecurityTypesAssumption
  <2>5. t \in {"None", "VncAuth"} /\ (t # "VncAuth" => t = "None" /\ reverseConnection[c])
    BY <2>2, <2>3
  <2>6. t \in SecurityTypes \ {"failed"}
    BY <2>4, <2>5
  <2>. QED BY <2>1, <2>2, <2>5, <2>6
<1>2. /\ toViewer[c] = <<>> /\ toServer[c] # <<>> /\ Head(toServer[c]).minor = m
      /\ vstate[c] # "FAILED" => /\ vstate[c] = (IF m > 6 THEN "TYPES" ELSE "SCHEME")
                                 /\ Tail(toServer[c]) = <<>>
      /\ vstate[c] = "FAILED" => Single(Tail(toServer[c]), "eof")
  BY <1>1, Heard, HeardVersion
<1>3. /\ UNCHANGED <<pair, config, changes, reverseConnection, viewOnly, viewerVars>>
      /\ protocolMinorVersion' = [protocolMinorVersion EXCEPT ![c] = m]
      /\ \/ Own(c) /\ ~Lists(m) /\ Announce(c, t, <<Scheme(t)>>) /\ UNCHANGED handler
         \/ Own(c) /\ Lists(m) /\ Reply(c, <<Types(<<t>>)>>, "SECURITY_TYPE") /\ handler' = t
         \/ /\ ~Own(c) /\ m < 7 /\ UNCHANGED handler
            /\ \/ \E i \in DOMAIN offers : Announce(c, offers[i], <<Scheme(offers[i])>>)
               \/ Close(c, <<Scheme("failed"), Reason>>)
         \/ /\ ~Own(c) /\ m >= 7 /\ UNCHANGED handler
            /\ \/ Reply(c, <<Types(offers)>>, "SECURITY_TYPE")
               \/ Close(c, <<Types(<<>>), Reason>>)
  BY <1>2, Zenon DEF ProtocolVersion
<1>. HIDE DEF m, t, offers
<1>4. /\ protocolMinorVersion' \in [Conns -> Nat] /\ protocolMinorVersion'[c] = m
      /\ \A d \in Conns \ {c} : protocolMinorVersion'[d] = protocolMinorVersion[d]
      /\ viewOnly' \in [Conns -> BOOLEAN] /\ viewOnly' = viewOnly
      /\ handler' \in {"None", "VncAuth", NoHandler}
  BY <1>1, <1>3 DEF TypeOK
<1>5. ASSUME NEW ms \in Phrases, NEW s \in ServerStates, Reply(c, ms, s)
      PROVE  /\ TypeOK' /\ Apart(c)
             /\ toViewer'[c] = ms /\ state'[c] = s /\ toServer'[c] = Tail(toServer[c])
             /\ vstate' = vstate /\ minor' = minor /\ typed' = typed /\ Own(c)' = Own(c)
  BY <1>1, <1>2, <1>3, <1>4, <1>5, ReplyStep DEF viewerVars
<1>s. {"SECURITY_TYPE", "AUTHENTICATION", "INITIALISATION", "CLOSED"} \subseteq ServerStates
  BY StateSets
<1>6. ASSUME NEW o \in SecurityTypes \ {"failed"}, Own(c) => o = t, Announce(c, o, <<Scheme(o)>>), m < 7
      PROVE  TypeOK' /\ Sound(c)' /\ Apart(c)
  <2>1. CASE o = "VncAuth"
    <3>0. /\ Scheme(o) \in Message /\ Scheme(o).is = "scheme" /\ Scheme(o).type = o
          /\ Challenge \in Message /\ Challenge.is = "challenge"
      BY PlainMade, TypeMade
    <3>1. Reply(c, <<Scheme(o), Challenge>>, "AUTHENTICATION")
      <4>1. Append(<<Scheme(o)>>, Challenge) = <<Scheme(o), Challenge>>
        BY <3>0, Phrase2
      <4>. QED BY <1>6, <2>1, <4>1, Zenon DEF Announce
    <3>2. /\ <<Scheme(o), Challenge>> \in Phrases /\ Len(<<Scheme(o), Challenge>>) = 2
          /\ Couple(<<Scheme(o), Challenge>>, "scheme", "challenge")
          /\ <<Scheme(o), Challenge>>[1].type = o
      BY <3>0, Phrase2
    <3>3. /\ TypeOK' /\ Apart(c)
          /\ toViewer'[c] = <<Scheme(o), Challenge>> /\ state'[c] = "AUTHENTICATION"
          /\ toServer'[c] = Tail(toServer[c])
          /\ vstate' = vstate /\ minor' = minor /\ Own(c)' = Own(c)
      BY <1>5, <1>s, <3>1, <3>2, Zenon
    <3>4. vstate[c] # "FAILED" => Talk(c)'
      BY <1>1, <1>2, <1>6, <2>1, <3>2, <3>3 DEF Talk, m
    <3>5. vstate[c] = "FAILED" => Deserted(c)'
      BY <1>2, <3>2, <3>3 DEF Deserted
    <3>6. vstate[c] # "FAILED" => vstate[c] = "SCHEME"
      BY <1>1, <1>2, <1>6
    <3>. QED
      BY <1>4, <3>3, <3>4, <3>5, <3>6 DEF Sound, SameVersion, PastPassword, m
  <2>2. CASE o # "VncAuth"
    <3>1. Reply(c, <<Scheme(o)>>, "INITIALISATION")
      BY <1>6, <2>2, Zenon DEF Announce
    <3>2. /\ <<Scheme(o)>> \in Phrases /\ Len(<<Scheme(o)>>) = 1
          /\ Single(<<Scheme(o)>>, "scheme") /\ <<Scheme(o)>>[1].type = o
      BY Phrase1, TypeMade
    <3>3. /\ TypeOK' /\ Apart(c)
          /\ toViewer'[c] = <<Scheme(o)>> /\ state'[c] = "INITIALISATION"
          /\ toServer'[c] = Tail(toServer[c])
          /\ vstate' = vstate /\ minor' = minor /\ Own(c)' = Own(c)
      BY <1>5, <1>s, <3>1, <3>2, Zenon
    <3>4. vstate[c] # "FAILED" => Talk(c)'
      BY <1>1, <1>2, <1>6, <2>2, <3>2, <3>3 DEF Talk, m
    <3>5. vstate[c] = "FAILED" => Deserted(c)'
      BY <1>2, <3>2, <3>3 DEF Deserted
    <3>6. Own(c) => Cleared(c)'
      BY <1>1, <1>3, <1>6, <2>2 DEF Cleared
    <3>. QED
      BY <1>4, <3>3, <3>4, <3>5, <3>6 DEF Sound, SameVersion, m
  <2>. QED BY <2>1, <2>2
<1>7. ASSUME NEW ts \in Seq(SecurityTypes), ts # <<>>, Own(c) => ts = <<t>>, m >= 7,
             Reply(c, <<Types(ts)>>, "SECURITY_TYPE")
      PROVE  TypeOK' /\ Sound(c)' /\ Apart(c)
  <2>1. /\ <<Types(ts)>> \in Phrases /\ Len(<<Types(ts)>>) = 1
        /\ Single(<<Types(ts)>>, "types") /\ <<Types(ts)>>[1].types = ts
    BY Phrase1, TypesMade
  <2>2. /\ TypeOK' /\ Apart(c)
        /\ toViewer'[c] = <<Types(ts)>> /\ state'[c] = "SECURITY_TYPE"
        /\ toServer'[c] = Tail(toServer[c])
        /\ vstate' = vstate /\ minor' = minor /\ Own(c)' = Own(c)
    BY <1>5, <1>s, <1>7, <2>1, Zenon
  <2>3. t = PrimaryType(c)'
    BY <1>3 DEF PrimaryType, t
  <2>4. vstate[c] # "FAILED" => Talk(c)'
    BY <1>1, <1>2, <1>7, <2>1, <2>2, <2>3 DEF Talk, m
  <2>5. vstate[c] = "FAILED" => Deserted(c)'
    BY <1>2, <2>1, <2>2 DEF Deserted
  <2>6. vstate[c] # "FAILED" => vstate[c] = "TYPES"
    BY <1>1, <1>2, <1>7
  <2>. QED
    BY <1>4, <2>2, <2>4, <2>5, <2>6 DEF Sound, SameVersion, PastPassword, m
<1>8. ASSUME NEW x \in Message, Close(c, <<x, Reason>>),
             \/ m < 7 /\ x.is = "scheme" /\ x.type = "failed"
             \/ m >= 7 /\ x.is = "types" /\ x.types = <<>>
      PROVE  TypeOK' /\ Sound(c)' /\ Apart(c)
  <2>1. Reply(c, <<x, Reason, Eof>>, "CLOSED")
    BY <1>8, Closings, PlainMade
  <2>0. /\ Reason \in Message /\ Reason.is = "reason" /\ Eof \in Message /\ Eof.is = "eof"
    BY PlainMade
  <2>2. /\ <<x, Reason, Eof>> \in Phrases /\ Len(<<x, Reason, Eof>>) = 3
        /\ Triple(<<x, Reason, Eof>>, x.is, "reason", "eof") /\ <<x, Reason, Eof>>[1] = x
    <3>1. /\ <<x, Reason, Eof>> \in Phrases /\ Len(<<x, Reason, Eof>>) = 3
          /\ Triple(<<x, Reason, Eof>>, x.is, Reason.is, Eof.is) /\ <<x, Reason, Eof>>[1] = x
      BY <2>0, Phrase3, Zenon
    <3>. QED BY <2>0, <3>1
  <2>3. /\ TypeOK' /\ Apart(c)
        /\ toViewer'[c] = <<x, Reason, Eof>> /\ state'[c] = "CLOSED"
        /\ toServer'[c] = Tail(toServer[c])
        /\ vstate' = vstate /\ minor' = minor /\ Own(c)' = Own(c)
    BY <1>5, <1>s, <2>1, <2>2, Zenon
  <2>4. vstate[c] # "FAILED" => Bereft(c)'
    <3>1. ASSUME vstate[c] # "FAILED" PROVE Len(toServer'[c]) <= 1
      <4>1. toServer'[c] = <<>>
        BY <1>2, <2>3, <3>1
      <4>. QED BY <4>1, LenProperties, EmptySeq
    <3>2. Triple(toViewer'[c], x.is, "reason", "eof") /\ toViewer'[c][1] = x
      BY <2>2, <2>3
    <3>. QED BY <1>1, <1>2, <1>8, <2>3, <3>1, <3>2 DEF Bereft
  <2>5. vstate[c] \notin {"CHALLENGE", "PASSWORD", "RESULT", "REASON", "SERVERINIT", "READY"}
    BY <1>2
  <2>. QED
    BY <2>3, <2>4, <2>5 DEF Sound, SameVersion, PastPassword
<1>9. CASE Own(c) /\ ~Lists(m)
  BY <1>1, <1>3, <1>6, <1>9 DEF Lists
<1>10. CASE Own(c) /\ Lists(m)
  <2>1. Reply(c, <<Types(<<t>>)>>, "SECURITY_TYPE") /\ <<t>> \in Seq(SecurityTypes) /\ <<t>> # <<>>
    BY <1>1, <1>3, <1>10
  <2>. QED BY <1>7, <1>10, <2>1 DEF Lists
<1>11. CASE ~Own(c) /\ m < 7
  <2>1. \A i \in DOMAIN offers : offers[i] \in SecurityTypes \ {"failed"}
    BY <1>1, <1>11, Sides DEF offers
  <2>2. Scheme("failed") \in Message /\ Scheme("failed").is = "scheme"
        /\ Scheme("failed").type = "failed"
    <3>1. "failed" \in SecurityTypes
      BY SecurityTypesAssumption
    <3>. QED BY <3>1, TypeMade, Zenon
  <2>3. CASE Close(c, <<Scheme("failed"), Reason>>)
    BY <1>8, <1>11, <2>2, <2>3
  <2>4. CASE \E i \in DOMAIN offers : Announce(c, offers[i], <<Scheme(offers[i])>>)
    <3>1. PICK i \in DOMAIN offers : Announce(c, offers[i], <<Scheme(offers[i])>>)
      BY <2>4
    <3>2. offers[i] \in SecurityTypes \ {"failed"} /\ (Own(c) => offers[i] = t)
      BY <1>11, <2>1
    <3>. QED BY <1>6, <1>11, <3>1, <3>2, Zenon
  <2>5. m # 7 /\ ~(m >= 7)
    BY <1>1, <1>11
  <2>. QED BY <1>3, <1>11, <2>3, <2>4, <2>5, Zenon
<1>12. CASE ~Own(c) /\ m >= 7
  <2>1. offers \in Seq(SecurityTypes) /\ offers # <<>>
    BY <1>1, <1>12, Sides DEF offers
  <2>2. Types(<<>>) \in Message /\ Types(<<>>).is = "types" /\ Types(<<>>).types = <<>>
    <3>1. <<>> \in Seq(SecurityTypes)
      OBVIOUS
    <3>. QED BY <3>1, TypesMade
  <2>. QED BY <1>1, <1>3, <1>7, <1>8, <1>12, <2>1, <2>2
<1>. QED
  BY <1>3, <1>9, <1>10, <1>11, <1>12

\* A client is admitted: it is told so, and it or the others may be closed.
LEMMA EnterNormalSound ==
  ASSUME IInv, NEW c \in Conns, NEW shared \in BOOLEAN, EnterNormal(c, <<>>, shared),
         toViewer[c] = <<>>, toServer[c] # <<>>, minor[c] = protocolMinorVersion[c],
         vstate[c] # "FAILED" => vstate[c] = "SERVERINIT" /\ Tail(toServer[c]) = <<>>,
         vstate[c] = "FAILED" => Single(Tail(toServer[c]), "eof"),
         Own(c) /\ vstate[c] # "FAILED" => Cleared(c),
         UNCHANGED <<pair, config, changes, handler, protocolMinorVersion, reverseConnection,
                     viewOnly, viewerVars>>
  PROVE  IInv'
<1>1. PICK closed : /\ closed \subseteq Others(c) \cup {c}
                    /\ toServer' = [toServer EXCEPT ![c] = Tail(@)]
                    /\ state' = [o \in Conns |-> IF o \in closed THEN "CLOSED"
                                                 ELSE IF o = c THEN "NORMAL" ELSE state[o]]
                    /\ toViewer' = [o \in Conns |->
                         toViewer[o]
                         \o [d \in Conns |-> IF d = c THEN Append(<<>>, ServerInit) ELSE <<>>][o]
                         \o (IF o \in closed THEN <<Eof>> ELSE <<>>)]
  <2>. DEFINE exclusive == /\ Own(c) /\ ~reverseConnection[c]
                           /\ config.neverShared \/ (~config.alwaysShared /\ ~shared)
              closed == IF ~exclusive THEN {}
                        ELSE IF ~config.dontDisconnect THEN Others(c)
                        ELSE IF Others(c) # {} THEN {c} ELSE {}
  <2>1. closed \subseteq Others(c) \cup {c}
    OBVIOUS
  <2>2. /\ toServer' = [toServer EXCEPT ![c] = Tail(@)]
        /\ state' = [o \in Conns |-> IF o \in closed THEN "CLOSED"
                                     ELSE IF o = c THEN "NORMAL" ELSE state[o]]
        /\ toViewer' = [o \in Conns |->
             toViewer[o]
             \o [d \in Conns |-> IF d = c THEN Append(<<>>, ServerInit) ELSE <<>>][o]
             \o (IF o \in closed THEN <<Eof>> ELSE <<>>)]
    BY Zenon DEF EnterNormal
  <2>. HIDE DEF exclusive, closed
  <2>. QED BY <2>1, <2>2, Zenon
<1>2. TypeOK /\ \A d \in Conns : Sound(d)
  BY DEF IInv
<1>3. /\ ServerInit \in Message /\ ServerInit.is = "serverinit"
      /\ Eof \in Message /\ Eof.is = "eof"
  BY PlainMade
<1>4. /\ toServer \in [Conns -> Seq(Message)] /\ toViewer \in [Conns -> Seq(Message)]
      /\ state \in [Conns -> ServerStates]
      /\ \A d \in Conns : Len(toServer[d]) <= 3 /\ Len(toViewer[d]) <= 3
  BY <1>2 DEF TypeOK, ServerStates
<1>5. ASSUME NEW d \in Conns, d # c
      PROVE  /\ toServer'[d] = toServer[d]
             /\ state'[d] = IF d \in closed THEN "CLOSED" ELSE state[d]
             /\ toViewer'[d] = IF d \in closed THEN toViewer[d] \o <<Eof>> ELSE toViewer[d]
  <2>1. toServer'[d] = toServer[d] /\ state'[d] = IF d \in closed THEN "CLOSED" ELSE state[d]
    BY <1>1, <1>4, <1>5
  <2>2. toViewer'[d] = toViewer[d] \o <<>> \o (IF d \in closed THEN <<Eof>> ELSE <<>>)
    BY <1>1, <1>5, Zenon
  <2>3. /\ toViewer[d] \in Seq(Message) /\ toViewer[d] \o <<>> = toViewer[d]
    BY <1>4, ConcatEmptySeq
  <2>. QED BY <2>1, <2>2, <2>3, Zenon
<1>6. /\ toServer'[c] = Tail(toServer[c])
      /\ state'[c] = IF c \in closed THEN "CLOSED" ELSE "NORMAL"
      /\ toViewer'[c] = IF c \in closed THEN <<ServerInit, Eof>> ELSE <<ServerInit>>
  <2>1. toServer'[c] = Tail(toServer[c]) /\ state'[c] = IF c \in closed THEN "CLOSED" ELSE "NORMAL"
    BY <1>1, <1>4
  <2>2. toViewer'[c] = <<>> \o Append(<<>>, ServerInit) \o (IF c \in closed THEN <<Eof>> ELSE <<>>)
    BY <1>1, Zenon
  <2>3. <<>> \o Append(<<>>, ServerInit) = <<ServerInit>>
    <3>1. <<ServerInit>> \in Seq(Message) /\ Append(<<>>, ServerInit) = <<ServerInit>>
      BY <1>3, Phrase1 DEF Phrases
    <3>2. <<>> \o <<ServerInit>> = <<ServerInit>>
      BY <3>1, ConcatEmptySeq
    <3>. QED BY <3>1, <3>2, Zenon
  <2>4. <<ServerInit>> \o <<Eof>> = <<ServerInit, Eof>>
    <3>1. /\ <<ServerInit>> \in Seq(Message) /\ <<Eof>> \in Seq(Message)
          /\ <<ServerInit, Eof>> \in Seq(Message) /\ <<ServerInit>> \o <<Eof>> \in Seq(Message)
          /\ Len(<<ServerInit>> \o <<Eof>>) = 2 /\ Len(<<ServerInit, Eof>>) = 2
      BY <1>3
    <3>2. /\ (<<ServerInit>> \o <<Eof>>)[1] = ServerInit
          /\ (<<ServerInit>> \o <<Eof>>)[2] = Eof
      BY <3>1
    <3>3. \A i \in 1..2 : (<<ServerInit>> \o <<Eof>>)[i] = <<ServerInit, Eof>>[i]
      BY <3>2
    <3>. QED BY <3>1, <3>3, SameMessages
  <2>5. <<ServerInit>> \o <<>> = <<ServerInit>>
    OBVIOUS
  <2>. QED BY <2>1, <2>2, <2>3, <2>4, <2>5, Zenon
<1>7. /\ Single(<<ServerInit>>, "serverinit") /\ Len(<<ServerInit>>) = 1
      /\ Couple(<<ServerInit, Eof>>, "serverinit", "eof") /\ Len(<<ServerInit, Eof>>) = 2
      /\ <<ServerInit>> \in Seq(Message) /\ <<ServerInit, Eof>> \in Seq(Message)
  BY <1>3, Phrase1, Phrase2 DEF Phrases
<1>8. /\ Tail(toServer[c]) \in Seq(Message) /\ Len(Tail(toServer[c])) <= 2
  BY <1>4, Taken
<1>9. ASSUME NEW d \in Conns, d # c, d \in closed
      PROVE  /\ Len(toViewer'[d]) <= 3 /\ toViewer'[d] \in Seq(Message)
             /\ Sound(d)'
  <2>1. d \in Others(c) /\ state[d] = "NORMAL"
    BY <1>1, <1>9 DEF Others
  <2>2. /\ toServer'[d] = toServer[d] /\ state'[d] = "CLOSED"
        /\ toViewer'[d] = toViewer[d] \o <<Eof>> /\ toViewer[d] \in Seq(Message)
    BY <1>4, <1>5, <1>9
  <2>3. /\ toViewer'[d] \in Seq(Message) /\ Len(toViewer'[d]) = Len(toViewer[d]) + 1
        /\ toViewer[d] = <<>> => Single(toViewer'[d], "eof")
        /\ Single(toViewer[d], "serverinit") => Couple(toViewer'[d], "serverinit", "eof")
    BY <1>3, <2>2, Added
  <2>4. vstate' = vstate /\ minor' = minor
    BY DEF viewerVars
  <2>5. CASE vstate[d] = "FAILED"
    <3>1. Deserted(d)
      BY <1>2, <2>1, <2>5 DEF Sound
    <3>2. Len(toViewer[d]) <= 2 /\ Len(toViewer[d]) \in Nat
      BY <2>1, <2>2, <3>1 DEF Deserted
    <3>. QED BY <2>2, <2>3, <2>4, <2>5, <3>2 DEF Sound, SameVersion, PastPassword
  <2>6. CASE vstate[d] # "FAILED"
    <3>1. Talk(d)
      BY <1>2, <2>1, <2>6 DEF Sound
    <3>2. /\ toServer[d] = <<>>
          /\ \/ vstate[d] = "SERVERINIT" /\ Single(toViewer[d], "serverinit")
             \/ vstate[d] = "READY" /\ toViewer[d] = <<>>
      BY <2>1, <3>1 DEF Talk
    <3>3. Bereft(d)'
      BY <2>2, <2>3, <2>4, <3>2 DEF Bereft
    <3>5. SameVersion(d)' /\ (Own(d)' /\ PastPassword(d)' => Cleared(d)')
      <4>1. minor[d] = protocolMinorVersion[d]
        BY <1>2, <2>1 DEF Sound, SameVersion
      <4>2. Own(d) => Cleared(d)
        BY <1>2, <2>1, <2>6 DEF Sound, PastPassword
      <4>. QED BY <4>1, <4>2 DEF SameVersion, Cleared, Own, viewerVars
    <3>4. Len(toViewer'[d]) <= 3
      BY <2>3, <3>2 DEF Single, Couple
    <3>. QED BY <2>2, <2>3, <2>4, <2>6, <3>3, <3>4, <3>5 DEF Sound
  <2>. QED BY <2>5, <2>6
<1>10. ASSUME NEW d \in Conns, d # c, d \notin closed
       PROVE  Sound(d)'
  BY <1>2, <1>5, <1>10, Untouched DEF viewerVars
<1>11. Sound(c)'
  <2>1. vstate' = vstate /\ minor' = minor /\ Own(c)' = Own(c)
        /\ (Own(c) /\ vstate[c] # "FAILED" => Cleared(c)')
    BY DEF viewerVars, Own, Cleared
  <2>2. CASE c \in closed
    <3>1. vstate[c] # "FAILED" => Bereft(c)'
      <4>1. ASSUME vstate[c] # "FAILED" PROVE Len(toServer'[c]) <= 1
        <5>1. toServer'[c] = <<>>
          BY <1>6, <4>1
        <5>. QED BY <5>1
      <4>. QED BY <1>6, <1>7, <2>1, <2>2, <4>1 DEF Bereft
    <3>. QED BY <1>6, <2>1, <2>2, <3>1 DEF Sound, SameVersion, PastPassword
  <2>3. CASE c \notin closed
    <3>1. vstate[c] # "FAILED" => Talk(c)'
      BY <1>6, <1>7, <2>1, <2>3 DEF Talk
    <3>2. vstate[c] = "FAILED" => Deserted(c)'
      BY <1>6, <1>7, <2>1, <2>3 DEF Deserted
    <3>. QED BY <1>6, <2>1, <2>3, <3>1, <3>2 DEF Sound, SameVersion, PastPassword
  <2>. QED BY <2>2, <2>3
<1>12. TypeOK'
  <2>1. \A d \in Conns : /\ Len(toServer'[d]) <= 3 /\ Len(toViewer'[d]) <= 3
                         /\ toServer'[d] \in Seq(Message) /\ toViewer'[d] \in Seq(Message)
                         /\ state'[d] \in ServerStates
    <3>1. ASSUME NEW d \in Conns, d # c
          PROVE  /\ Len(toServer'[d]) <= 3 /\ Len(toViewer'[d]) <= 3
                 /\ toServer'[d] \in Seq(Message) /\ toViewer'[d] \in Seq(Message)
                 /\ state'[d] \in ServerStates
      BY <1>4, <1>5, <1>9, <3>1, StateSets
    <3>2. /\ Len(toServer'[c]) <= 3 /\ Len(toViewer'[c]) <= 3
          /\ toServer'[c] \in Seq(Message) /\ toViewer'[c] \in Seq(Message)
          /\ state'[c] \in ServerStates
      BY <1>6, <1>7, <1>8, StateSets
    <3>. QED BY <3>1, <3>2
  <2>2. /\ toServer' \in [Conns -> Seq(Message)] /\ toViewer' \in [Conns -> Seq(Message)]
        /\ state' \in [Conns -> ServerStates]
    BY <1>1, <1>4, <2>1
  <2>. QED BY <1>2, <2>1, <2>2 DEF TypeOK, ServerStates, viewerVars
<1>. QED
  <2>1. \A d \in Conns : Sound(d)'
    BY <1>9, <1>10, <1>11
  <2>. QED BY <1>12, <2>1 DEF IInv

LEMMA InitMessageSound ==
  ASSUME IInv, NEW c \in Conns, InitMessage(c)
  PROVE  IInv'
<1>1. TypeOK /\ Sound(c) /\ Reads(c, "INITIALISATION", "clientinit")
  BY DEF IInv, InitMessage
<1>2. /\ state[c] = "INITIALISATION" /\ toServer[c] # <<>>
      /\ Head(toServer[c]).shared \in BOOLEAN
  BY <1>1, Heard, MessageRead
<1>3. /\ toViewer[c] = <<>>
      /\ vstate[c] # "FAILED" => vstate[c] = "SERVERINIT" /\ Tail(toServer[c]) = <<>>
      /\ vstate[c] = "FAILED" => Single(Tail(toServer[c]), "eof")
  BY <1>1, HeardInit
<1>4. minor[c] = protocolMinorVersion[c]
  BY <1>1, <1>2 DEF Sound, SameVersion
<1>5. Own(c) /\ vstate[c] # "FAILED" => Cleared(c)
  BY <1>1, <1>2 DEF Sound, PastPassword
<1>6. EnterNormal(c, <<>>, Head(toServer[c]).shared)
      /\ UNCHANGED <<pair, config, changes, handler, protocolMinorVersion, reverseConnection,
                     viewOnly, viewerVars>>
  BY DEF InitMessage
<1>. QED
  BY <1>2, <1>3, <1>4, <1>5, <1>6, EnterNormalSound

LEMMA SecurityTypeSound ==
  ASSUME IInv, NEW c \in Conns, SecurityType(c)
  PROVE  IInv' \/ (TypeOK' /\ Sound(c)' /\ Apart(c))
<1>. DEFINE m == minor[c]
            t == Head(toServer[c]).type
<1>1. TypeOK /\ Sound(c) /\ Reads(c, "SECURITY_TYPE", "choice") /\ m \in Nat
  BY DEF IInv, SecurityType, TypeOK
<1>2. /\ state[c] = "SECURITY_TYPE" /\ toServer[c] # <<>> /\ t = toServer[c][1].type
      /\ Tail(toServer[c]) \in Seq(Message)
  BY <1>1, Heard, Taken
<1>3. /\ toViewer[c] = <<>> /\ m = protocolMinorVersion[c]
      /\ vstate[c] # "FAILED" =>
           \/ t = "VncAuth" /\ vstate[c] = "CHALLENGE" /\ Tail(toServer[c]) = <<>>
           \/ /\ t = "None" /\ (Own(c) => reverseConnection[c])
              /\ \/ /\ vstate[c] = "RESULT" /\ m > 7 /\ m # 889 /\ Tail(toServer[c]) = <<>>
                 \/ vstate[c] = "SERVERINIT" /\ m = 889 /\ Tail(toServer[c]) = <<>>
                 \/ /\ vstate[c] = "SERVERINIT" /\ m <= 7
                    /\ Single(Tail(toServer[c]), "clientinit")
      /\ vstate[c] = "FAILED" =>
           \/ Single(Tail(toServer[c]), "eof")
           \/ t = "None" /\ m <= 7 /\ Couple(Tail(toServer[c]), "clientinit", "eof")
  BY <1>1, <1>2, HeardChoice
<1>4. /\ UNCHANGED <<pair, config, changes, handler, protocolMinorVersion, reverseConnection,
                     viewOnly, viewerVars>>
      /\ \/ Close(c, <<>>)
         \/ t = "VncAuth" /\ Announce(c, t, <<>>)
         \/ /\ t = "None" /\ m # 889
            /\ Announce(c, t, IF SaysNone(m) THEN <<Result(TRUE)>> ELSE <<>>)
         \/ t = "None" /\ m = 889 /\ EnterNormal(c, <<>>, TRUE)
  <2>. DEFINE n == protocolMinorVersion[c]
  <2>1. /\ UNCHANGED <<pair, config, changes, handler, protocolMinorVersion, reverseConnection,
                       viewOnly, viewerVars>>
        /\ \/ Close(c, <<>>)
           \/ t = "VncAuth" /\ Announce(c, t, <<>>)
           \/ /\ t = "None" /\ n # 889
              /\ Announce(c, t, IF SaysNone(n) THEN <<Result(TRUE)>> ELSE <<>>)
           \/ t = "None" /\ n = 889 /\ EnterNormal(c, <<>>, TRUE)
    BY Zenon DEF SecurityType
  <2>2. n = m
    BY <1>3
  <2>. HIDE DEF n, m
  <2>. QED BY <2>1, <2>2, Zenon
<1>. HIDE DEF m, t
<1>5. ASSUME NEW ms \in Phrases, NEW s \in ServerStates, Reply(c, ms, s)
      PROVE  /\ TypeOK' /\ Apart(c)
             /\ toViewer'[c] = ms /\ state'[c] = s /\ toServer'[c] = Tail(toServer[c])
             /\ vstate' = vstate /\ minor' = minor /\ typed' = typed /\ Own(c)' = Own(c)
  <2>1. /\ UNCHANGED <<pair, config, changes, reverseConnection, viewerVars>>
        /\ handler' \in {"None", "VncAuth", NoHandler}
        /\ protocolMinorVersion' \in [Conns -> Nat] /\ viewOnly' \in [Conns -> BOOLEAN]
        /\ \A d \in Conns \ {c} : /\ protocolMinorVersion'[d] = protocolMinorVersion[d]
                                  /\ viewOnly'[d] = viewOnly[d]
    BY <1>1, <1>4 DEF TypeOK
  <2>. QED BY <1>1, <1>2, <1>3, <1>5, <2>1, ReplyStep
<1>s. {"SECURITY_TYPE", "AUTHENTICATION", "INITIALISATION", "CLOSED"} \subseteq ServerStates
  BY StateSets
<1>m. /\ Challenge \in Message /\ Challenge.is = "challenge"
      /\ Eof \in Message /\ Eof.is = "eof"
  BY PlainMade
<1>6. SameVersion(c)'
  BY <1>3, <1>4 DEF SameVersion, m, viewerVars
<1>7. CASE Close(c, <<>>)
  <2>1. Reply(c, <<Eof>>, "CLOSED")
    BY <1>m, <1>7, Closings
  <2>2. <<Eof>> \in Phrases /\ Single(<<Eof>>, "eof")
    BY <1>m, Phrase1
  <2>3. /\ TypeOK' /\ Apart(c)
        /\ toViewer'[c] = <<Eof>> /\ state'[c] = "CLOSED" /\ toServer'[c] = Tail(toServer[c])
        /\ vstate' = vstate /\ minor' = minor /\ Own(c)' = Own(c)
    BY <1>5, <1>s, <2>1, <2>2, Zenon
  <2>4. vstate[c] # "FAILED" => Bereft(c)'
    <3>1. ASSUME vstate[c] # "FAILED" PROVE Len(toServer'[c]) <= 1
      <4>1. toServer'[c] = <<>> \/ Single(toServer'[c], "clientinit")
        BY <1>3, <2>3, <3>1
      <4>2. ASSUME toServer'[c] = <<>> PROVE Len(toServer'[c]) <= 1
        BY <4>2
      <4>3. ASSUME Single(toServer'[c], "clientinit") PROVE Len(toServer'[c]) <= 1
        BY <4>3 DEF Single
      <4>. QED BY <4>1, <4>2, <4>3
    <3>. QED BY <1>3, <2>2, <2>3, <3>1 DEF Bereft
  <2>5. Own(c) /\ PastPassword(c)' => Cleared(c)'
    BY <1>3, <1>4, <2>3 DEF PastPassword, Cleared
  <2>. QED BY <1>6, <2>3, <2>4, <2>5 DEF Sound
<1>8. CASE t = "VncAuth" /\ Announce(c, t, <<>>)
  <2>1. Reply(c, <<Challenge>>, "AUTHENTICATION")
    <3>1. Append(<<>>, Challenge) = <<Challenge>>
      BY <1>m, Phrase1
    <3>. QED BY <1>8, <3>1, Zenon DEF Announce
  <2>2. <<Challenge>> \in Phrases /\ Single(<<Challenge>>, "challenge") /\ Len(<<Challenge>>) = 1
    BY <1>m, Phrase1
  <2>3. /\ TypeOK' /\ Apart(c)
        /\ toViewer'[c] = <<Challenge>> /\ state'[c] = "AUTHENTICATION"
        /\ toServer'[c] = Tail(toServer[c])
        /\ vstate' = vstate /\ minor' = minor /\ Own(c)' = Own(c)
    BY <1>5, <1>s, <2>1, <2>2, Zenon
  <2>4. vstate[c] # "FAILED" => Talk(c)' /\ vstate[c] = "CHALLENGE"
    BY <1>3, <1>8, <2>2, <2>3 DEF Talk
  <2>5. vstate[c] = "FAILED" => Deserted(c)'
    BY <1>3, <1>8, <2>2, <2>3 DEF Deserted
  <2>. QED BY <1>6, <2>3, <2>4, <2>5 DEF Sound, PastPassword
<1>9. CASE t = "None" /\ m # 889 /\ Announce(c, t, IF SaysNone(m) THEN <<Result(TRUE)>> ELSE <<>>)
  <2>. DEFINE ms == IF SaysNone(m) THEN <<Result(TRUE)>> ELSE <<>>
  <2>1. Reply(c, ms, "INITIALISATION")
    BY <1>9, Zenon DEF Announce
  <2>2. /\ <<Result(TRUE)>> \in Phrases /\ Single(<<Result(TRUE)>>, "result")
        /\ <<Result(TRUE)>>[1].ok /\ Len(<<Result(TRUE)>>) = 1
    <3>1. Result(TRUE) \in Message /\ Result(TRUE).is = "result" /\ Result(TRUE).ok = TRUE
      <4>1. PICK b \in BOOLEAN : b = TRUE
        OBVIOUS
      <4>. QED BY <4>1, ResultMade, Zenon
    <3>2. /\ <<Result(TRUE)>> \in Phrases /\ Len(<<Result(TRUE)>>) = 1
          /\ Single(<<Result(TRUE)>>, Result(TRUE).is) /\ <<Result(TRUE)>>[1] = Result(TRUE)
      BY <3>1, Phrase1, Zenon
    <3>. QED BY <3>1, <3>2
  <2>3. ms \in Phrases /\ Len(ms) <= 1
    <3>1. <<>> \in Phrases /\ Len(<<>>) = 0
      BY DEF Phrases
    <3>. QED BY <2>2, <3>1
  <2>. HIDE DEF ms
  <2>4. /\ TypeOK' /\ Apart(c)
        /\ toViewer'[c] = ms /\ state'[c] = "INITIALISATION" /\ toServer'[c] = Tail(toServer[c])
        /\ vstate' = vstate /\ minor' = minor /\ Own(c)' = Own(c)
    BY <1>5, <1>s, <2>1, <2>3, Zenon
  <2>5. ASSUME vstate[c] # "FAILED" PROVE Talk(c)' /\ (Own(c) => reverseConnection[c])
    <3>1. (Own(c) => reverseConnection[c])
          /\ (\/ vstate[c] = "RESULT" /\ SaysNone(m) /\ Tail(toServer[c]) = <<>>
              \/ /\ vstate[c] = "SERVERINIT" /\ ~SaysNone(m)
                 /\ Single(Tail(toServer[c]), "clientinit"))
      BY <1>1, <1>3, <1>9, <2>5 DEF SaysNone
    <3>. QED BY <2>2, <2>4, <3>1 DEF Talk, ms
  <2>6. ASSUME vstate[c] = "FAILED" PROVE Deserted(c)'
    <3>1. \/ Single(Tail(toServer[c]), "eof")
          \/ ~SaysNone(m) /\ Couple(Tail(toServer[c]), "clientinit", "eof")
      BY <1>1, <1>3, <2>6 DEF SaysNone
    <3>2. CASE Single(Tail(toServer[c]), "eof")
      BY <2>3, <2>4, <3>2 DEF Deserted
    <3>3. CASE ~SaysNone(m) /\ Couple(Tail(toServer[c]), "clientinit", "eof")
      <4>1. Len(toViewer'[c]) = 0
        BY <2>4, <3>3 DEF ms
      <4>. QED BY <2>4, <3>3, <4>1 DEF Deserted
    <3>. QED BY <3>1, <3>2, <3>3
  <2>7. Own(c) /\ PastPassword(c)' => Cleared(c)'
    BY <1>4, <2>4, <2>5 DEF PastPassword, Cleared
  <2>. QED BY <1>6, <2>4, <2>5, <2>6, <2>7 DEF Sound
<1>10. CASE t = "None" /\ m = 889 /\ EnterNormal(c, <<>>, TRUE)
  <2>1. /\ vstate[c] # "FAILED" => vstate[c] = "SERVERINIT" /\ Tail(toServer[c]) = <<>>
        /\ vstate[c] = "FAILED" => Single(Tail(toServer[c]), "eof")
        /\ minor[c] = protocolMinorVersion[c]
        /\ Own(c) /\ vstate[c] # "FAILED" => Cleared(c)
    BY <1>3, <1>10 DEF m, Cleared
  <2>2. PICK b \in BOOLEAN : EnterNormal(c, <<>>, b)
    BY <1>10, Zenon
  <2>. QED BY <1>2, <1>3, <1>4, <2>1, <2>2, EnterNormalSound
<1>. QED
  BY <1>4, <1>7, <1>8, <1>9, <1>10

\* The password of the list that fits first is the primary one, or the client
\* may only watch.
LEMMA Judged ==
  ASSUME NEW p, Fits(p) # {}, ~Watches(p)
  PROVE  config.primary = p
<1>1. PICK i \in Fits(p) : i - 1 < FirstViewOnly
  <2>1. \A i \in Fits(p) : i \in Int
    BY DEF Fits, Passwords
  <2>2. FirstViewOnly \in Int
    BY DEF FirstViewOnly
  <2>. QED BY <2>1, <2>2 DEF Watches
<1>2. i \in DOMAIN Passwords /\ i \in Int /\ i >= 1 /\ Passwords[i] = p
  BY DEF Fits, Passwords
<1>3. config.primary # NoPassword /\ i = 1
  BY <1>1, <1>2 DEF FirstViewOnly
<1>4. Passwords[1] = config.primary
  BY <1>3 DEF Passwords
<1>. QED
  BY <1>2, <1>3, <1>4

LEMMA AuthenticationSound ==
  ASSUME IInv, NEW c \in Conns, Authentication(c)
  PROVE  TypeOK' /\ Sound(c)' /\ Apart(c)
<1>. DEFINE m == minor[c]
            p == Head(toServer[c]).password
<1>1. TypeOK /\ Sound(c) /\ Reads(c, "AUTHENTICATION", "response") /\ m \in Nat
  BY DEF IInv, Authentication, TypeOK
<1>2. /\ state[c] = "AUTHENTICATION" /\ toServer[c] # <<>> /\ p = toServer[c][1].password
  BY <1>1, Heard
<1>3. /\ toViewer[c] = <<>> /\ m = protocolMinorVersion[c]
      /\ vstate[c] # "FAILED" => /\ vstate[c] = "RESULT" /\ Tail(toServer[c]) = <<>>
                                 /\ p = typed[c]
      /\ vstate[c] = "FAILED" => Single(Tail(toServer[c]), "eof")
  BY <1>1, <1>2, HeardResponse
<1>4. /\ UNCHANGED <<pair, config, changes, handler, protocolMinorVersion, reverseConnection,
                     viewerVars>>
      /\ \/ /\ Own(c) => Fits(p) # {}
            /\ viewOnly' = [viewOnly EXCEPT ![c] = @ \/ (Own(c) /\ Watches(p))]
            /\ Reply(c, <<Result(TRUE)>>, "INITIALISATION")
         \/ /\ Close(c, IF Tells(protocolMinorVersion[c]) THEN <<Result(FALSE), Reason>>
                        ELSE <<Result(FALSE)>>)
            /\ UNCHANGED viewOnly
  BY Zenon DEF Authentication
<1>. HIDE DEF m, p
<1>5. ASSUME NEW ms \in Phrases, NEW s \in ServerStates, Reply(c, ms, s),
             viewOnly' \in [Conns -> BOOLEAN], \A d \in Conns \ {c} : viewOnly'[d] = viewOnly[d]
      PROVE  /\ TypeOK' /\ Apart(c)
             /\ toViewer'[c] = ms /\ state'[c] = s /\ toServer'[c] = Tail(toServer[c])
             /\ vstate' = vstate /\ minor' = minor /\ typed' = typed /\ Own(c)' = Own(c)
  <2>1. /\ UNCHANGED <<pair, config, changes, reverseConnection, viewerVars>>
        /\ handler' \in {"None", "VncAuth", NoHandler}
        /\ protocolMinorVersion' \in [Conns -> Nat]
        /\ \A d \in Conns \ {c} : protocolMinorVersion'[d] = protocolMinorVersion[d]
    BY <1>1, <1>4 DEF TypeOK
  <2>. QED BY <1>1, <1>2, <1>3, <1>5, <2>1, ReplyStep
<1>s. {"SECURITY_TYPE", "AUTHENTICATION", "INITIALISATION", "CLOSED"} \subseteq ServerStates
  BY StateSets
<1>m. /\ Reason \in Message /\ Reason.is = "reason"
      /\ Eof \in Message /\ Eof.is = "eof"
  BY PlainMade
<1>r. \A b \in BOOLEAN : Result(b) \in Message /\ Result(b).is = "result" /\ Result(b).ok = b
  BY ResultMade
<1>6. SameVersion(c)'
  BY <1>3, <1>4 DEF SameVersion, m, viewerVars
<1>7. CASE /\ Own(c) => Fits(p) # {}
           /\ viewOnly' = [viewOnly EXCEPT ![c] = @ \/ (Own(c) /\ Watches(p))]
           /\ Reply(c, <<Result(TRUE)>>, "INITIALISATION")
  <2>1. Result(TRUE) \in Message /\ Result(TRUE).is = "result" /\ Result(TRUE).ok = TRUE
    <3>1. PICK b \in BOOLEAN : b = TRUE
      OBVIOUS
    <3>. QED BY <1>r, <3>1, Zenon
  <2>2. /\ <<Result(TRUE)>> \in Phrases /\ Single(<<Result(TRUE)>>, "result")
        /\ <<Result(TRUE)>>[1].ok /\ Len(<<Result(TRUE)>>) = 1
    <3>1. /\ <<Result(TRUE)>> \in Phrases /\ Len(<<Result(TRUE)>>) = 1
          /\ Single(<<Result(TRUE)>>, Result(TRUE).is) /\ <<Result(TRUE)>>[1] = Result(TRUE)
      BY <2>1, Phrase1, Zenon
    <3>. QED BY <2>1, <3>1
  <2>3. /\ viewOnly' \in [Conns -> BOOLEAN] /\ \A d \in Conns \ {c} : viewOnly'[d] = viewOnly[d]
        /\ Own(c) /\ Watches(p) => viewOnly'[c]
    <3>1. viewOnly \in [Conns -> BOOLEAN]
      BY <1>1 DEF TypeOK
    <3>2. (viewOnly[c] \/ (Own(c) /\ Watches(p))) \in BOOLEAN
      OBVIOUS
    <3>. QED BY <1>7, <3>1, <3>2
  <2>4. /\ TypeOK' /\ Apart(c)
        /\ toViewer'[c] = <<Result(TRUE)>> /\ state'[c] = "INITIALISATION"
        /\ toServer'[c] = Tail(toServer[c])
        /\ vstate' = vstate /\ minor' = minor /\ typed' = typed /\ Own(c)' = Own(c)
    BY <1>5, <1>s, <1>7, <2>2, <2>3, Zenon
  <2>5. vstate[c] # "FAILED" => Talk(c)'
    BY <1>3, <2>2, <2>4 DEF Talk
  <2>6. vstate[c] = "FAILED" => Deserted(c)'
    BY <1>3, <2>2, <2>4 DEF Deserted
  <2>7. ASSUME Own(c), vstate[c] # "FAILED" PROVE Cleared(c)'
    <3>1. CASE Watches(p)
      BY <2>3, <2>7, <3>1 DEF Cleared
    <3>2. CASE ~Watches(p)
      <4>1. config.primary = typed'[c]
        BY <1>3, <1>7, <2>4, <2>7, <3>2, Judged
      <4>2. config \in Configs
        BY <1>1 DEF TypeOK
      <4>. QED BY <4>1, <4>2 DEF Cleared
    <3>. QED BY <3>1, <3>2
  <2>. QED BY <1>6, <2>4, <2>5, <2>6, <2>7 DEF Sound, PastPassword
<1>8. ASSUME UNCHANGED viewOnly, NEW ms \in Phrases, Reply(c, ms, "CLOSED"),
             \/ m <= 7 /\ Couple(ms, "result", "eof") /\ ~ms[1].ok
             \/ m > 7 /\ Triple(ms, "result", "reason", "eof") /\ ~ms[1].ok
      PROVE  TypeOK' /\ Sound(c)' /\ Apart(c)
  <2>1. viewOnly' \in [Conns -> BOOLEAN] /\ \A d \in Conns \ {c} : viewOnly'[d] = viewOnly[d]
    BY <1>1, <1>8 DEF TypeOK
  <2>2. /\ TypeOK' /\ Apart(c)
        /\ toViewer'[c] = ms /\ state'[c] = "CLOSED"
        /\ toServer'[c] = Tail(toServer[c])
        /\ vstate' = vstate /\ minor' = minor /\ typed' = typed /\ Own(c)' = Own(c)
    BY <1>5, <1>s, <1>8, <2>1, Zenon
  <2>3. ASSUME vstate[c] # "FAILED" PROVE Bereft(c)'
    <3>1. toServer'[c] = <<>>
      BY <1>3, <2>2, <2>3
    <3>2. Len(toServer'[c]) <= 1
      BY <3>1
    <3>. QED BY <1>3, <1>8, <2>2, <2>3, <3>2 DEF Bereft, m
  <2>. QED BY <1>3, <1>6, <2>2, <2>3 DEF Sound, PastPassword
<1>f. Result(FALSE) \in Message /\ Result(FALSE).is = "result" /\ ~Result(FALSE).ok
  <2>1. PICK b \in BOOLEAN : b = FALSE
    OBVIOUS
  <2>2. Result(FALSE) \in Message /\ Result(FALSE).is = "result" /\ Result(FALSE).ok = FALSE
    BY <1>r, <2>1, Zenon
  <2>. QED BY <2>2
<1>9. CASE /\ Close(c, IF Tells(m) THEN <<Result(FALSE), Reason>> ELSE <<Result(FALSE)>>)
           /\ UNCHANGED viewOnly
  <2>1. CASE Tells(m)
    <3>1. Reply(c, <<Result(FALSE), Reason, Eof>>, "CLOSED")
      <4>1. Close(c, <<Result(FALSE), Reason>>)
        BY <1>9, <2>1, Zenon
      <4>. QED BY <1>f, <1>m, <4>1, Closings, Zenon
    <3>2. /\ <<Result(FALSE), Reason, Eof>> \in Phrases
          /\ Triple(<<Result(FALSE), Reason, Eof>>, Result(FALSE).is, Reason.is, Eof.is)
          /\ <<Result(FALSE), Reason, Eof>>[1] = Result(FALSE)
      BY <1>f, <1>m, Phrase3, Zenon
    <3>3. Triple(<<Result(FALSE), Reason, Eof>>, "result", "reason", "eof")
      BY <1>f, <1>m, <3>2, Zenon
    <3>4. ~(<<Result(FALSE), Reason, Eof>>[1].ok)
      BY <1>f, <3>2, Zenon
    <3>5. m > 7
      BY <2>1 DEF Tells
    <3>. QED BY <1>8, <1>9, <3>1, <3>2, <3>3, <3>4, <3>5, Zenon
  <2>2. CASE ~Tells(m)
    <3>1. Reply(c, <<Result(FALSE), Eof>>, "CLOSED")
      <4>1. Close(c, <<Result(FALSE)>>)
        BY <1>9, <2>2, Zenon
      <4>. QED BY <1>f, <1>m, <4>1, Closings, Zenon
    <3>2. /\ <<Result(FALSE), Eof>> \in Phrases
          /\ Couple(<<Result(FALSE), Eof>>, Result(FALSE).is, Eof.is)
          /\ <<Result(FALSE), Eof>>[1] = Result(FALSE)
      BY <1>f, <1>m, Phrase2, Zenon
    <3>3. Couple(<<Result(FALSE), Eof>>, "result", "eof")
      BY <1>f, <1>m, <3>2, Zenon
    <3>4. ~(<<Result(FALSE), Eof>>[1].ok)
      BY <1>f, <3>2, Zenon
    <3>5. m <= 7
      BY <1>1, <2>2 DEF Tells
    <3>. QED BY <1>8, <1>9, <3>1, <3>2, <3>3, <3>4, <3>5, Zenon
  <2>. QED BY <2>1, <2>2
<1>10. protocolMinorVersion[c] = m
  BY <1>3
<1>. QED
  BY <1>4, <1>7, <1>9, <1>10, Zenon

LEMMA ReadEofSound ==
  ASSUME IInv, NEW c \in Conns, ReadEof(c)
  PROVE  TypeOK' /\ Sound(c)' /\ Apart(c)
<1>1. PICK s \in ServerStates \ {"NONE", "CLOSED"} : Reads(c, s, "eof")
  BY StateSets DEF ReadEof
<1>2. TypeOK /\ Sound(c)
  BY DEF IInv
<1>3. vstate[c] = "FAILED" /\ Len(toViewer[c]) <= 2 /\ Len(toViewer[c]) \in Nat
  BY <1>1, <1>2, HeardEof DEF TypeOK
<1>4. /\ Close(c, <<>>)
      /\ UNCHANGED <<pair, config, changes, handler, protocolMinorVersion, reverseConnection,
                     viewOnly, viewerVars>>
  BY DEF ReadEof
<1>5. Reply(c, <<Eof>>, "CLOSED") /\ <<Eof>> \in Seq(Message) /\ Len(<<Eof>>) = 1
      /\ "CLOSED" \in ServerStates
  BY <1>4, PlainMade, Closings, Phrase1, StateSets DEF Phrases
<1>6. TypeOK'
  <2>1. Len(toViewer[c]) + Len(<<Eof>>) <= 3
    BY <1>3, <1>5
  <2>2. /\ UNCHANGED <<pair, config, changes, viewerVars>>
        /\ handler' \in {"None", "VncAuth", NoHandler}
        /\ protocolMinorVersion' \in [Conns -> Nat]
        /\ reverseConnection' \in [Conns -> BOOLEAN] /\ viewOnly' \in [Conns -> BOOLEAN]
    BY <1>2, <1>4 DEF TypeOK
  <2>. QED BY <1>2, <1>5, <2>1, <2>2, ReplyTyped
<1>7. Apart(c) /\ state'[c] = "CLOSED" /\ vstate'[c] = "FAILED"
  BY <1>2, <1>3, <1>4, <1>5, ReplyEffect DEF Apart, viewerVars
<1>. QED
  BY <1>6, <1>7 DEF Sound, SameVersion, PastPassword

LEMMA ReconfigureSound ==
  ASSUME IInv, Reconfigure
  PROVE  IInv'
<1>1. TypeOK'
  BY MaxConfigsAssumption DEF IInv, TypeOK, Reconfigure, serverVars, viewerVars
<1>2. ASSUME NEW d \in Conns PROVE Sound(d)'
  BY Untouched DEF IInv, Reconfigure, serverVars, viewerVars
<1>. QED
  BY <1>1, <1>2 DEF IInv

-----------------------------------------------------------------------------
(* The viewer.                                                             *)

LEMMA OneOrTwo ==
  ASSUME NEW n, n = 1 \/ n = 2
  PROVE  n \in Nat /\ n <= 2
  OBVIOUS

\* What is under way is at most two messages to the server while the viewer is
\* there, and nothing when it has something to read.
LEMMA Quiet ==
  ASSUME IInv, NEW c \in Conns, vstate[c] # "FAILED"
  PROVE  /\ Len(toServer[c]) <= 2
         /\ state[c] # "CLOSED" /\ toViewer[c] # <<>> => toServer[c] = <<>>
         /\ state[c] = "NONE" => toViewer[c] = <<>>
<1>1. TypeOK /\ Sound(c)
  BY DEF IInv
<1>2. CASE state[c] = "CLOSED"
  BY <1>1, <1>2 DEF Sound, Bereft, TypeOK
<1>3. CASE state[c] # "CLOSED"
  <2>1. Talk(c)
    BY <1>1, <1>3 DEF Sound
  <2>2. \/ toServer[c] = <<>>
        \/ toViewer[c] = <<>> /\ (Len(toServer[c]) = 1 \/ Len(toServer[c]) = 2)
    BY <2>1 DEF Talk, Single, Couple
  <2>3. state[c] = "NONE" => toViewer[c] = <<>>
    BY <2>1 DEF Talk
  <2>4. CASE toServer[c] = <<>>
    <3>1. Len(toServer[c]) <= 2
      BY <2>4
    <3>. QED BY <1>3, <2>3, <2>4, <3>1
  <2>5. CASE toViewer[c] = <<>> /\ (Len(toServer[c]) = 1 \/ Len(toServer[c]) = 2)
    <3>1. Len(toServer[c]) <= 2
      BY <2>5, OneOrTwo
    <3>. QED BY <1>3, <2>3, <2>5, <3>1
  <2>. QED BY <2>2, <2>4, <2>5
<1>. QED
  BY <1>2, <1>3

\* The viewer speaks: what that leaves to show.
LEMMA SendStep ==
  ASSUME TypeOK, NEW c \in Conns, NEW ms \in Phrases, NEW s \in ViewerStates,
         Send(c, ms, s), Len(toServer[c]) + Len(ms) <= 3,
         UNCHANGED <<pair, config, changes, serverVars>>,
         toViewer' \in [Conns -> Seq(Message)], Len(toViewer'[c]) <= 3,
         minor' \in [Conns -> Nat], typed' \in [Conns -> Typed \cup {NoPassword}],
         \A d \in Conns \ {c} : /\ toViewer'[d] = toViewer[d] /\ minor'[d] = minor[d]
                                /\ typed'[d] = typed[d]
  PROVE  /\ TypeOK' /\ Apart(c)
         /\ toServer'[c] = toServer[c] \o ms /\ vstate'[c] = s
         /\ toServer[c] = <<>> => toServer'[c] = ms
         /\ ms = <<>> => toServer'[c] = toServer[c]
         /\ Len(toServer'[c]) = Len(toServer[c]) + Len(ms)
<1>1. /\ ms \in Seq(Message) /\ toServer[c] \in Seq(Message)
      /\ \A d \in Conns : Len(toServer[d]) <= 3 /\ Len(toViewer[d]) <= 3
  BY DEF Phrases, TypeOK
<1>2. /\ toServer'[c] = toServer[c] \o ms /\ vstate'[c] = s
      /\ toServer' \in [Conns -> Seq(Message)] /\ vstate' \in [Conns -> ViewerStates]
      /\ \A d \in Conns \ {c} : vstate'[d] = vstate[d] /\ toServer'[d] = toServer[d]
  BY <1>1, SendEffect
<1>3. Len(toServer'[c]) = Len(toServer[c]) + Len(ms)
  BY <1>1, <1>2, AddedAll
<1>4. /\ toServer[c] = <<>> => toServer[c] \o ms = ms
      /\ ms = <<>> => toServer[c] \o ms = toServer[c]
  BY <1>1, AddedAll
<1>5. \A d \in Conns : Len(toServer'[d]) <= 3 /\ Len(toViewer'[d]) <= 3
  BY <1>1, <1>2, <1>3
<1>6. TypeOK'
  BY <1>2, <1>5 DEF TypeOK, ViewerStates, serverVars
<1>7. Apart(c)
  BY <1>2 DEF Apart, serverVars
<1>. QED
  BY <1>2, <1>3, <1>4, <1>6, <1>7

\* The viewer closes.
LEMMA FailSound ==
  ASSUME IInv, NEW c \in Conns, Fail(c), state[c] # "NONE", vstate[c] # "FAILED",
         UNCHANGED <<pair, config, changes, serverVars, minor, typed>>,
         toViewer' \in [Conns -> Seq(Message)], Len(toViewer'[c]) <= Len(toViewer[c]),
         \A d \in Conns \ {c} : toViewer'[d] = toViewer[d]
  PROVE  TypeOK' /\ Sound(c)' /\ Apart(c)
<1>1. TypeOK /\ Sound(c) /\ toServer[c] \in Seq(Message) /\ toViewer[c] \in Seq(Message)
      /\ toViewer'[c] \in Seq(Message) /\ Len(toViewer[c]) <= 3
      /\ minor \in [Conns -> Nat] /\ typed \in [Conns -> Typed \cup {NoPassword}]
  BY DEF IInv, TypeOK
<1>2. Eof \in Message /\ Eof.is = "eof"
  BY PlainMade
<1>3. <<Eof>> \in Phrases /\ Len(<<Eof>>) = 1 /\ Single(<<Eof>>, "eof") /\ "FAILED" \in ViewerStates
  BY <1>2, Phrase1, StateSets
<1>4. Len(toServer[c]) <= 2 /\ Len(toServer[c]) \in Nat
  BY <1>1, Quiet
<1>5. /\ TypeOK' /\ Apart(c)
      /\ toServer'[c] = toServer[c] \o <<Eof>> /\ vstate'[c] = "FAILED"
      /\ toServer[c] = <<>> => toServer'[c] = <<Eof>>
  <2>1. Len(toServer[c]) + Len(<<Eof>>) <= 3
    BY <1>3, <1>4
  <2>2. Len(toViewer'[c]) <= 3
    BY <1>1
  <2>3. Send(c, <<Eof>>, "FAILED")
    BY DEF Fail
  <2>. QED BY <1>1, <1>3, <2>1, <2>2, <2>3, SendStep
<1>6. ASSUME NEW a, NEW b
      PROVE  /\ Single(toServer[c], a) => /\ Couple(toServer'[c], a, "eof")
                                          /\ toServer'[c][1] = toServer[c][1]
             /\ Couple(toServer[c], a, b) => /\ Triple(toServer'[c], a, b, "eof")
                                             /\ toServer'[c][1] = toServer[c][1]
  <2>1. /\ Single(toServer[c], a) => /\ Couple(toServer[c] \o <<Eof>>, a, Eof.is)
                                     /\ (toServer[c] \o <<Eof>>)[1] = toServer[c][1]
        /\ Couple(toServer[c], a, b) => /\ Triple(toServer[c] \o <<Eof>>, a, b, Eof.is)
                                        /\ (toServer[c] \o <<Eof>>)[1] = toServer[c][1]
    BY <1>1, <1>2, Added, Zenon
  <2>. QED BY <1>2, <1>5, <2>1, Zenon
<1>7. state' = state /\ minor' = minor /\ protocolMinorVersion' = protocolMinorVersion
  BY DEF serverVars
<1>8. ASSUME state[c] # "CLOSED" PROVE Deserted(c)'
  <2>1. Talk(c)
    BY <1>1, <1>8 DEF Sound
  <2>2. /\ toViewer[c] = <<>> => Len(toViewer'[c]) = 0
        /\ Len(toViewer[c]) <= 2 => Len(toViewer'[c]) <= 2
    <3>1. ASSUME toViewer[c] = <<>> PROVE Len(toViewer'[c]) = 0
      <4>1. Len(toViewer[c]) = 0
        BY <3>1
      <4>. QED BY <1>1, <4>1
    <3>. QED BY <1>1, <3>1
  <2>3. CASE toServer[c] = <<>>
    <3>1. /\ state[c] \in {"PROTOCOL_VERSION", "SECURITY_TYPE", "AUTHENTICATION",
                           "INITIALISATION", "NORMAL"}
          /\ Len(toViewer'[c]) <= 2
      <4>1. toViewer[c] = <<>> \/ Len(toViewer[c]) = 1 \/ Len(toViewer[c]) = 2
        BY <2>1 DEF Talk, Single, Couple
      <4>2. /\ state[c] \in {"PROTOCOL_VERSION", "SECURITY_TYPE", "AUTHENTICATION",
                             "INITIALISATION", "NORMAL"}
        BY <2>1, <2>3 DEF Talk
      <4>3. CASE toViewer[c] = <<>>
        <5>1. Len(toViewer'[c]) = 0
          BY <2>2, <4>3
        <5>. QED BY <4>2, <5>1
      <4>4. CASE Len(toViewer[c]) = 1 \/ Len(toViewer[c]) = 2
        <5>1. Len(toViewer[c]) \in Nat /\ Len(toViewer[c]) <= 2
          BY <4>4, OneOrTwo
        <5>. QED BY <2>2, <4>2, <5>1
      <4>. QED BY <4>1, <4>3, <4>4
    <3>. QED BY <1>3, <1>5, <1>7, <2>3, <3>1 DEF Deserted
  <2>4. CASE toServer[c] # <<>>
    <3>1. /\ Len(toViewer'[c]) = 0
          /\ \/ state[c] = "PROTOCOL_VERSION" /\ Single(toServer[c], "version")
                /\ toServer[c][1].minor = minor[c]
             \/ state[c] = "SECURITY_TYPE" /\ Single(toServer[c], "choice")
             \/ /\ state[c] = "SECURITY_TYPE" /\ minor[c] <= 7 /\ toServer[c][1].type = "None"
                /\ Couple(toServer[c], "choice", "clientinit")
             \/ state[c] = "AUTHENTICATION" /\ Single(toServer[c], "response")
             \/ state[c] = "INITIALISATION" /\ Single(toServer[c], "clientinit")
      BY <2>1, <2>2, <2>4 DEF Talk
    <3>. QED BY <1>6, <1>7, <3>1 DEF Deserted
  <2>. QED BY <2>3, <2>4
<1>9. SameVersion(c)'
  BY <1>1, <1>5, <1>7 DEF Sound, SameVersion
<1>. QED
  BY <1>5, <1>7, <1>8, <1>9 DEF Sound, PastPassword

LEMMA CancelSound ==
  ASSUME IInv, NEW c \in Conns, Cancel(c)
  PROVE  TypeOK' /\ Sound(c)' /\ Apart(c)
<1>1. vstate[c] # "FAILED" /\ state[c] # "NONE"
  BY DEF Cancel, Awaited
<1>2. /\ Fail(c) /\ UNCHANGED <<pair, config, changes, serverVars, minor, typed>>
      /\ toViewer' = toViewer
  BY DEF Cancel
<1>3. toViewer' \in [Conns -> Seq(Message)] /\ Len(toViewer'[c]) <= Len(toViewer[c])
  BY <1>2 DEF IInv, TypeOK
<1>. QED
  BY <1>1, <1>2, <1>3, FailSound

\* The viewer gives up after what it has read.
LEMMA TakeFails ==
  ASSUME IInv, NEW c \in Conns, NEW s, NEW kind, Takes(c, s, kind), s # "FAILED", Fail(c),
         UNCHANGED <<pair, config, changes, serverVars, minor, typed>>
  PROVE  TypeOK' /\ Sound(c)' /\ Apart(c)
<1>1. TypeOK
  BY DEF IInv
<1>2. /\ vstate[c] = s /\ toViewer[c] # <<>> /\ toViewer'[c] = Tail(toViewer[c])
      /\ toViewer' \in [Conns -> Seq(Message)]
      /\ \A d \in Conns \ {c} : toViewer'[d] = toViewer[d]
  BY <1>1, TakesEffect, Zenon
<1>3. Len(toViewer'[c]) <= Len(toViewer[c])
  <2>1. toViewer[c] \in Seq(Message)
    BY <1>1 DEF TypeOK
  <2>. QED BY <1>2, <2>1, Taken
<1>4. state[c] # "NONE"
  BY <1>2, Quiet
<1>. QED
  BY <1>2, <1>3, <1>4, FailSound

LEMMA TakeEofSound ==
  ASSUME IInv, NEW c \in Conns, TakeEof(c)
  PROVE  TypeOK' /\ Sound(c)' /\ Apart(c)
<1>1. PICK s \in DOMAIN Awaited \cup {"READY"} : Takes(c, s, "eof")
  BY DEF TakeEof
<1>2. Fail(c) /\ UNCHANGED <<pair, config, changes, serverVars, minor, typed>>
  BY DEF TakeEof
<1>3. s # "FAILED"
  BY DEF Awaited
<1>. QED
  BY <1>1, <1>2, <1>3, TakeFails

LEMMA TakeReasonSound ==
  ASSUME IInv, NEW c \in Conns, TakeReason(c)
  PROVE  TypeOK' /\ Sound(c)' /\ Apart(c)
<1>1. Takes(c, "REASON", "reason") /\ Fail(c)
      /\ UNCHANGED <<pair, config, changes, serverVars, minor, typed>>
  BY DEF TakeReason
<1>2. "REASON" # "FAILED"
  OBVIOUS
<1>. QED
  BY <1>1, <1>2, TakeFails

\* The viewer reads a message and goes on: what that leaves to show.
LEMMA TakeStep ==
  ASSUME IInv, NEW c \in Conns, NEW s, NEW kind, Takes(c, s, kind), s # "FAILED",
         NEW ms \in Phrases, NEW t \in ViewerStates, Send(c, ms, t), Len(ms) <= 2,
         state[c] = "CLOSED" => Len(ms) <= 1,
         UNCHANGED <<pair, config, changes, serverVars, typed>>,
         minor' \in [Conns -> Nat], \A d \in Conns \ {c} : minor'[d] = minor[d]
  PROVE  /\ TypeOK' /\ Apart(c) /\ TypeOK /\ Sound(c)
         /\ vstate[c] = s /\ vstate'[c] = t /\ state'[c] = state[c]
         /\ toViewer[c] \in Seq(Message) /\ toViewer[c] # <<>> /\ toViewer[c][1].is = kind
         /\ Head(toViewer[c]) = toViewer[c][1] /\ toViewer'[c] = Tail(toViewer[c])
         /\ state[c] # "CLOSED" => Talk(c) /\ toServer'[c] = ms
         /\ state[c] = "CLOSED" => Bereft(c)
         /\ ms = <<>> => toServer'[c] = toServer[c]
         /\ toServer[c] = <<>> => toServer'[c] = ms
         /\ protocolMinorVersion' = protocolMinorVersion /\ typed' = typed
         /\ Own(c)' = Own(c) /\ Cleared(c)' = Cleared(c)
<1>1. TypeOK /\ Sound(c) /\ toViewer[c] \in Seq(Message) /\ toServer[c] \in Seq(Message)
      /\ typed \in [Conns -> Typed \cup {NoPassword}]
  BY DEF IInv, TypeOK
<1>2. /\ vstate[c] = s /\ toViewer[c] # <<>> /\ Head(toViewer[c]) = toViewer[c][1]
      /\ toViewer[c][1].is = kind
      /\ toViewer'[c] = Tail(toViewer[c]) /\ Len(toViewer'[c]) <= 2
      /\ toViewer' \in [Conns -> Seq(Message)]
      /\ \A d \in Conns \ {c} : toViewer'[d] = toViewer[d]
  BY <1>1, TakesEffect
<1>3. /\ state[c] # "CLOSED" => toServer[c] = <<>>
      /\ Len(toServer[c]) <= 2
  BY <1>2, Quiet
<1>4. Len(toServer[c]) + Len(ms) <= 3
  <2>1. Len(toServer[c]) \in Nat /\ Len(ms) \in Nat
    BY <1>1 DEF Phrases
  <2>2. CASE state[c] = "CLOSED"
    BY <1>3, <2>1, <2>2
  <2>3. CASE state[c] # "CLOSED"
    <3>1. Len(toServer[c]) = 0
      BY <1>3, <2>3
    <3>. QED BY <2>1, <3>1
  <2>. QED BY <2>2, <2>3
<1>5. Len(toViewer'[c]) <= 3
  <2>1. toViewer'[c] \in Seq(Message)
    BY <1>2
  <2>. QED BY <1>2, <2>1
<1>6. typed' = typed /\ typed' \in [Conns -> Typed \cup {NoPassword}]
  BY <1>1
<1>7. /\ TypeOK' /\ Apart(c) /\ vstate'[c] = t
      /\ toServer[c] = <<>> => toServer'[c] = ms
      /\ ms = <<>> => toServer'[c] = toServer[c]
  BY <1>1, <1>2, <1>4, <1>5, <1>6, SendStep, ZenonT(30)
<1>8. /\ state[c] # "CLOSED" => Talk(c) /\ toServer'[c] = ms
      /\ state[c] = "CLOSED" => Bereft(c)
  BY <1>1, <1>2, <1>3, <1>7 DEF Sound
<1>9. state' = state /\ protocolMinorVersion' = protocolMinorVersion
      /\ Own(c)' = Own(c) /\ Cleared(c)' = Cleared(c)
  BY DEF serverVars, Own, Cleared
<1>. QED
  BY <1>1, <1>2, <1>6, <1>7, <1>8, <1>9

\* What the viewer answers with is a version.
LEMMA Answers ==
  ASSUME TypeOK, NEW c \in Conns, NEW n \in Nat
  PROVE  Answer(pair[c].viewer, n) \in Nat
<1>1. pair[c].viewer \in {"own", "3.3", "3.7", "mac"}
  BY Sides
<1>2. Speaks(n) \in Nat
  BY DEF Speaks
<1>. QED
  BY <1>1, <1>2 DEF Answer

LEMMA TakeVersionSound ==
  ASSUME IInv, NEW c \in Conns, TakeVersion(c)
  PROVE  TypeOK' /\ Sound(c)' /\ Apart(c)
<1>. DEFINE m == Answer(pair[c].viewer, Head(toViewer[c]).minor)
<1>1. TypeOK /\ Takes(c, "VERSION", "version") /\ "VERSION" # "FAILED"
  BY DEF IInv, TakeVersion
<1>2. m \in Nat
  <2>1. Head(toViewer[c]).minor \in Nat
    BY <1>1, TakesEffect, MessageRead
  <2>. QED BY <1>1, <2>1, Answers
<1>3. /\ minor' = [minor EXCEPT ![c] = m]
      /\ Send(c, <<Version(m)>>, IF m > 6 THEN "TYPES" ELSE "SCHEME")
      /\ UNCHANGED <<pair, config, changes, serverVars, typed>>
  BY Zenon DEF TakeVersion
<1>. HIDE DEF m
<1>4. /\ minor' \in [Conns -> Nat] /\ minor'[c] = m
      /\ \A d \in Conns \ {c} : minor'[d] = minor[d]
  BY <1>1, <1>2, <1>3 DEF TypeOK
<1>5. ASSUME NEW ms \in Phrases, NEW s \in ViewerStates, Send(c, ms, s),
             s = (IF m > 6 THEN "TYPES" ELSE "SCHEME"),
             Len(ms) = 1, Single(ms, "version"), ms[1].minor = m
      PROVE  TypeOK' /\ Sound(c)' /\ Apart(c)
  <2>1. Len(ms) <= 2 /\ Len(ms) <= 1
    BY <1>5
  <2>2. /\ TypeOK' /\ Apart(c)
        /\ vstate[c] = "VERSION" /\ vstate'[c] = s /\ state'[c] = state[c]
        /\ toViewer[c] \in Seq(Message) /\ toViewer[c] # <<>> /\ toViewer'[c] = Tail(toViewer[c])
        /\ state[c] # "CLOSED" => Talk(c) /\ toServer'[c] = ms
        /\ state[c] = "CLOSED" => Bereft(c)
        /\ toServer[c] = <<>> => toServer'[c] = ms
    <3>1. /\ minor' \in [Conns -> Nat] /\ \A d \in Conns \ {c} : minor'[d] = minor[d]
          /\ UNCHANGED <<pair, config, changes, serverVars, typed>>
      BY <1>3, <1>4
    <3>2. Takes(c, "VERSION", "version") /\ "VERSION" # "FAILED" /\ Send(c, ms, s)
      BY <1>1, <1>5
    <3>. QED BY <2>1, <3>1, <3>2, TakeStep
  <2>3. CASE state[c] # "CLOSED"
    <3>1. state[c] = "PROTOCOL_VERSION" /\ Single(toViewer[c], "version")
      BY <2>2, <2>3 DEF Talk
    <3>2. toViewer'[c] = <<>>
      BY <2>2, <3>1, Taken
    <3>3. Talk(c)'
      BY <1>4, <1>5, <2>2, <2>3, <3>1, <3>2 DEF Talk
    <3>. QED BY <1>5, <2>2, <3>1, <3>3 DEF Sound, SameVersion, PastPassword
  <2>4. CASE state[c] = "CLOSED"
    <3>1. toServer[c] = <<>> /\ Couple(toViewer[c], "version", "eof")
      BY <2>2, <2>4 DEF Bereft
    <3>2. Single(toViewer'[c], "eof")
      BY <2>2, <3>1, TakenOfTwo
    <3>3. Len(toServer'[c]) <= 1
      BY <2>1, <2>2, <3>1
    <3>4. Bereft(c)'
      BY <1>5, <2>2, <3>2, <3>3 DEF Bereft
    <3>. QED BY <1>5, <2>2, <2>4, <3>4 DEF Sound, SameVersion, PastPassword
  <2>. QED BY <2>3, <2>4
<1>6. /\ <<Version(m)>> \in Phrases /\ Len(<<Version(m)>>) = 1
      /\ Single(<<Version(m)>>, "version") /\ <<Version(m)>>[1].minor = m
  BY <1>2, VersionMade, Phrase1
<1>7. (IF m > 6 THEN "TYPES" ELSE "SCHEME") \in ViewerStates
  BY StateSets
<1>. QED
  BY <1>3, <1>5, <1>6, <1>7, Zenon

LEMMA TakeChallengeSound ==
  ASSUME IInv, NEW c \in Conns, TakeChallenge(c)
  PROVE  TypeOK' /\ Sound(c)' /\ Apart(c)
<1>1. /\ Takes(c, "CHALLENGE", "challenge") /\ Send(c, <<>>, "PASSWORD")
      /\ UNCHANGED <<pair, config, changes, serverVars, minor, typed>>
  BY DEF TakeChallenge
<1>2. /\ <<>> \in Phrases /\ Len(<<>>) <= 2 /\ Len(<<>>) <= 1
      /\ "PASSWORD" \in ViewerStates /\ "CHALLENGE" # "FAILED"
      /\ minor' \in [Conns -> Nat]
  BY <1>1, StateSets DEF Phrases, IInv, TypeOK
<1>3. /\ TypeOK' /\ Apart(c) /\ Sound(c)
      /\ vstate[c] = "CHALLENGE" /\ vstate'[c] = "PASSWORD" /\ state'[c] = state[c]
      /\ toViewer[c] \in Seq(Message) /\ toViewer[c][1].is = "challenge"
      /\ toViewer'[c] = Tail(toViewer[c]) /\ toViewer[c] # <<>>
      /\ state[c] # "CLOSED" => Talk(c) /\ toServer'[c] = <<>>
      /\ state[c] = "CLOSED" => Bereft(c)
      /\ protocolMinorVersion' = protocolMinorVersion
  BY <1>1, <1>2, TakeStep
<1>4. state[c] = "AUTHENTICATION" /\ Single(toViewer[c], "challenge")
  BY <1>3 DEF Talk, Bereft, Single, Couple, Triple
<1>5. toViewer'[c] = <<>>
  BY <1>3, <1>4, Taken
<1>6. Talk(c)'
  BY <1>3, <1>4, <1>5 DEF Talk
<1>. QED
  BY <1>1, <1>3, <1>4, <1>6 DEF Sound, SameVersion, PastPassword

LEMMA TakeServerInitSound ==
  ASSUME IInv, NEW c \in Conns, TakeServerInit(c)
  PROVE  TypeOK' /\ Sound(c)' /\ Apart(c)
<1>1. /\ Takes(c, "SERVERINIT", "serverinit") /\ Send(c, <<>>, "READY")
      /\ UNCHANGED <<pair, config, changes, serverVars, minor, typed>>
  BY DEF TakeServerInit
<1>2. /\ <<>> \in Phrases /\ Len(<<>>) <= 2 /\ Len(<<>>) <= 1
      /\ "READY" \in ViewerStates /\ "SERVERINIT" # "FAILED"
      /\ minor' \in [Conns -> Nat]
  BY <1>1, StateSets DEF Phrases, IInv, TypeOK
<1>3. /\ TypeOK' /\ Apart(c) /\ Sound(c)
      /\ vstate[c] = "SERVERINIT" /\ vstate'[c] = "READY" /\ state'[c] = state[c]
      /\ toViewer[c] \in Seq(Message) /\ toViewer[c][1].is = "serverinit"
      /\ toViewer'[c] = Tail(toViewer[c]) /\ toViewer[c] # <<>>
      /\ state[c] # "CLOSED" => Talk(c) /\ toServer'[c] = <<>>
      /\ state[c] = "CLOSED" => Bereft(c)
      /\ toServer'[c] = toServer[c]
      /\ protocolMinorVersion' = protocolMinorVersion
      /\ Own(c)' = Own(c) /\ Cleared(c)' = Cleared(c)
  BY <1>1, <1>2, TakeStep
<1>4. SameVersion(c)' /\ (Own(c)' => Cleared(c)')
  BY <1>1, <1>3 DEF Sound, SameVersion, PastPassword
<1>5. CASE state[c] # "CLOSED"
  <2>1. state[c] = "NORMAL" /\ Single(toViewer[c], "serverinit")
    BY <1>3, <1>5 DEF Talk, Single, Couple
  <2>2. toViewer'[c] = <<>>
    BY <1>3, <2>1, Taken
  <2>3. Talk(c)'
    BY <1>3, <1>5, <2>1, <2>2 DEF Talk
  <2>. QED BY <1>3, <1>4, <1>5, <2>3 DEF Sound
<1>6. CASE state[c] = "CLOSED"
  <2>1. Couple(toViewer[c], "serverinit", "eof") /\ Len(toServer[c]) <= 1
    BY <1>3, <1>6 DEF Bereft, Single, Couple, Triple
  <2>2. Single(toViewer'[c], "eof")
    BY <1>3, <2>1, TakenOfTwo
  <2>3. Bereft(c)'
    BY <1>3, <2>1, <2>2 DEF Bereft
  <2>. QED BY <1>3, <1>4, <1>6, <2>3 DEF Sound
<1>. QED
  BY <1>5, <1>6

LEMMA TypePasswordSound ==
  ASSUME IInv, NEW c \in Conns, NEW p \in Typed, TypePassword(c, p)
  PROVE  TypeOK' /\ Sound(c)' /\ Apart(c)
<1>1. TypeOK /\ Sound(c) /\ vstate[c] = "PASSWORD"
  BY DEF IInv, TypePassword
<1>2. state[c] = "AUTHENTICATION" /\ toServer[c] = <<>> /\ toViewer[c] = <<>>
  <2>1. Talk(c)
    BY <1>1 DEF Sound, Bereft
  <2>. QED BY <1>1, <2>1 DEF Talk
<1>3. /\ typed' = [typed EXCEPT ![c] = p] /\ Send(c, <<Response(p)>>, "RESULT")
      /\ UNCHANGED <<pair, config, changes, serverVars, minor, toViewer>>
  BY DEF TypePassword
<1>4. ASSUME NEW ms \in Phrases, Send(c, ms, "RESULT"),
             Len(ms) = 1, Single(ms, "response"), ms[1].password = p
      PROVE  TypeOK' /\ Sound(c)' /\ Apart(c)
  <2>1. Len(toServer[c]) + Len(ms) <= 3
    <3>1. Len(toServer[c]) = 0
      BY <1>2
    <3>. QED BY <1>4, <3>1
  <2>2. /\ toViewer' \in [Conns -> Seq(Message)] /\ Len(toViewer'[c]) <= 3
        /\ minor' \in [Conns -> Nat] /\ typed' \in [Conns -> Typed \cup {NoPassword}]
        /\ \A d \in Conns \ {c} : /\ toViewer'[d] = toViewer[d] /\ minor'[d] = minor[d]
                                  /\ typed'[d] = typed[d]
    BY <1>1, <1>3 DEF TypeOK
  <2>3. "RESULT" \in ViewerStates /\ UNCHANGED <<pair, config, changes, serverVars>>
    BY <1>3, StateSets
  <2>4. /\ TypeOK' /\ Apart(c) /\ vstate'[c] = "RESULT"
        /\ toServer[c] = <<>> => toServer'[c] = ms
    BY <1>1, <1>4, <2>1, <2>2, <2>3, SendStep
  <2>5. typed'[c] = p
    BY <1>1, <1>3 DEF TypeOK
  <2>6. state' = state /\ minor' = minor /\ protocolMinorVersion' = protocolMinorVersion
        /\ toViewer' = toViewer
    BY <1>3 DEF serverVars
  <2>7. Talk(c)'
    BY <1>2, <1>4, <2>4, <2>5, <2>6 DEF Talk
  <2>. QED
    BY <1>1, <1>2, <2>4, <2>6, <2>7 DEF Sound, SameVersion, PastPassword
<1>5. /\ <<Response(p)>> \in Phrases /\ Len(<<Response(p)>>) = 1
      /\ Single(<<Response(p)>>, "response") /\ <<Response(p)>>[1].password = p
  BY ResponseMade, Phrase1
<1>. QED
  BY <1>3, <1>4, <1>5, Zenon

\* The viewer's init message, with or without its choice of a type before it.
LEMMA InitSent ==
  ASSUME NEW c
  PROVE  /\ SendInit(c, <<>>) =>
              \E ms \in Phrases : /\ Len(ms) = 1 /\ Single(ms, "clientinit")
                                  /\ Send(c, ms, "SERVERINIT")
         /\ \A x \in Message : x.is = "choice" /\ SendInit(c, <<x>>) =>
              \E ms \in Phrases : /\ Len(ms) = 2 /\ Couple(ms, "choice", "clientinit")
                                  /\ ms[1] = x /\ Send(c, ms, "SERVERINIT")
<1>1. ASSUME SendInit(c, <<>>)
      PROVE  \E ms \in Phrases : /\ Len(ms) = 1 /\ Single(ms, "clientinit")
                                 /\ Send(c, ms, "SERVERINIT")
  <2>1. PICK b \in BOOLEAN : Send(c, Append(<<>>, ClientInit(b)), "SERVERINIT")
    BY <1>1, Zenon DEF SendInit
  <2>2. ClientInit(b) \in Message /\ ClientInit(b).is = "clientinit"
    BY InitMade
  <2>3. /\ <<ClientInit(b)>> \in Phrases /\ Len(<<ClientInit(b)>>) = 1
        /\ Single(<<ClientInit(b)>>, "clientinit")
        /\ Append(<<>>, ClientInit(b)) = <<ClientInit(b)>>
    BY <2>2, Phrase1
  <2>4. Send(c, <<ClientInit(b)>>, "SERVERINIT")
    BY <2>1, <2>3, Zenon
  <2>. QED BY <2>3, <2>4, Zenon
<1>2. ASSUME NEW x \in Message, x.is = "choice", SendInit(c, <<x>>)
      PROVE  \E ms \in Phrases : /\ Len(ms) = 2 /\ Couple(ms, "choice", "clientinit")
                                 /\ ms[1] = x /\ Send(c, ms, "SERVERINIT")
  <2>1. PICK b \in BOOLEAN : Send(c, Append(<<x>>, ClientInit(b)), "SERVERINIT")
    BY <1>2, Zenon DEF SendInit
  <2>2. ClientInit(b) \in Message /\ ClientInit(b).is = "clientinit"
    BY InitMade
  <2>3. /\ <<x, ClientInit(b)>> \in Phrases /\ Len(<<x, ClientInit(b)>>) = 2
        /\ Couple(<<x, ClientInit(b)>>, "choice", "clientinit")
        /\ <<x, ClientInit(b)>>[1] = x
        /\ Append(<<x>>, ClientInit(b)) = <<x, ClientInit(b)>>
    BY <1>2, <2>2, Phrase2
  <2>4. Send(c, <<x, ClientInit(b)>>, "SERVERINIT")
    BY <2>1, <2>3, Zenon
  <2>. QED BY <2>3, <2>4, Zenon
<1>. QED
  BY <1>1, <1>2

LEMMA TakeResultSound ==
  ASSUME IInv, NEW c \in Conns, TakeResult(c)
  PROVE  TypeOK' /\ Sound(c)' /\ Apart(c)
<1>. DEFINE ok == Head(toViewer[c]).ok
<1>1. /\ Takes(c, "RESULT", "result") /\ "RESULT" # "FAILED"
      /\ UNCHANGED <<pair, config, changes, serverVars, minor, typed>>
      /\ \/ ok /\ SendInit(c, <<>>)
         \/ ~ok /\ minor[c] > 7 /\ Send(c, <<>>, "REASON")
         \/ Fail(c)
  BY DEF TakeResult
<1>2. /\ minor' = minor /\ minor' \in [Conns -> Nat]
      /\ \A d \in Conns \ {c} : minor'[d] = minor[d]
      /\ UNCHANGED <<pair, config, changes, serverVars, typed>>
  BY <1>1 DEF IInv, TypeOK
<1>. HIDE DEF ok
<1>3. CASE Fail(c)
  BY <1>1, <1>3, TakeFails
<1>4. CASE ok /\ SendInit(c, <<>>)
  <2>1. PICK ms \in Phrases : /\ Len(ms) = 1 /\ Single(ms, "clientinit")
                              /\ Send(c, ms, "SERVERINIT")
    BY <1>4, InitSent, Zenon
  <2>2. Len(ms) <= 2 /\ Len(ms) <= 1 /\ "SERVERINIT" \in ViewerStates
    BY <2>1, StateSets
  <2>3. /\ TypeOK' /\ Apart(c) /\ Sound(c)
        /\ vstate[c] = "RESULT" /\ vstate'[c] = "SERVERINIT" /\ state'[c] = state[c]
        /\ toViewer[c] \in Seq(Message) /\ toViewer[c] # <<>> /\ toViewer[c][1].is = "result"
        /\ Head(toViewer[c]) = toViewer[c][1] /\ toViewer'[c] = Tail(toViewer[c])
        /\ state[c] # "CLOSED" => Talk(c) /\ toServer'[c] = ms
        /\ state[c] = "CLOSED" => Bereft(c)
        /\ protocolMinorVersion' = protocolMinorVersion
        /\ Own(c)' = Own(c) /\ Cleared(c)' = Cleared(c)
    <3>1. Takes(c, "RESULT", "result") /\ "RESULT" # "FAILED" /\ Send(c, ms, "SERVERINIT")
      BY <1>1, <2>1
    <3>. QED BY <1>2, <2>2, <3>1, TakeStep
  <2>4. toViewer[c][1].ok
    BY <1>4, <2>3 DEF ok
  <2>5. state[c] # "CLOSED"
    BY <2>3, <2>4 DEF Bereft, Single, Couple
  <2>6. state[c] = "INITIALISATION" /\ Single(toViewer[c], "result")
    BY <2>3, <2>5 DEF Talk, Single
  <2>7. toViewer'[c] = <<>>
    BY <2>3, <2>6, Taken
  <2>8. Talk(c)'
    BY <2>1, <2>3, <2>5, <2>6, <2>7 DEF Talk
  <2>. QED
    BY <1>2, <2>3, <2>6, <2>8 DEF Sound, SameVersion, PastPassword
<1>5. CASE ~ok /\ minor[c] > 7 /\ Send(c, <<>>, "REASON")
  <2>1. /\ <<>> \in Phrases /\ Len(<<>>) <= 2 /\ Len(<<>>) <= 1
        /\ "REASON" \in ViewerStates
    BY StateSets DEF Phrases
  <2>2. Send(c, <<>>, "REASON")
    BY <1>5
  <2>3. /\ TypeOK' /\ Apart(c) /\ Sound(c) /\ TypeOK
        /\ vstate[c] = "RESULT" /\ vstate'[c] = "REASON" /\ state'[c] = state[c]
        /\ toViewer[c] \in Seq(Message) /\ toViewer[c] # <<>> /\ toViewer[c][1].is = "result"
        /\ Head(toViewer[c]) = toViewer[c][1] /\ toViewer'[c] = Tail(toViewer[c])
        /\ state[c] # "CLOSED" => Talk(c)
        /\ state[c] = "CLOSED" => Bereft(c)
        /\ toServer'[c] = toServer[c]
    BY <1>1, <1>2, <2>1, <2>2, TakeStep
  <2>4. ~toViewer[c][1].ok
    BY <1>5, <2>3 DEF ok
  <2>5. state[c] = "CLOSED"
    BY <2>3, <2>4 DEF Talk
  <2>6. Triple(toViewer[c], "result", "reason", "eof") /\ Len(toServer[c]) <= 1
    <3>1. minor[c] \in Nat /\ minor[c] > 7
      BY <1>5, <2>3 DEF TypeOK
    <3>. QED BY <2>3, <2>5, <3>1 DEF Bereft, Single
  <2>7. Couple(toViewer'[c], "reason", "eof")
    BY <2>3, <2>6, TakenOfThree
  <2>8. Bereft(c)'
    BY <2>3, <2>6, <2>7 DEF Bereft
  <2>. QED
    BY <2>3, <2>5, <2>8 DEF Sound, SameVersion, PastPassword
<1>. QED
  BY <1>1, <1>3, <1>4, <1>5

LEMMA TakeSchemeSound ==
  ASSUME IInv, NEW c \in Conns, TakeScheme(c)
  PROVE  TypeOK' /\ Sound(c)' /\ Apart(c)
<1>. DEFINE t == Head(toViewer[c]).type
<1>1. /\ Takes(c, "SCHEME", "scheme") /\ "SCHEME" # "FAILED"
      /\ UNCHANGED <<pair, config, changes, serverVars, minor, typed>>
      /\ \/ t = "failed" /\ Send(c, <<>>, "REASON")
         \/ t \in Supported /\ HandleType(c, t, <<>>)
         \/ Fail(c)
  BY DEF TakeScheme
<1>2. /\ minor' = minor /\ minor' \in [Conns -> Nat] /\ minor[c] \in Nat
      /\ \A d \in Conns \ {c} : minor'[d] = minor[d]
      /\ UNCHANGED <<pair, config, changes, serverVars, typed>>
  BY <1>1 DEF IInv, TypeOK
<1>3. CASE Fail(c)
  BY <1>1, <1>3, TakeFails
<1>4. ASSUME NEW ms \in Phrases, NEW s \in ViewerStates, Send(c, ms, s), Len(ms) <= 2,
             Len(ms) <= 1
      PROVE  /\ TypeOK' /\ Apart(c) /\ Sound(c)
             /\ vstate[c] = "SCHEME" /\ vstate'[c] = s /\ state'[c] = state[c]
             /\ toViewer[c] \in Seq(Message) /\ toViewer[c] # <<>> /\ toViewer[c][1].is = "scheme"
             /\ t = toViewer[c][1].type /\ toViewer'[c] = Tail(toViewer[c])
             /\ state[c] # "CLOSED" => Talk(c) /\ toServer'[c] = ms
             /\ state[c] = "CLOSED" => Bereft(c)
             /\ ms = <<>> => toServer'[c] = toServer[c]
             /\ protocolMinorVersion' = protocolMinorVersion
             /\ Own(c)' = Own(c) /\ Cleared(c)' = Cleared(c)
  <2>1. /\ TypeOK' /\ Apart(c) /\ Sound(c)
        /\ vstate[c] = "SCHEME" /\ vstate'[c] = s /\ state'[c] = state[c]
        /\ toViewer[c] \in Seq(Message) /\ toViewer[c] # <<>> /\ toViewer[c][1].is = "scheme"
        /\ Head(toViewer[c]) = toViewer[c][1] /\ toViewer'[c] = Tail(toViewer[c])
        /\ state[c] # "CLOSED" => Talk(c) /\ toServer'[c] = ms
        /\ state[c] = "CLOSED" => Bereft(c)
        /\ ms = <<>> => toServer'[c] = toServer[c]
        /\ protocolMinorVersion' = protocolMinorVersion
        /\ Own(c)' = Own(c) /\ Cleared(c)' = Cleared(c)
    BY <1>1, <1>2, <1>4, TakeStep
  <2>. QED BY <2>1
<1>e. <<>> \in Phrases /\ Len(<<>>) <= 2 /\ Len(<<>>) <= 1
  BY DEF Phrases
<1>. HIDE DEF t
<1>5. CASE t = "failed" /\ Send(c, <<>>, "REASON")
  <2>1. "REASON" \in ViewerStates /\ Send(c, <<>>, "REASON")
    BY <1>5, StateSets
  <2>2. /\ TypeOK' /\ Apart(c) /\ Sound(c)
        /\ vstate[c] = "SCHEME" /\ vstate'[c] = "REASON" /\ state'[c] = state[c]
        /\ toViewer[c] \in Seq(Message) /\ toViewer[c] # <<>> /\ toViewer[c][1].is = "scheme"
        /\ t = toViewer[c][1].type /\ toViewer'[c] = Tail(toViewer[c])
        /\ state[c] # "CLOSED" => Talk(c)
        /\ state[c] = "CLOSED" => Bereft(c)
        /\ toServer'[c] = toServer[c]
    BY <1>4, <1>e, <2>1, Zenon
  <2>3. state[c] = "CLOSED"
    BY <1>5, <2>2 DEF Talk
  <2>4. Triple(toViewer[c], "scheme", "reason", "eof") /\ Len(toServer[c]) <= 1
    BY <2>2, <2>3 DEF Bereft, Single
  <2>5. Couple(toViewer'[c], "reason", "eof")
    BY <2>2, <2>4, TakenOfThree
  <2>6. Bereft(c)'
    BY <2>2, <2>4, <2>5 DEF Bereft
  <2>. QED
    BY <2>2, <2>3, <2>6 DEF Sound, SameVersion, PastPassword
<1>6. CASE t = "VncAuth" /\ Send(c, <<>>, "CHALLENGE")
  <2>1. "CHALLENGE" \in ViewerStates /\ Send(c, <<>>, "CHALLENGE")
    BY <1>6, StateSets
  <2>2. /\ TypeOK' /\ Apart(c) /\ Sound(c)
        /\ vstate[c] = "SCHEME" /\ vstate'[c] = "CHALLENGE" /\ state'[c] = state[c]
        /\ toViewer[c] \in Seq(Message) /\ toViewer[c] # <<>> /\ toViewer[c][1].is = "scheme"
        /\ t = toViewer[c][1].type /\ toViewer'[c] = Tail(toViewer[c])
        /\ state[c] # "CLOSED" => Talk(c) /\ toServer'[c] = <<>>
        /\ state[c] = "CLOSED" => Bereft(c)
        /\ protocolMinorVersion' = protocolMinorVersion
    BY <1>4, <1>e, <2>1, Zenon
  <2>3. state[c] # "CLOSED"
    BY <1>6, <2>2 DEF Bereft, Single, Triple
  <2>4. state[c] = "AUTHENTICATION" /\ Couple(toViewer[c], "scheme", "challenge")
    BY <1>6, <2>2, <2>3 DEF Talk
  <2>5. Single(toViewer'[c], "challenge")
    BY <2>2, <2>4, TakenOfTwo
  <2>6. Talk(c)'
    BY <2>2, <2>3, <2>4, <2>5 DEF Talk
  <2>. QED
    BY <1>2, <2>2, <2>4, <2>6 DEF Sound, SameVersion, PastPassword
<1>7. ASSUME t = "None", NEW ms \in Phrases, NEW s \in ViewerStates, Send(c, ms, s),
             Len(ms) = 1, minor[c] <= 7 => s = "SERVERINIT" /\ Single(ms, "clientinit")
      PROVE  TypeOK' /\ Sound(c)' /\ Apart(c)
  <2>1. Len(ms) <= 2 /\ Len(ms) <= 1
    BY <1>7
  <2>2. /\ TypeOK' /\ Apart(c) /\ Sound(c)
        /\ vstate[c] = "SCHEME" /\ vstate'[c] = s /\ state'[c] = state[c]
        /\ toViewer[c] \in Seq(Message) /\ toViewer[c] # <<>> /\ toViewer[c][1].is = "scheme"
        /\ t = toViewer[c][1].type /\ toViewer'[c] = Tail(toViewer[c])
        /\ state[c] # "CLOSED" => Talk(c) /\ toServer'[c] = ms
        /\ state[c] = "CLOSED" => Bereft(c)
        /\ protocolMinorVersion' = protocolMinorVersion
        /\ Own(c)' = Own(c) /\ Cleared(c)' = Cleared(c)
    BY <1>4, <1>7, <2>1, Zenon
  <2>3. state[c] # "CLOSED"
    BY <1>7, <2>2 DEF Bereft, Single, Triple
  <2>4. state[c] = "INITIALISATION" /\ Single(toViewer[c], "scheme") /\ minor[c] <= 7
    BY <1>2, <1>7, <2>2, <2>3 DEF Talk
  <2>5. toViewer'[c] = <<>>
    BY <2>2, <2>4, Taken
  <2>6. Talk(c)'
    BY <1>7, <2>2, <2>3, <2>4, <2>5 DEF Talk
  <2>. QED
    BY <1>2, <1>7, <2>2, <2>4, <2>6 DEF Sound, SameVersion, PastPassword
<1>8. ASSUME t = "None", NEW s \in ViewerStates, Send(c, <<>>, s), minor[c] > 7
      PROVE  FALSE
  <2>1. /\ vstate[c] = "SCHEME" /\ toViewer[c][1].is = "scheme" /\ t = toViewer[c][1].type
        /\ state[c] # "CLOSED" => Talk(c)
        /\ state[c] = "CLOSED" => Bereft(c)
    BY <1>4, <1>8, <1>e, Zenon
  <2>2. state[c] # "CLOSED"
    BY <1>8, <2>1 DEF Bereft, Single, Triple
  <2>. QED BY <1>2, <1>8, <2>1, <2>2 DEF Talk
<1>9. CASE t = "None" /\ minor[c] <= 7 /\ SendInit(c, <<>>)
  <2>1. PICK ms \in Phrases : /\ Len(ms) = 1 /\ Single(ms, "clientinit")
                              /\ Send(c, ms, "SERVERINIT")
    BY <1>9, InitSent, Zenon
  <2>2. "SERVERINIT" \in ViewerStates
    BY StateSets
  <2>. QED BY <1>7, <1>9, <2>1, <2>2, Zenon
<1>10. CASE /\ t = "None" /\ minor[c] > 7
            /\ Send(c, <<>>, "RESULT") \/ Send(c, <<>>, "SERVERINIT")
  <2>1. "SERVERINIT" \in ViewerStates /\ "RESULT" \in ViewerStates
    BY StateSets
  <2>. QED BY <1>8, <1>10, <2>1, Zenon
<1>11. CASE t \in Supported /\ HandleType(c, t, <<>>)
  <2>1. \/ t = "VncAuth" /\ Send(c, <<>>, "CHALLENGE")
        \/ t = "None" /\ minor[c] > 7 /\ minor[c] # 889 /\ Send(c, <<>>, "RESULT")
        \/ t = "None" /\ minor[c] <= 7 /\ SendInit(c, <<>>)
        \/ t = "None" /\ minor[c] = 889 /\ Send(c, <<>>, "SERVERINIT")
    BY <1>11, Zenon DEF HandleType
  <2>2. minor[c] = 889 => minor[c] > 7
    BY <1>2
  <2>. QED BY <1>6, <1>9, <1>10, <2>1, <2>2, ZenonT(30)
<1>. QED
  BY <1>1, <1>3, <1>5, <1>11

LEMMA TakeTypesSound ==
  ASSUME IInv, NEW c \in Conns, TakeTypes(c)
  PROVE  TypeOK' /\ Sound(c)' /\ Apart(c)
<1>. DEFINE types == Head(toViewer[c]).types
<1>1. /\ Takes(c, "TYPES", "types") /\ "TYPES" # "FAILED"
      /\ UNCHANGED <<pair, config, changes, serverVars, minor, typed>>
      /\ \/ types = <<>> /\ Send(c, <<>>, "REASON")
         \/ Fail(c)
         \/ \E i \in DOMAIN types :
              types[i] \in Supported /\ HandleType(c, types[i], <<Choice(types[i])>>)
  BY DEF TakeTypes
<1>2. /\ minor' = minor /\ minor' \in [Conns -> Nat] /\ minor[c] \in Nat
      /\ \A d \in Conns \ {c} : minor'[d] = minor[d]
      /\ UNCHANGED <<pair, config, changes, serverVars, typed>>
  BY <1>1 DEF IInv, TypeOK
<1>3. CASE Fail(c)
  BY <1>1, <1>3, TakeFails
<1>t. types \in Seq(SecurityTypes) /\ types = toViewer[c][1].types
  <2>1. TypeOK
    BY DEF IInv
  <2>. QED BY <1>1, <2>1, TakesEffect, MessageRead
<1>p. UNCHANGED <<pair, reverseConnection>>
  BY <1>1 DEF serverVars
<1>4. ASSUME NEW ms \in Phrases, NEW s \in ViewerStates, Send(c, ms, s), Len(ms) <= 2,
             state[c] = "CLOSED" => Len(ms) <= 1
      PROVE  /\ TypeOK' /\ Apart(c) /\ Sound(c)
             /\ vstate[c] = "TYPES" /\ vstate'[c] = s /\ state'[c] = state[c]
             /\ toViewer[c] \in Seq(Message) /\ toViewer[c] # <<>> /\ toViewer[c][1].is = "types"
             /\ toViewer'[c] = Tail(toViewer[c])
             /\ state[c] # "CLOSED" => Talk(c) /\ toServer'[c] = ms
             /\ state[c] = "CLOSED" => Bereft(c)
             /\ ms = <<>> => toServer'[c] = toServer[c]
             /\ protocolMinorVersion' = protocolMinorVersion
             /\ Own(c)' = Own(c)
  BY <1>1, <1>2, <1>4, TakeStep
<1>. HIDE DEF types
<1>5. CASE types = <<>> /\ Send(c, <<>>, "REASON")
  <2>1. /\ "REASON" \in ViewerStates /\ Send(c, <<>>, "REASON")
        /\ <<>> \in Phrases /\ Len(<<>>) <= 2 /\ Len(<<>>) <= 1
    BY <1>5, StateSets DEF Phrases
  <2>2. /\ TypeOK' /\ Apart(c) /\ Sound(c)
        /\ vstate[c] = "TYPES" /\ vstate'[c] = "REASON" /\ state'[c] = state[c]
        /\ toViewer[c] \in Seq(Message) /\ toViewer[c] # <<>> /\ toViewer[c][1].is = "types"
        /\ toViewer'[c] = Tail(toViewer[c])
        /\ state[c] # "CLOSED" => Talk(c)
        /\ state[c] = "CLOSED" => Bereft(c)
        /\ toServer'[c] = toServer[c]
    BY <1>4, <2>1, Zenon
  <2>3. state[c] = "CLOSED"
    BY <1>5, <1>t, <2>2 DEF Talk
  <2>4. Triple(toViewer[c], "types", "reason", "eof") /\ Len(toServer[c]) <= 1
    BY <2>2, <2>3 DEF Bereft, Single
  <2>5. Couple(toViewer'[c], "reason", "eof")
    BY <2>2, <2>4, TakenOfThree
  <2>6. Bereft(c)'
    BY <2>2, <2>4, <2>5 DEF Bereft
  <2>. QED
    BY <2>2, <2>3, <2>6 DEF Sound, SameVersion, PastPassword
\* A server that offers types has not closed.
<1>6. ASSUME types # <<>>
      PROVE  /\ state[c] = "SECURITY_TYPE" /\ Single(toViewer[c], "types") /\ toServer[c] = <<>>
             /\ minor[c] > 6
             /\ Own(c) => types = <<PrimaryType(c)>>
  <2>1. /\ TypeOK /\ Sound(c) /\ vstate[c] = "TYPES" /\ toViewer[c] # <<>>
        /\ toViewer[c][1].is = "types"
    <3>1. TypeOK /\ Sound(c)
      BY DEF IInv
    <3>. QED BY <1>1, <3>1, TakesEffect
  <2>2. state[c] # "CLOSED"
    BY <1>6, <1>t, <2>1 DEF Sound, Bereft, Single, Triple
  <2>3. Talk(c)
    BY <2>1, <2>2 DEF Sound
  <2>. QED BY <1>t, <2>1, <2>2, <2>3 DEF Talk, Single
<1>7. ASSUME NEW i \in DOMAIN types, NEW ms \in Phrases, NEW s \in ViewerStates, Send(c, ms, s),
             Len(ms) <= 2, ms # <<>>, ms[1].type = types[i],
             \/ types[i] = "VncAuth" /\ s = "CHALLENGE" /\ Single(ms, "choice")
             \/ /\ types[i] = "None" /\ minor[c] > 7 /\ minor[c] # 889
                /\ s = "RESULT" /\ Single(ms, "choice")
             \/ /\ types[i] = "None" /\ minor[c] = 889
                /\ s = "SERVERINIT" /\ Single(ms, "choice")
             \/ /\ types[i] = "None" /\ minor[c] <= 7
                /\ s = "SERVERINIT" /\ Couple(ms, "choice", "clientinit")
      PROVE  TypeOK' /\ Sound(c)' /\ Apart(c)
  <2>1. types # <<>>
    BY <1>7
  <2>2. /\ state[c] = "SECURITY_TYPE" /\ Single(toViewer[c], "types") /\ toServer[c] = <<>>
        /\ minor[c] > 6
        /\ Own(c) => types = <<PrimaryType(c)>>
    BY <1>6, <2>1
  <2>3. /\ TypeOK' /\ Apart(c) /\ Sound(c)
        /\ vstate[c] = "TYPES" /\ vstate'[c] = s /\ state'[c] = state[c]
        /\ toViewer[c] \in Seq(Message) /\ toViewer'[c] = Tail(toViewer[c])
        /\ toServer'[c] = ms
        /\ protocolMinorVersion' = protocolMinorVersion
        /\ Own(c)' = Own(c)
    <3>1. state[c] # "CLOSED"
      BY <2>2
    <3>. QED BY <1>4, <1>7, <3>1
  <2>4. toViewer'[c] = <<>>
    BY <2>2, <2>3, Taken
  <2>5. ASSUME Own(c), types[i] = "None" PROVE reverseConnection[c]
    <3>1. types = <<PrimaryType(c)>>
      BY <2>2, <2>5
    <3>2. i = 1 /\ types[1] = PrimaryType(c)
      BY <3>1
    <3>. QED BY <2>5, <3>2 DEF PrimaryType
  <2>6. Talk(c)'
    <3>1. CASE types[i] = "VncAuth" /\ s = "CHALLENGE" /\ Single(ms, "choice")
      BY <1>7, <2>2, <2>3, <2>4, <3>1 DEF Talk
    <3>2. CASE /\ types[i] = "None"
               /\ \/ minor[c] > 7 /\ minor[c] # 889 /\ s = "RESULT" /\ Single(ms, "choice")
                  \/ minor[c] = 889 /\ s = "SERVERINIT" /\ Single(ms, "choice")
                  \/ minor[c] <= 7 /\ s = "SERVERINIT" /\ Couple(ms, "choice", "clientinit")
      <4>1. Own(c)' => reverseConnection'[c]
        BY <1>p, <2>3, <2>5, <3>2
      <4>2. /\ state'[c] = "SECURITY_TYPE" /\ toServer'[c] # <<>>
            /\ toServer'[c][1].type = "None" /\ toViewer'[c] = <<>> /\ minor' = minor
        BY <1>2, <1>7, <2>2, <2>3, <2>4, <3>2
      <4>3. \/ vstate'[c] = "RESULT" /\ minor[c] > 7 /\ minor[c] # 889
               /\ Single(toServer'[c], "choice")
            \/ vstate'[c] = "SERVERINIT" /\ minor[c] = 889 /\ Single(toServer'[c], "choice")
            \/ vstate'[c] = "SERVERINIT" /\ minor[c] <= 7
               /\ Couple(toServer'[c], "choice", "clientinit")
        BY <2>3, <3>2
      <4>. QED BY <4>1, <4>2, <4>3 DEF Talk
    <3>. QED BY <1>7, <3>1, <3>2
  <2>7. Own(c)' /\ PastPassword(c)' => Cleared(c)'
    BY <1>7, <1>p, <2>2, <2>3, <2>5 DEF PastPassword, Cleared
  <2>8. SameVersion(c)'
    BY <1>2, <2>2, <2>3 DEF Sound, SameVersion
  <2>. QED
    BY <1>7, <2>2, <2>3, <2>6, <2>7, <2>8 DEF Sound
<1>8. ASSUME NEW i \in DOMAIN types, types[i] \in Supported,
             HandleType(c, types[i], <<Choice(types[i])>>)
      PROVE  TypeOK' /\ Sound(c)' /\ Apart(c)
  <2>. DEFINE x == Choice(types[i])
  <2>1. x \in Message /\ x.is = "choice" /\ x.type = types[i]
    <3>1. types[i] \in SecurityTypes
      BY <1>t, ElementOfSeq, LenProperties
    <3>. QED BY <3>1, TypeMade
  <2>2. \/ types[i] = "VncAuth" /\ Send(c, <<x>>, "CHALLENGE")
        \/ types[i] = "None" /\ minor[c] > 7 /\ minor[c] # 889 /\ Send(c, <<x>>, "RESULT")
        \/ types[i] = "None" /\ minor[c] <= 7 /\ SendInit(c, <<x>>)
        \/ types[i] = "None" /\ minor[c] = 889 /\ Send(c, <<x>>, "SERVERINIT")
    BY <1>8, Zenon DEF HandleType
  <2>. HIDE DEF x
  <2>3. /\ <<x>> \in Phrases /\ <<x>> # <<>> /\ Single(<<x>>, "choice")
        /\ <<x>>[1].type = types[i] /\ Len(<<x>>) <= 2
    BY <2>1, Phrase1
  <2>4. {"CHALLENGE", "RESULT", "SERVERINIT"} \subseteq ViewerStates
    BY StateSets
  <2>5. CASE types[i] = "VncAuth" /\ Send(c, <<x>>, "CHALLENGE")
    BY <1>7, <2>3, <2>4, <2>5, Zenon
  <2>6. CASE types[i] = "None" /\ minor[c] > 7 /\ minor[c] # 889 /\ Send(c, <<x>>, "RESULT")
    BY <1>7, <2>3, <2>4, <2>6, ZenonT(30)
  <2>7. CASE types[i] = "None" /\ minor[c] = 889 /\ Send(c, <<x>>, "SERVERINIT")
    <3>1. "SERVERINIT" \in ViewerStates /\ types[i] = "None" /\ minor[c] = 889
          /\ Send(c, <<x>>, "SERVERINIT")
      BY <2>4, <2>7
    <3>2. PICK ms \in Phrases : ms = <<x>>
      BY <2>3, Zenon
    <3>3. /\ ms # <<>> /\ Single(ms, "choice") /\ ms[1].type = types[i] /\ Len(ms) <= 2
          /\ Send(c, ms, "SERVERINIT")
      BY <2>3, <3>1, <3>2, Zenon
    <3>. QED BY <1>7, <3>1, <3>3
  <2>8. CASE types[i] = "None" /\ minor[c] <= 7 /\ SendInit(c, <<x>>)
    <3>1. PICK ms \in Phrases : /\ Len(ms) = 2 /\ Couple(ms, "choice", "clientinit")
                                /\ ms[1] = x /\ Send(c, ms, "SERVERINIT")
      BY <2>1, <2>8, InitSent, Zenon
    <3>2. Len(ms) <= 2 /\ ms # <<>> /\ ms[1].type = types[i]
      <4>1. Len(<<>>) = 0
        OBVIOUS
      <4>. QED BY <2>1, <3>1, <4>1
    <3>. QED BY <1>7, <2>4, <2>8, <3>1, <3>2, Zenon
  <2>. QED BY <2>2, <2>5, <2>6, <2>7, <2>8
<1>. QED
  BY <1>1, <1>3, <1>5, <1>8 DEF types

-----------------------------------------------------------------------------
(* The invariant.                                                          *)

LEMMA InvInit == Init => IInv
<1>. SUFFICES ASSUME Init PROVE IInv
  OBVIOUS
<1>1. <<>> \in Seq(Message) /\ Len(<<>>) <= 3 /\ 0 \in Nat
  OBVIOUS
<1>2. TypeOK
  <2>1. /\ state \in [Conns -> ServerStates] /\ vstate \in [Conns -> ViewerStates]
    BY StateSets DEF Init
  <2>2. /\ pair \in Pairs /\ config \in Configs /\ changes \in 0..MaxConfigs
        /\ handler \in {"None", "VncAuth", NoHandler}
        /\ protocolMinorVersion \in [Conns -> Nat] /\ minor \in [Conns -> Nat]
        /\ reverseConnection \in [Conns -> BOOLEAN] /\ viewOnly \in [Conns -> BOOLEAN]
        /\ typed \in [Conns -> Typed \cup {NoPassword}]
        /\ toServer \in [Conns -> Seq(Message)] /\ toViewer \in [Conns -> Seq(Message)]
    BY <1>1, MaxConfigsAssumption DEF Init
  <2>3. \A c \in Conns : Len(toServer[c]) <= 3 /\ Len(toViewer[c]) <= 3
    BY <1>1 DEF Init
  <2>. QED BY <2>1, <2>2, <2>3 DEF TypeOK, ServerStates, ViewerStates
<1>3. ASSUME NEW c \in Conns PROVE Sound(c)
  BY DEF Init, Sound, Talk, SameVersion, PastPassword
<1>. QED
  BY <1>2, <1>3 DEF IInv

\* A step of one connection leaves the others as they are.
LEMMA OthersSound ==
  ASSUME IInv, NEW c \in Conns, TypeOK', Sound(c)', Apart(c), UNCHANGED pair
  PROVE  IInv'
<1>1. ASSUME NEW d \in Conns, d # c PROVE Sound(d)'
  BY <1>1, Untouched DEF Apart, IInv
<1>. QED
  BY <1>1 DEF IInv

LEMMA InvStep == IInv /\ [Next]_vars => IInv'
<1>. SUFFICES ASSUME IInv, [Next]_vars PROVE IInv'
  OBVIOUS
<1>1. ASSUME NEW c \in Conns, NewClient(c) PROVE IInv'
  <2>1. UNCHANGED pair
    BY <1>1 DEF NewClient
  <2>. QED BY <1>1, <2>1, NewClientSound, OthersSound
<1>2. ASSUME NEW c \in Conns, ProtocolVersion(c) PROVE IInv'
  <2>1. UNCHANGED pair
    BY <1>2 DEF ProtocolVersion
  <2>. QED BY <1>2, <2>1, ProtocolVersionSound, OthersSound
<1>3. ASSUME NEW c \in Conns, SecurityType(c) PROVE IInv'
  <2>1. UNCHANGED pair
    BY <1>3 DEF SecurityType
  <2>. QED BY <1>3, <2>1, SecurityTypeSound, OthersSound
<1>4. ASSUME NEW c \in Conns, Authentication(c) PROVE IInv'
  <2>1. UNCHANGED pair
    BY <1>4 DEF Authentication
  <2>. QED BY <1>4, <2>1, AuthenticationSound, OthersSound
<1>5. ASSUME NEW c \in Conns, InitMessage(c) PROVE IInv'
  BY <1>5, InitMessageSound
<1>6. ASSUME NEW c \in Conns, ReadEof(c) PROVE IInv'
  <2>1. UNCHANGED pair
    BY <1>6 DEF ReadEof
  <2>. QED BY <1>6, <2>1, ReadEofSound, OthersSound
<1>7. ASSUME NEW c \in Conns, ViewerStep(c) PROVE IInv'
  <2>1. UNCHANGED pair
    BY <1>7 DEF ViewerStep, TakeVersion, TakeTypes, TakeScheme, TakeChallenge, TakeResult,
                TakeReason, TakeServerInit, TakeEof
  <2>2. TypeOK' /\ Sound(c)' /\ Apart(c)
    BY <1>7, TakeVersionSound, TakeTypesSound, TakeSchemeSound, TakeChallengeSound,
       TakeResultSound, TakeReasonSound, TakeServerInitSound, TakeEofSound DEF ViewerStep
  <2>. QED BY <2>1, <2>2, OthersSound
<1>8. ASSUME NEW c \in Conns, UserStep(c) PROVE IInv'
  <2>1. UNCHANGED pair
    BY <1>8 DEF UserStep, TypePassword, Cancel
  <2>2. TypeOK' /\ Sound(c)' /\ Apart(c)
    BY <1>8, TypePasswordSound, CancelSound DEF UserStep
  <2>. QED BY <2>1, <2>2, OthersSound
<1>9. CASE Reconfigure
  BY <1>9, ReconfigureSound
<1>10. CASE UNCHANGED vars
  <2>1. UNCHANGED <<pair, config, changes, handler, state, protocolMinorVersion,
                    reverseConnection, viewOnly, vstate, minor, typed, toServer, toViewer>>
    BY <1>10 DEF vars, serverVars, viewerVars
  <2>2. TypeOK'
    BY <2>1 DEF IInv, TypeOK
  <2>3. ASSUME NEW c \in Conns PROVE Sound(c)'
    BY <2>1, Untouched DEF IInv
  <2>. QED BY <2>2, <2>3 DEF IInv
<1>. QED
  BY <1>1, <1>2, <1>3, <1>4, <1>5, <1>6, <1>7, <1>8, <1>9, <1>10 DEF Next, ServerStep

\* Where both sides are and what is under way fit together on every connection.
THEOREM Invariant == Spec => []IInv
<1>. QED
  BY InvInit, InvStep, PTL DEF Spec

\* The variables have their types, and no more than three messages are under way
\* in a direction.
THEOREM TypeCorrect == Spec => []TypeOK
<1>1. IInv => TypeOK
  BY DEF IInv
<1>. QED
  BY <1>1, Invariant, PTL

\* Each side reads the kind of message that the other one has sent, or the end
\* (ReadSupportedSecurityType and rfbHandleAuthResult of the viewer,
\* rfbProcessClientSecurityType and rfbSendSecurityTypeList of the server).
THEOREM Understanding == Spec => []Understood
<1>1. ASSUME IInv, NEW c \in Conns
      PROVE  /\ state[c] \in DOMAIN Expected /\ toServer[c] # <<>> =>
                  Head(toServer[c]).is \in {Expected[state[c]], "eof"}
             /\ vstate[c] \in DOMAIN Awaited /\ toViewer[c] # <<>> =>
                  Head(toViewer[c]).is \in {Awaited[vstate[c]], "eof"}
  <2>1. TypeOK /\ Sound(c)
    BY <1>1 DEF IInv
  <2>2. /\ toServer[c] # <<>> => Head(toServer[c]) = toServer[c][1]
        /\ toViewer[c] # <<>> => Head(toViewer[c]) = toViewer[c][1]
    <3>1. toServer[c] \in Seq(Message) /\ toViewer[c] \in Seq(Message)
      BY <2>1 DEF TypeOK
    <3>. QED BY <3>1, Taken
  <2>3. CASE Talk(c)
    BY <2>2, <2>3 DEF Talk, Single, Couple, Expected, Awaited
  <2>4. CASE Bereft(c) /\ state[c] = "CLOSED"
    BY <2>2, <2>4 DEF Bereft, Single, Couple, Triple, Expected, Awaited
  <2>5. CASE Deserted(c) /\ vstate[c] = "FAILED"
    BY <2>2, <2>5 DEF Deserted, Single, Couple, Triple, Expected, Awaited
  <2>6. CASE vstate[c] = "FAILED" /\ state[c] = "CLOSED"
    BY <2>6 DEF Expected, Awaited
  <2>. QED BY <2>1, <2>3, <2>4, <2>5, <2>6 DEF Sound
<1>2. IInv => Understood
  BY <1>1 DEF Understood
<1>. QED
  BY <1>2, Invariant, PTL

\* Whoever is ready was admitted by the server, in the version it speaks, and
\* without having typed a password that gives control may only watch
\* (rfbCheckPasswordByList, rfbsAttach).
THEOREM Admission == Spec => []Admitted
<1>1. ASSUME IInv, NEW c \in Conns, vstate[c] = "READY", Own(c)
      PROVE  /\ state[c] \in {"NORMAL", "CLOSED"}
             /\ minor[c] = protocolMinorVersion[c]
             /\ reverseConnection[c] \/ (\E k \in Configs : k.primary = typed[c]) \/ viewOnly[c]
  <2>1. Sound(c)
    BY <1>1 DEF IInv
  <2>2. state[c] # "CLOSED" => state[c] = "NORMAL"
    BY <1>1, <2>1 DEF Sound, Talk
  <2>3. minor[c] = protocolMinorVersion[c]
    BY <1>1, <2>1 DEF Sound, SameVersion
  <2>4. Cleared(c)
    BY <1>1, <2>1 DEF Sound, PastPassword
  <2>. QED BY <2>2, <2>3, <2>4 DEF Cleared
<1>2. IInv => Admitted
  BY <1>1 DEF Admitted
<1>. QED
  BY <1>2, Invariant, PTL
===============================================================================
