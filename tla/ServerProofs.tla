---------------------------- MODULE ServerProofs ----------------------------
(***************************************************************************)
(* Proofs of the safety properties of the server: of ServerClients for     *)
(* every set of records, of addresses and of configurations, and of        *)
(* ScreenUpdate for every screen, every set of clients and of rectangles,  *)
(* and every configuration.                                                *)
(*                                                                         *)
(* ServerClients.  TypeOK is inductive.  Books needs that no record is     *)
(* linked twice, that what is not linked is blank, and that the iterators  *)
(* of the loops that let clients go name each client once (TodoInv).       *)
(* LogonAsked needs that a client has not been asked about exactly when it *)
(* is in paLogonClients, and that the search for logged-in clients misses  *)
(* none (LogonInv).  SoleClient needs that "newest" names clients in       *)
(* RFB_NORMAL only.                                                        *)
(*                                                                         *)
(* ScreenUpdate.  ScreenTypeOK and CursorKnown are inductive, and so is   *)
(* PixelsCovered, by what rfbsUpdateScreen marks (MarkedCopied) and what   *)
(* the bounding box of an update holds (InBox).  CursorCovered needs where *)
(* the pixels with an old pointer are marked (ScarsModified).              *)
(***************************************************************************)
EXTENDS ServerClients, ScreenUpdate, SequenceLemmas

\* What the library and the server know of their clients agrees.
BooksInv ==
  /\ IsInjective(clientHead)
  /\ cClients = Len(clientHead)
  /\ HooksForClients
  /\ WatchedOpen
  /\ \A c \in Free : state[c] = "none" /\ ~open[c] /\ ~reverseConnection[c]

\* The loops that let clients go find each of them once, and still listed.
TodoInv ==
  phase \in {"reap", "exit"} => IsInjective(todo) /\ ToSet(todo) \subseteq Listed

\* A client is in the list exactly while it has not been asked about.
LogonInv ==
  /\ IsInjective(paLogonClients)
  /\ ToSet(paLogonClients) \subseteq Listed
  /\ \A c \in Clients : logons[c] # "twice"
  /\ \A c \in Listed : logons[c] = "waits" <=> c \in ToSet(paLogonClients)
  /\ \A c \in ToSet(paLogonClients) :
       LoggedIn(c) => /\ phase \notin {"idle", "exit"}
                      /\ phase = "logon" => c \in ToSet(todo)

\* The clients that came in under this configuration are in RFB_NORMAL.
NewestInv ==
  /\ \A c \in newest : c \in Listed /\ state[c] = "NORMAL"
  /\ SoleClient

IInv == TypeOK /\ BooksInv /\ TodoInv /\ LogonInv /\ NewestInv

-----------------------------------------------------------------------------
(* Taking a client out of a list.                                          *)

LEMMA PlaceFound ==
  ASSUME NEW s, NEW c \in ToSet(s)
  PROVE  PlaceOf(s, c) \in DOMAIN s /\ s[PlaceOf(s, c)] = c
<1>1. \E i \in DOMAIN s : s[i] = c
  BY DEF ToSet
<1>. QED
  BY <1>1 DEF PlaceOf

LEMMA SwapRemoveSet ==
  ASSUME NEW S, NEW s \in Seq(S), NEW k \in DOMAIN s, IsInjective(s)
  PROVE  /\ SwapRemove(s, k) \in Seq(S) /\ Len(SwapRemove(s, k)) = Len(s) - 1
         /\ IsInjective(SwapRemove(s, k))
         /\ ToSet(SwapRemove(s, k)) = ToSet(s) \ {s[k]}
<1>. DEFINE n == Len(s)
            u == IF k = n THEN s ELSE [s EXCEPT ![k] = s[n]]
            t == SwapRemove(s, k)
            From(i) == IF i = k THEN n ELSE i
<1>1. n \in Nat \ {0} /\ k \in 1..n /\ DOMAIN s = 1..n
  OBVIOUS
<1>2. u \in Seq(S) /\ Len(u) = n /\ \A i \in 1..n - 1 : u[i] = s[From(i)]
  BY <1>1
<1>3. t = SubSeq(u, 1, n - 1)
  BY DEF SwapRemove
<1>. HIDE DEF u, t
<1>4. t \in Seq(S) /\ Len(t) = n - 1 /\ DOMAIN t = 1..n - 1 /\ \A i \in 1..n - 1 : t[i] = u[i]
  BY <1>1, <1>2, <1>3
<1>5. \A i \in DOMAIN t : From(i) \in DOMAIN s \ {k} /\ t[i] = s[From(i)]
  BY <1>1, <1>2, <1>4
<1>6. IsInjective(t)
  BY <1>1, <1>4, <1>5 DEF IsInjective
<1>7. ASSUME NEW i \in DOMAIN t PROVE t[i] \in ToSet(s) \ {s[k]}
  BY <1>5 DEF ToSet, IsInjective
<1>8. ASSUME NEW j \in DOMAIN s, j # k PROVE s[j] \in ToSet(t)
  <2>1. PICK i \in DOMAIN t : From(i) = j
    <3>1. CASE j = n
      BY <1>1, <1>4, <1>8, <3>1
    <3>2. CASE j # n
      <4>1. j \in DOMAIN t /\ From(j) = j
        BY <1>1, <1>4, <1>8, <3>2
      <4>. QED BY <4>1
    <3>. QED BY <3>1, <3>2
  <2>. QED BY <1>5, <2>1, Zenon DEF ToSet
<1>9. ToSet(t) = ToSet(s) \ {s[k]}
  BY <1>7, <1>8 DEF ToSet
<1>. QED
  BY <1>4, <1>6, <1>9 DEF t

LEMMA UnlistedSet ==
  ASSUME NEW S, NEW s \in Seq(S), IsInjective(s), NEW c
  PROVE  /\ Unlisted(s, c) \in Seq(S) /\ Len(Unlisted(s, c)) <= Len(s)
         /\ IsInjective(Unlisted(s, c))
         /\ ToSet(Unlisted(s, c)) = ToSet(s) \ {c}
<1>1. CASE c \in ToSet(s)
  <2>1. Len(s) \in Nat
    OBVIOUS
  <2>. QED BY <1>1, <2>1, PlaceFound, SwapRemoveSet DEF Unlisted
<1>2. CASE c \notin ToSet(s)
  BY <1>2 DEF Unlisted
<1>. QED
  BY <1>1, <1>2

-----------------------------------------------------------------------------
(* What the operations of a client's life do to the lists.                 *)

\* An iterator goes on to the next client.
LEMMA VisitNext ==
  ASSUME TypeOK, NEW c, Visit(c)
  PROVE  /\ c \in Clients /\ c \in ToSet(todo) /\ todo' \in Seq(Clients)
         /\ ToSet(todo) = {c} \cup ToSet(todo')
         /\ IsInjective(todo) => IsInjective(todo') /\ c \notin ToSet(todo')
  BY HeadTail DEF TypeOK, Visit

\* A client that is listed as waiting is the only change to that list.
LEMMA ListedForLogon ==
  ASSUME TypeOK, LogonInv, NEW c \in Free, ListForLogon(c)
  PROVE  /\ paLogonClients' \in Seq(Clients) /\ IsInjective(paLogonClients')
         /\ ulMaxLogonClients' \in Nat /\ Len(paLogonClients') <= ulMaxLogonClients'
         /\ logons' \in [Clients -> {"unlisted", "waits", "once", "twice"}]
         /\ \A d \in Clients \ {c} : logons'[d] = logons[d]
         /\ ToSet(paLogonClients') = ToSet(paLogonClients)
                                     \cup (IF logons'[c] = "waits" THEN {c} ELSE {})
         /\ logons'[c] # "twice"
<1>1. c \in Clients /\ c \notin ToSet(paLogonClients)
  BY DEF LogonInv, Free
<1>2. CASE paLogonClients' = Append(paLogonClients, c)
  <2>1. Len(paLogonClients') = Len(paLogonClients) + 1 /\ Len(paLogonClients) \in Nat
    BY <1>1, <1>2 DEF TypeOK
  <2>2. ToSet(paLogonClients') = ToSet(paLogonClients) \cup {c}
    BY <1>1, <1>2, ToSetAppend DEF TypeOK
  <2>3. IsInjective(paLogonClients')
    BY <1>1, <1>2, InjectiveAppend DEF TypeOK, LogonInv
  <2>4. CASE logons' = [logons EXCEPT ![c] = "waits"]
    BY <1>1, <1>2, <2>1, <2>2, <2>3, <2>4, ToSetAppend DEF TypeOK, ListForLogon
  <2>5. CASE UNCHANGED <<paLogonClients, ulMaxLogonClients>>
    BY <1>1, <1>2, <2>1, <2>5
  <2>. QED BY <2>4, <2>5 DEF ListForLogon
<1>3. CASE /\ UNCHANGED <<paLogonClients, ulMaxLogonClients>>
           /\ logons' = [logons EXCEPT ![c] = "unlisted"]
  BY <1>1, <1>3 DEF TypeOK, LogonInv
<1>. QED
  BY <1>2, <1>3 DEF ListForLogon

\* A new client is linked at the head.
LEMMA Linked ==
  ASSUME TypeOK, BooksInv, NEW c \in Free, clientHead' = <<c>> \o clientHead
  PROVE  /\ clientHead' \in Seq(Clients) /\ IsInjective(clientHead')
         /\ Len(clientHead') = Len(clientHead) + 1 /\ clientHead' # <<>>
         /\ Listed' = Listed \cup {c}
  BY ToSetCons, InjectiveCons DEF TypeOK, BooksInv, Free, Listed

\* A client that is gone is in no list.
LEMMA Gone ==
  ASSUME TypeOK, BooksInv, LogonInv, NEW c \in Listed, ConnectionGone(c)
  PROVE  /\ clientHead' \in Seq(Clients) /\ IsInjective(clientHead')
         /\ Listed' = Listed \ {c} /\ Len(clientHead') = Len(clientHead) - 1
         /\ paLogonClients' \in Seq(Clients) /\ IsInjective(paLogonClients')
         /\ Len(paLogonClients') <= Len(paLogonClients)
         /\ ToSet(paLogonClients') = ToSet(paLogonClients) \ {c}
         /\ cClients' = Len(clientHead') /\ HooksForClients'
<1>1. clientHead' = RemoveAt(clientHead, PlaceOf(clientHead, c))
      /\ paLogonClients' = Unlisted(paLogonClients, c)
  BY DEF ConnectionGone, ClientGone
<1>2. /\ clientHead' \in Seq(Clients) /\ IsInjective(clientHead')
      /\ ToSet(clientHead') = ToSet(clientHead) \ {c} /\ Len(clientHead') = Len(clientHead) - 1
  BY <1>1, PlaceFound, RemoveAtSet DEF TypeOK, BooksInv, Listed
<1>3. /\ paLogonClients' \in Seq(Clients) /\ IsInjective(paLogonClients')
      /\ Len(paLogonClients') <= Len(paLogonClients)
      /\ ToSet(paLogonClients') = ToSet(paLogonClients) \ {c}
  BY <1>1, UnlistedSet DEF TypeOK, LogonInv
<1>4. Len(clientHead) \in Nat \ {0}
  <2>1. clientHead # <<>>
    BY ToSetTyped DEF Listed, TypeOK
  <2>. QED BY <2>1 DEF TypeOK
<1>5. cClients' = Len(clientHead')
  BY <1>2, <1>4 DEF ConnectionGone, ClientGone, BooksInv
<1>6. clientHead # <<>> /\ (cClients # 1 <=> clientHead' # <<>>)
  <2>1. clientHead' # <<>> <=> Len(clientHead') # 0
    BY <1>2
  <2>2. clientHead # <<>>
    BY <1>4
  <2>. QED BY <1>2, <1>4, <2>1, <2>2 DEF BooksInv
<1>7. hooks' = (hooks /\ cClients # 1)
  BY DEF ConnectionGone, ClientGone
<1>8. HooksForClients'
  BY <1>6, <1>7, Zenon DEF BooksInv, HooksForClients
<1>. QED
  BY <1>2, <1>3, <1>5, <1>8 DEF Listed

\* The client enters RFB_NORMAL, and it or others may be closed for that.
LEMMA Entered ==
  ASSUME TypeOK, WatchedOpen, NEW c \in Clients, NEW shared \in BOOLEAN,
         EnterNormal(c, shared)
  PROVE  /\ state' = [state EXCEPT ![c] = "NORMAL"] /\ newest' = newest \cup {c}
         /\ open' \in [Clients -> BOOLEAN] /\ \A d \in Clients : open'[d] => open[d]
         /\ allFds' = {d \in Listed : open'[d]}
<1>1. Listed \subseteq Clients
  BY ToSetTyped DEF TypeOK, Listed
<1>2. UNCHANGED <<open, allFds>> \/ \E S \in SUBSET Clients : Close(S)
  <2>1. {c} \in SUBSET Clients /\ {} \in SUBSET Clients /\ Others(c) \in SUBSET Clients
    BY <1>1 DEF Others
  <2>. QED BY <2>1, Zenon DEF EnterNormal
<1>3. open' \in [Clients -> BOOLEAN] /\ \A d \in Clients : open'[d] => open[d]
  BY <1>2 DEF TypeOK, Close
<1>4. allFds' = {d \in Listed : open'[d]}
  BY <1>1, <1>2 DEF TypeOK, Close, WatchedOpen
<1>. QED
  BY <1>3, <1>4 DEF EnterNormal

-----------------------------------------------------------------------------
(* Types.                                                                  *)

\* A client may be accepted: what that leaves of the types.
LEMMA AcceptTyped ==
  ASSUME IInv, NEW reverse \in BOOLEAN, Accept(reverse)
  PROVE  /\ state' \in [Clients -> States] /\ open' \in [Clients -> BOOLEAN]
         /\ reverseConnection' \in [Clients -> BOOLEAN] /\ offer' = offer
         /\ clientHead' \in Seq(Clients) /\ allFds' \subseteq Clients
         /\ cClients' \in Nat /\ hooks' \in BOOLEAN
         /\ paLogonClients' \in Seq(Clients) /\ ulMaxLogonClients' \in Nat
         /\ Len(paLogonClients') <= ulMaxLogonClients'
         /\ logons' \in [Clients -> {"unlisted", "waits", "once", "twice"}]
<1>1. PICK c \in Free : NewClient(c, reverse)
  BY DEF Accept
<1>2. c \in Clients
  BY DEF Free
<1>3. hooks' \in BOOLEAN
  BY <1>1, Zenon DEF NewClient
<1>. QED
  BY <1>1, <1>2, <1>3, ListedForLogon, Linked DEF IInv, TypeOK, NewClient, States

LEMMA GoneTyped ==
  ASSUME IInv, NEW c \in Listed, ConnectionGone(c), UNCHANGED <<screenVars, phase, handler, asked>>,
         todo' \in Seq(Clients)
  PROVE  TypeOK'
<1>1. c \in Clients
  BY ToSetTyped DEF IInv, TypeOK, Listed
<1>2. hooks' \in BOOLEAN
  BY Zenon DEF ConnectionGone, ClientGone
<1>3. Len(paLogonClients) \in Nat /\ Len(paLogonClients') \in Nat
  BY Gone DEF IInv, TypeOK
<1>4. /\ clientHead' \in Seq(Clients) /\ paLogonClients' \in Seq(Clients)
      /\ ulMaxLogonClients' \in Nat /\ Len(paLogonClients') <= ulMaxLogonClients'
  <2>1. UNCHANGED ulMaxLogonClients
    BY Zenon DEF ConnectionGone, ClientGone
  <2>. QED BY <1>3, <2>1, Gone DEF IInv, TypeOK
<1>5. /\ state' \in [Clients -> States] /\ open' \in [Clients -> BOOLEAN]
      /\ reverseConnection' \in [Clients -> BOOLEAN]
      /\ offer' \in [Clients -> SecTypes \cup {NoType}]
      /\ allFds' \subseteq Clients /\ newest' \subseteq Clients
      /\ cClients' \in Nat /\ logons' = logons
  BY <1>1 DEF IInv, TypeOK, ConnectionGone, ClientGone, States
<1>. QED
  BY <1>2, <1>4, <1>5 DEF IInv, TypeOK, screenVars

LEMMA TypeStep ==
  ASSUME IInv, [Next]_vars
  PROVE  TypeOK'
<1>. USE DEF IInv, States, SecTypes, NoType, clVars, logonVars, countVars, screenVars, loopVars
<1>1. CASE Round
  BY <1>1, AcceptTyped DEF Round, TypeOK
<1>2. CASE BeginReap
  BY <1>2, AcceptTyped DEF BeginReap, ProxyConnection, TypeOK
<1>3. CASE BeginLogon
  BY <1>3 DEF BeginLogon, TypeOK
<1>4. CASE EndRound
  BY <1>4 DEF EndRound, TypeOK
<1>5. CASE Attach
  BY <1>5, AcceptTyped DEF Attach, TypeOK
<1>6. CASE Reconfigure
  BY <1>6, FlagsAssumption, ToSetTyped DEF Reconfigure, TypeOK, Listed
<1>7. CASE Exit
  BY <1>7 DEF Exit, TypeOK
<1>8. ASSUME NEW c \in Clients, Read(c)
      PROVE  TypeOK'
  <2>1. todo' \in Seq(Clients)
    BY <1>8, VisitNext DEF Read
  <2>2. CASE ProtocolVersion(c)
    BY <1>8, <2>1, <2>2 DEF Read, ProtocolVersion, PrimaryType, SetState, TypeOK
  <2>3. CASE SecurityType(c)
    <3>1. CASE EnterNormal(c, TRUE)
      <4>2. PICK shared \in BOOLEAN : EnterNormal(c, shared)
        BY <3>1, Zenon
      <4>1. /\ state' \in [Clients -> States] /\ open' \in [Clients -> BOOLEAN]
            /\ allFds' \subseteq Clients /\ newest' \subseteq Clients
        BY <4>2, Entered, ToSetTyped DEF BooksInv, TypeOK, Listed
      <4>. QED BY <1>8, <2>1, <2>3, <4>1 DEF Read, SecurityType, TypeOK
    <3>2. CASE UNCHANGED newest /\ ((Close({c}) /\ UNCHANGED state) \/ \E st \in States : SetState(c, st))
      BY <1>8, <2>1, <2>3, <3>2 DEF Read, SecurityType, SetState, Close, TypeOK
    <3>. QED BY <2>3, <3>1, <3>2 DEF SecurityType
  <2>4. CASE Authentication(c)
    BY <1>8, <2>1, <2>4 DEF Read, Authentication, SetState, TypeOK
  <2>5. CASE Initialisation(c)
    <3>1. PICK shared \in BOOLEAN : EnterNormal(c, shared)
      BY <2>5 DEF Initialisation, InitMessage
    <3>2. /\ state' \in [Clients -> States] /\ open' \in [Clients -> BOOLEAN]
          /\ allFds' \subseteq Clients /\ newest' \subseteq Clients
      BY <3>1, Entered, ToSetTyped DEF BooksInv, TypeOK, Listed
    <3>. QED BY <1>8, <2>1, <2>5, <3>2 DEF Read, Initialisation, InitMessage, TypeOK
  <2>6. CASE ReadFails(c)
    BY <1>8, <2>1, <2>6 DEF Read, ReadFails, Close, TypeOK
  <2>. QED
    BY <1>8, <2>2, <2>3, <2>4, <2>5, <2>6 DEF Read
<1>9. ASSUME NEW c \in Clients, ReadNothing(c) \/ Update(c) \/ NoLogon(c)
      PROVE  TypeOK'
  BY <1>9, VisitNext DEF ReadNothing, Update, NoLogon, TypeOK
<1>10. ASSUME NEW c \in Clients, Reap(c)
       PROVE  TypeOK'
  BY <1>10, VisitNext, GoneTyped DEF Reap, TodoInv
<1>11. ASSUME NEW c \in Clients, Logon(c)
       PROVE  TypeOK'
  <2>1. /\ paLogonClients' \in Seq(Clients) /\ Len(paLogonClients') <= Len(paLogonClients)
        /\ Len(paLogonClients) \in Nat /\ Len(paLogonClients') \in Nat
    BY <1>11, UnlistedSet DEF Logon, TypeOK, LogonInv
  <2>2. /\ open' \in [Clients -> BOOLEAN] /\ allFds' \subseteq Clients
        /\ logons' \in [Clients -> {"unlisted", "waits", "once", "twice"}]
    BY <1>11 DEF Logon, Close, TypeOK
  <2>3. Len(paLogonClients') <= ulMaxLogonClients
    BY <2>1 DEF TypeOK
  <2>. QED
    BY <1>11, <2>1, <2>2, <2>3, VisitNext DEF Logon, TypeOK
<1>12. ASSUME NEW c \in Clients, ShutdownClient(c)
       PROVE  TypeOK'
  BY <1>12, VisitNext, GoneTyped DEF ShutdownClient, TodoInv
<1>13. ASSUME NEW c \in Clients, AskDisconnect(c) \/ Disconnect(c) \/ SendFails(c)
       PROVE  TypeOK'
  BY <1>13 DEF AskDisconnect, Disconnect, SendFails, Close, TypeOK
<1>14. CASE UNCHANGED vars
  BY <1>14 DEF vars, TypeOK
<1>. QED
  BY <1>1, <1>2, <1>3, <1>4, <1>5, <1>6, <1>7, <1>8, <1>9, <1>10, <1>11, <1>12, <1>13,
     <1>14 DEF Next, Turn, Step

-----------------------------------------------------------------------------
(* The books.                                                              *)

\* Reading from a client changes its state only, and closes clients.
LEMMA ReadEffect ==
  ASSUME IInv, NEW c \in Clients, Read(c)
  PROVE  /\ c \in Listed /\ \A d \in Clients \ {c} : state'[d] = state[d]
         /\ \A d \in Clients : open'[d] => open[d]
         /\ allFds' = {d \in Listed : open'[d]}
         /\ UNCHANGED <<reverseConnection, clientHead, logonVars, countVars, phase, config>>
<1>1. c \in Listed /\ WatchedOpen /\ Listed \subseteq Clients
  BY ToSetTyped DEF Read, IInv, BooksInv, TypeOK, WatchedOpen, Listed
<1>2. \/ UNCHANGED <<open, allFds>> /\ \E s \in States : state' = [state EXCEPT ![c] = s]
      \/ Close({c}) /\ UNCHANGED state
      \/ \E shared \in BOOLEAN : EnterNormal(c, shared)
  <2>1. CASE SecurityType(c)
    BY <2>1, Zenon DEF SecurityType, SetState, States
  <2>2. CASE ProtocolVersion(c)
    BY <2>2 DEF ProtocolVersion, SetState, States
  <2>3. CASE Authentication(c)
    BY <2>3 DEF Authentication, SetState, States
  <2>4. CASE Initialisation(c) \/ ReadFails(c)
    BY <2>4, Zenon DEF Initialisation, InitMessage, ReadFails
  <2>. QED BY <2>1, <2>2, <2>3, <2>4 DEF Read
<1>3. UNCHANGED <<reverseConnection, clientHead, logonVars, countVars, phase, config>>
  BY DEF Read, screenVars
<1>4. CASE \E shared \in BOOLEAN : EnterNormal(c, shared)
  BY <1>1, <1>3, <1>4, Entered DEF IInv, TypeOK
<1>5. CASE Close({c}) /\ UNCHANGED state
  BY <1>1, <1>3, <1>5 DEF Close, WatchedOpen, IInv, TypeOK
<1>6. CASE UNCHANGED <<open, allFds>> /\ \E s \in States : state' = [state EXCEPT ![c] = s]
  BY <1>1, <1>3, <1>6 DEF WatchedOpen, IInv, TypeOK
<1>. QED
  BY <1>2, <1>4, <1>5, <1>6

LEMMA AcceptBooks ==
  ASSUME IInv, NEW reverse \in BOOLEAN, Accept(reverse)
  PROVE  BooksInv' /\ Listed \subseteq Listed'
<1>1. PICK c \in Free : NewClient(c, reverse)
  BY DEF Accept
<1>2. c \in Clients /\ c \notin Listed /\ Listed' = Listed \cup {c}
  BY <1>1, Linked DEF Free, IInv, NewClient
<1>3. HooksForClients'
  <2>1. clientHead = <<>> => cClients + 1 = 1
    BY DEF IInv, BooksInv
  <2>2. hooks' = (hooks \/ cClients + 1 = 1) /\ clientHead' # <<>>
    BY <1>1, Linked DEF IInv, NewClient
  <2>. QED BY <2>1, <2>2, Zenon DEF IInv, BooksInv, HooksForClients
<1>4. WatchedOpen'
  BY <1>1, <1>2, ToSetTyped DEF IInv, BooksInv, WatchedOpen, NewClient, TypeOK, Listed
<1>5. \A d \in Free' : state'[d] = "none" /\ ~open'[d] /\ ~reverseConnection'[d]
  BY <1>1, <1>2 DEF IInv, BooksInv, Free, NewClient, TypeOK
<1>6. IsInjective(clientHead)' /\ cClients' = Len(clientHead')
  BY <1>1, Linked DEF IInv, BooksInv, NewClient
<1>. QED
  BY <1>2, <1>3, <1>4, <1>5, <1>6 DEF BooksInv

LEMMA GoneBooks ==
  ASSUME IInv, NEW c \in Clients, Visit(c), phase \in {"reap", "exit"}, phase' = phase,
         ConnectionGone(c)
  PROVE  BooksInv' /\ TodoInv'
<1>1. c \in Listed
  BY VisitNext DEF IInv, TodoInv
<1>2. Listed' = Listed \ {c} /\ IsInjective(clientHead') /\ cClients' = Len(clientHead')
      /\ HooksForClients'
  BY <1>1, Gone DEF IInv
<1>3. WatchedOpen'
  BY <1>1, <1>2, ToSetTyped DEF IInv, BooksInv, WatchedOpen, ConnectionGone, TypeOK, Listed
<1>4. \A d \in Free' : state'[d] = "none" /\ ~open'[d] /\ ~reverseConnection'[d]
  BY <1>1, <1>2 DEF IInv, BooksInv, Free, ConnectionGone, TypeOK
<1>5. IsInjective(todo') /\ ToSet(todo') \subseteq Listed'
  BY <1>2, VisitNext DEF IInv, TodoInv
<1>. QED
  BY <1>2, <1>3, <1>4, <1>5 DEF BooksInv, TodoInv

\* Every step keeps the books.
LEMMA BooksStep ==
  ASSUME IInv, [Next]_vars
  PROVE  BooksInv'
<1>. USE DEF clVars, countVars
<1>1. ASSUME UNCHANGED <<clientHead, cClients, hooks>>,
             \A d \in Free : state'[d] = state[d] /\ reverseConnection'[d] = reverseConnection[d],
             \A d \in Clients : open'[d] => open[d],
             allFds' = {d \in Listed : open'[d]}
      PROVE  BooksInv'
  BY <1>1 DEF IInv, BooksInv, HooksForClients, WatchedOpen, Listed, Free
<1>2. ASSUME UNCHANGED <<clVars, countVars>>
      PROVE  BooksInv'
  BY <1>1, <1>2 DEF IInv, BooksInv, WatchedOpen
<1>3. CASE Round
  BY <1>2, <1>3, AcceptBooks DEF Round
<1>4. CASE BeginReap
  BY <1>2, <1>4, AcceptBooks DEF BeginReap, ProxyConnection
<1>5. CASE Attach
  BY <1>2, <1>5, AcceptBooks DEF Attach
<1>6. CASE Reconfigure
  BY <1>1, <1>6 DEF Reconfigure
<1>7. CASE BeginLogon \/ EndRound \/ Exit
  BY <1>2, <1>7 DEF BeginLogon, EndRound, Exit
<1>8. ASSUME NEW c \in Clients, Read(c)
      PROVE  BooksInv'
  BY <1>1, <1>8, ReadEffect DEF Free
<1>9. ASSUME NEW c \in Clients, ReadNothing(c) \/ Update(c) \/ NoLogon(c) \/ AskDisconnect(c)
      PROVE  BooksInv'
  BY <1>2, <1>9 DEF ReadNothing, Update, NoLogon, AskDisconnect
<1>10. ASSUME NEW c \in Clients, Reap(c) \/ ShutdownClient(c)
       PROVE  BooksInv'
  BY <1>10, GoneBooks DEF Reap, ShutdownClient
<1>11. ASSUME NEW S, Close(S), UNCHANGED <<state, reverseConnection, clientHead, countVars>>
       PROVE  BooksInv'
  <2>1. \A d \in Clients : open'[d] => open[d]
    BY <1>11 DEF Close
  <2>2. allFds' = {d \in Listed : open'[d]}
    BY <1>11, ToSetTyped DEF Close, IInv, BooksInv, TypeOK, WatchedOpen, Listed
  <2>. QED BY <1>1, <1>11, <2>1, <2>2
<1>12. ASSUME NEW c \in Clients, Logon(c) \/ Disconnect(c) \/ SendFails(c)
       PROVE  BooksInv'
  BY <1>11, <1>12, Zenon DEF Logon, Disconnect, SendFails
<1>13. CASE UNCHANGED vars
  BY <1>2, <1>13 DEF vars
<1>. QED
  BY <1>3, <1>4, <1>5, <1>6, <1>7, <1>8, <1>9, <1>10, <1>12, <1>13 DEF Next, Turn, Step

\* The loops that let clients go visit nobody who is gone.
LEMMA TodoStep ==
  ASSUME IInv, [Next]_vars
  PROVE  TodoInv'
<1>1. ASSUME phase' \notin {"reap", "exit"}
      PROVE  TodoInv'
  BY <1>1 DEF TodoInv
<1>2. ASSUME BooksInv', todo' = clientHead'
      PROVE  TodoInv'
  BY <1>2 DEF TodoInv, BooksInv, Listed
<1>3. ASSUME phase' = phase, todo' = todo, clientHead' = clientHead
      PROVE  TodoInv'
  BY <1>3 DEF TodoInv, IInv, Listed
<1>4. ASSUME NEW c, Visit(c), phase' = phase, clientHead' = clientHead
      PROVE  TodoInv'
  BY <1>4, VisitNext DEF TodoInv, IInv, Listed
<1>. USE DEF clVars, loopVars
<1>5. CASE Round \/ BeginLogon \/ EndRound \/ Attach \/ Reconfigure
  BY <1>1, <1>5 DEF Round, BeginLogon, EndRound, Attach, Reconfigure
<1>6. CASE BeginReap \/ Exit
  BY <1>2, <1>6, BooksStep DEF BeginReap, Exit
<1>7. ASSUME NEW c \in Clients, Step(c)
      PROVE  TodoInv'
  <2>1. CASE Reap(c) \/ ShutdownClient(c)
    BY <1>7, <2>1, GoneBooks DEF Reap, ShutdownClient
  <2>. QED
    BY <1>4, <1>7, <2>1 DEF Step, Read, ReadNothing, Update, Logon, NoLogon
<1>8. ASSUME NEW c \in Clients, AskDisconnect(c) \/ Disconnect(c) \/ SendFails(c)
      PROVE  TodoInv'
  BY <1>3, <1>8 DEF AskDisconnect, Disconnect, SendFails
<1>9. CASE UNCHANGED vars
  BY <1>3, <1>9 DEF vars
<1>. QED
  BY <1>5, <1>6, <1>7, <1>8, <1>9 DEF Next, Turn

-----------------------------------------------------------------------------
(* The clients that have not been asked about.                             *)

LEMMA AcceptLogon ==
  ASSUME IInv, NEW reverse \in BOOLEAN, Accept(reverse),
         phase' \in {"read", "reap"} \/ (phase' = "idle" /\ phase = "idle")
  PROVE  LogonInv'
<1>1. PICK c \in Free : NewClient(c, reverse)
  BY DEF Accept
<1>2. c \in Clients /\ c \notin Listed /\ Listed' = Listed \cup {c} /\ Listed \subseteq Clients
  BY <1>1, Linked, ToSetTyped DEF Free, IInv, NewClient, TypeOK, Listed
<1>3. /\ IsInjective(paLogonClients')
      /\ \A d \in Clients \ {c} : logons'[d] = logons[d]
      /\ ToSet(paLogonClients') = ToSet(paLogonClients) \cup (IF logons'[c] = "waits" THEN {c} ELSE {})
      /\ logons'[c] # "twice"
  BY <1>1, ListedForLogon DEF IInv, NewClient
<1>4. state' = [state EXCEPT ![c] = "PROTOCOL_VERSION"]
  BY <1>1, Zenon DEF NewClient
<1>5. \A d \in Clients : LoggedIn(d)' => d # c /\ LoggedIn(d)
  BY <1>2, <1>4 DEF LoggedIn, IInv, TypeOK
<1>6. c \notin ToSet(paLogonClients)
  BY <1>2 DEF IInv, LogonInv
<1>7. ToSet(paLogonClients') \subseteq Listed' /\ \A d \in Clients : logons'[d] # "twice"
  BY <1>2, <1>3 DEF IInv, LogonInv
<1>8. \A d \in Listed' : logons'[d] = "waits" <=> d \in ToSet(paLogonClients')
  BY <1>2, <1>3, <1>6 DEF IInv, LogonInv
<1>9. \A d \in ToSet(paLogonClients') : LoggedIn(d)' => phase' \notin {"idle", "exit", "logon"}
  BY <1>2, <1>3, <1>5, <1>7 DEF IInv, LogonInv
<1>. QED
  BY <1>3, <1>7, <1>8, <1>9 DEF LogonInv

LEMMA GoneLogon ==
  ASSUME IInv, NEW c \in Listed, phase \in {"reap", "exit"}, phase' = phase, ConnectionGone(c)
  PROVE  LogonInv'
<1>1. /\ c \in Clients /\ Listed \subseteq Clients /\ Listed' = Listed \ {c}
      /\ IsInjective(paLogonClients')
      /\ ToSet(paLogonClients') = ToSet(paLogonClients) \ {c}
  BY Gone, ToSetTyped DEF IInv, TypeOK, Listed
<1>2. logons' = logons /\ state' = [state EXCEPT ![c] = "none"]
  BY Zenon DEF ConnectionGone, ClientGone
<1>3. \A d \in Clients : LoggedIn(d)' => LoggedIn(d)
  BY <1>1, <1>2 DEF LoggedIn, IInv, TypeOK
<1>. QED
  BY <1>1, <1>2, <1>3 DEF IInv, LogonInv

\* Every step keeps the list of those that have not been asked about.
LEMMA LogonStep ==
  ASSUME IInv, [Next]_vars
  PROVE  LogonInv'
<1>. USE DEF clVars, logonVars, loopVars
<1>. DEFINE Kept == UNCHANGED <<clientHead, paLogonClients, logons>>
<1>0. Listed \subseteq Clients /\ ToSet(paLogonClients) \subseteq Clients
  BY ToSetTyped DEF IInv, TypeOK, Listed
<1>1. ASSUME Kept, state' = state,
             phase' \in {"idle", "exit"} =>
               \/ phase \in {"idle", "exit"} \/ paLogonClients = <<>>
               \/ (phase = "logon" /\ todo = <<>>),
             phase' = "logon" => todo' = clientHead \/ (phase = "logon" /\ todo' = todo)
      PROVE  LogonInv'
  <2>1. /\ paLogonClients = <<>> => ToSet(paLogonClients) = {}
        /\ todo = <<>> => ToSet(todo) = {}
    BY ToSetTyped DEF IInv, TypeOK
  <2>. QED
    BY <1>1, <2>1 DEF IInv, LogonInv, Listed, LoggedIn
<1>2. ASSUME phase' \in {"read", "reap"}, Accept(FALSE) \/ UNCHANGED <<clVars, logonVars>>
      PROVE  LogonInv'
  <2>1. CASE Accept(FALSE)
    <3>1. PICK reverse \in BOOLEAN : Accept(reverse)
      BY <2>1, Zenon
    <3>2. phase' \in {"read", "reap"} \/ (phase' = "idle" /\ phase = "idle")
      BY <1>2
    <3>. QED BY <3>1, <3>2, AcceptLogon, Zenon
  <2>2. CASE UNCHANGED <<clVars, logonVars>>
    BY <1>1, <1>2, <2>2
  <2>. QED BY <1>2, <2>1, <2>2
<1>3. CASE Round \/ BeginReap
  BY <1>2, <1>3 DEF Round, BeginReap, ProxyConnection
<1>4. CASE BeginLogon
  BY <1>1, <1>4 DEF BeginLogon
<1>5. CASE EndRound
  BY <1>1, <1>5 DEF EndRound
<1>6. CASE Attach
  <2>1. CASE Accept(TRUE)
    <3>1. PICK reverse \in BOOLEAN : Accept(reverse)
      BY <2>1, Zenon
    <3>. QED BY <1>6, <3>1, AcceptLogon DEF Attach
  <2>. QED BY <1>1, <1>6, <2>1 DEF Attach
<1>7. CASE Reconfigure \/ Exit
  BY <1>1, <1>7 DEF Reconfigure, Exit
<1>8. ASSUME NEW c \in Clients, Read(c)
      PROVE  LogonInv'
  <2>1. phase' = "read" /\ Kept
    BY <1>8, ReadEffect DEF Read
  <2>. QED BY <2>1 DEF IInv, LogonInv, Listed
<1>9. ASSUME NEW c \in Clients, ReadNothing(c) \/ Update(c)
      PROVE  LogonInv'
  BY <1>1, <1>9 DEF ReadNothing, Update
<1>10. ASSUME NEW c \in Clients, Reap(c) \/ ShutdownClient(c)
       PROVE  LogonInv'
  <2>1. c \in Listed
    BY <1>10, VisitNext DEF Reap, ShutdownClient, IInv, TodoInv
  <2>. QED BY <1>10, <2>1, GoneLogon DEF Reap, ShutdownClient
<1>11. ASSUME NEW c \in Clients, Logon(c)
       PROVE  LogonInv'
  <2>1. /\ phase = "logon" /\ phase' = phase /\ state' = state /\ clientHead' = clientHead
        /\ c \in ToSet(paLogonClients)
        /\ logons' = [logons EXCEPT ![c] = IF @ = "waits" THEN "once" ELSE "twice"]
    BY <1>11 DEF Logon
  <2>2. IsInjective(paLogonClients') /\ ToSet(paLogonClients') = ToSet(paLogonClients) \ {c}
    BY <1>11, UnlistedSet DEF Logon, IInv, TypeOK, LogonInv
  <2>3. ToSet(todo) = {c} \cup ToSet(todo')
    BY <1>11, VisitNext DEF Logon, IInv
  <2>4. logons[c] = "waits"
    BY <2>1 DEF IInv, LogonInv
  <2>5. /\ logons'[c] = "once" /\ \A d \in Clients \ {c} : logons'[d] = logons[d]
    BY <1>11, <2>1, <2>4 DEF IInv, TypeOK
  <2>. QED
    BY <1>0, <2>1, <2>2, <2>3, <2>5 DEF IInv, LogonInv, Listed, LoggedIn
<1>12. ASSUME NEW c \in Clients, NoLogon(c)
       PROVE  LogonInv'
  <2>1. ToSet(todo) = {c} \cup ToSet(todo') /\ phase = "logon"
    BY <1>12, VisitNext DEF NoLogon, IInv
  <2>. QED
    BY <1>12, <2>1 DEF NoLogon, IInv, LogonInv, Listed, LoggedIn
<1>13. ASSUME NEW c \in Clients, AskDisconnect(c) \/ Disconnect(c) \/ SendFails(c)
       PROVE  LogonInv'
  BY <1>1, <1>13 DEF AskDisconnect, Disconnect, SendFails
<1>14. CASE UNCHANGED vars
  BY <1>1, <1>14 DEF vars
<1>. QED
  BY <1>3, <1>4, <1>5, <1>6, <1>7, <1>8, <1>9, <1>10, <1>11, <1>12, <1>13, <1>14
  DEF Next, Turn, Step

-----------------------------------------------------------------------------
(* The clients that came under this configuration.                         *)

\* Under neverShared an incoming viewer that enters is closed, or closes the
\* others, or is alone.
LEMMA EnteredSole ==
  ASSUME IInv, NEW c \in Listed, NEW shared \in BOOLEAN, EnterNormal(c, shared),
         UNCHANGED <<reverseConnection, clientHead, config>>
  PROVE  NewestInv'
<1>1. c \in Clients /\ Listed \subseteq Clients /\ WatchedOpen
  BY ToSetTyped DEF IInv, TypeOK, Listed, BooksInv
<1>2. /\ state' = [state EXCEPT ![c] = "NORMAL"] /\ newest' = newest \cup {c}
      /\ \A d \in Clients : open'[d] => open[d]
  BY <1>1, Entered DEF IInv
<1>3. \A d \in newest' : d \in Listed' /\ state'[d] = "NORMAL"
  BY <1>1, <1>2 DEF IInv, NewestInv, TypeOK, Listed
<1>4. ASSUME config.neverShared, NEW d \in newest' \ {c}, open'[c], open'[d],
             ~reverseConnection[c]
      PROVE  FALSE
  <2>1. d \in Others(c)
    BY <1>2, <1>4 DEF Others, IInv, NewestInv
  <2>2. Exclusive(c, shared)
    BY <1>4 DEF Exclusive
  <2>3. Close({c}) \/ Close(Others(c))
    BY <2>1, <2>2, Zenon DEF EnterNormal
  <2>. QED BY <1>1, <1>4, <2>1, <2>3 DEF Close, Others
<1>5. SoleClient'
  BY <1>1, <1>2, <1>4 DEF SoleClient, IInv, NewestInv, TypeOK
<1>. QED
  BY <1>3, <1>5 DEF NewestInv

\* Every step keeps the configuration's promise.
LEMMA NewestStep ==
  ASSUME IInv, [Next]_vars
  PROVE  NewestInv'
<1>. USE DEF clVars, screenVars
<1>0. Listed \subseteq Clients /\ newest \subseteq Clients
  BY ToSetTyped DEF IInv, TypeOK, Listed
<1>1. ASSUME config' = config, newest' \subseteq newest,
             \A d \in newest' : /\ d \in Listed' /\ state'[d] = state[d]
                                /\ open'[d] => open[d]
                                /\ reverseConnection'[d] = reverseConnection[d]
      PROVE  NewestInv'
  BY <1>1 DEF IInv, NewestInv, SoleClient
<1>2. ASSUME NEW reverse \in BOOLEAN, Accept(reverse), UNCHANGED <<config, newest>>
      PROVE  NewestInv'
  <2>1. PICK c \in Free : NewClient(c, reverse)
    BY <1>2 DEF Accept
  <2>2. Listed' = Listed \cup {c}
    BY <2>1, Linked DEF NewClient, IInv
  <2>3. \A d \in Listed : state'[d] = state[d] /\ open'[d] = open[d]
                          /\ reverseConnection'[d] = reverseConnection[d]
    BY <1>0, <2>1 DEF NewClient, Free, IInv, TypeOK
  <2>. QED BY <1>1, <1>2, <2>2, <2>3 DEF IInv, NewestInv
<1>3. ASSUME UNCHANGED <<clVars, config, newest>>
      PROVE  NewestInv'
  BY <1>1, <1>3 DEF IInv, NewestInv, Listed
<1>4. ASSUME NEW S, Close(S), UNCHANGED <<state, reverseConnection, clientHead, config, newest>>
      PROVE  NewestInv'
  BY <1>0, <1>1, <1>4 DEF Close, IInv, NewestInv, Listed
<1>5. CASE Round \/ BeginReap \/ Attach
  BY <1>2, <1>3, <1>5, Zenon DEF Round, BeginReap, ProxyConnection, Attach
<1>6. CASE BeginLogon \/ EndRound \/ Exit
  BY <1>3, <1>6 DEF BeginLogon, EndRound, Exit
<1>7. CASE Reconfigure
  BY <1>7 DEF Reconfigure, NewestInv, SoleClient
<1>8. ASSUME NEW c \in Clients, Read(c)
      PROVE  NewestInv'
  <2>1. c \in Listed /\ UNCHANGED <<reverseConnection, clientHead, config>>
        /\ \A d \in Clients : open'[d] => open[d]
    BY <1>8, ReadEffect
  <2>2. CASE \E shared \in BOOLEAN : EnterNormal(c, shared)
    BY <2>1, <2>2, EnteredSole
  <2>3. CASE ReadFails(c)
    BY <1>4, <2>1, <2>3 DEF ReadFails
  <2>4. CASE /\ state[c] # "NORMAL" /\ newest' = newest
             /\ \A d \in Clients \ {c} : state'[d] = state[d]
    BY <1>0, <1>1, <2>1, <2>4 DEF IInv, NewestInv, Listed
  <2>5. \A d \in Clients \ {c} : state'[d] = state[d]
    BY <1>8, ReadEffect
  <2>6. CASE ProtocolVersion(c) \/ Authentication(c)
    BY <2>4, <2>5, <2>6 DEF ProtocolVersion, Authentication
  <2>7. CASE SecurityType(c)
    <3>1. EnterNormal(c, TRUE) \/ (newest' = newest /\ state[c] # "NORMAL")
      BY <2>7, Zenon DEF SecurityType
    <3>. QED BY <2>2, <2>4, <2>5, <3>1
  <2>8. CASE Initialisation(c)
    BY <2>2, <2>8, Zenon DEF Initialisation, InitMessage
  <2>. QED
    BY <1>8, <2>3, <2>6, <2>7, <2>8 DEF Read
<1>9. ASSUME NEW c \in Clients, ReadNothing(c) \/ Update(c) \/ NoLogon(c) \/ AskDisconnect(c)
      PROVE  NewestInv'
  BY <1>3, <1>9 DEF ReadNothing, Update, NoLogon, AskDisconnect
<1>10. ASSUME NEW c \in Clients, Reap(c) \/ ShutdownClient(c)
       PROVE  NewestInv'
  <2>1. c \in Listed /\ ConnectionGone(c)
    BY <1>10, VisitNext DEF Reap, ShutdownClient, IInv, TodoInv
  <2>2. Listed' = Listed \ {c} /\ newest' = newest \ {c} /\ config' = config
    BY <1>10, <2>1, Gone DEF ConnectionGone, IInv, Reap, ShutdownClient
  <2>. QED
    BY <1>0, <1>1, <2>1, <2>2 DEF ConnectionGone, IInv, TypeOK, NewestInv
<1>11. ASSUME NEW c \in Clients, Logon(c) \/ Disconnect(c) \/ SendFails(c)
       PROVE  NewestInv'
  BY <1>4, <1>11, Zenon DEF Logon, Disconnect, SendFails
<1>12. CASE UNCHANGED vars
  BY <1>3, <1>12 DEF vars
<1>. QED
  BY <1>5, <1>6, <1>7, <1>8, <1>9, <1>10, <1>11, <1>12 DEF Next, Turn, Step

-----------------------------------------------------------------------------
(* The invariant, and what follows from it.                                *)

LEMMA InvInit == Init => IInv
<1>. SUFFICES ASSUME Init PROVE IInv
  OBVIOUS
<1>1. TypeOK
  <2>1. /\ clientHead \in Seq(Clients) /\ todo \in Seq(Clients)
        /\ paLogonClients \in Seq(Clients) /\ Len(paLogonClients) <= ulMaxLogonClients
    BY DEF Init
  <2>2. /\ open \in [Clients -> BOOLEAN] /\ reverseConnection \in [Clients -> BOOLEAN]
        /\ hooks \in BOOLEAN /\ listening \in BOOLEAN
    BY FlagsAssumption DEF Init
  <2>. QED BY <2>1, <2>2 DEF Init, TypeOK, States, SecTypes, NoType
<1>2. Listed = {} /\ ToSet(paLogonClients) = {} /\ ToSet(todo) = {}
  BY DEF Init, Listed, ToSet
<1>3. IsInjective(<<>>)
  BY DEF IsInjective
<1>4. BooksInv
  BY <1>2, <1>3 DEF Init, BooksInv, HooksForClients, WatchedOpen, Free
<1>5. TodoInv /\ LogonInv
  BY <1>2, <1>3 DEF Init, TodoInv, LogonInv
<1>6. NewestInv
  BY DEF Init, NewestInv, SoleClient
<1>. QED
  BY <1>1, <1>4, <1>5, <1>6 DEF IInv

\* In every reachable state the books of both threads, the clients that are let go,
\* the logons still to be asked about and the newest clients agree.
THEOREM Invariant == Spec => []IInv
<1>1. IInv /\ [Next]_vars => IInv'
  BY TypeStep, BooksStep, TodoStep, LogonStep, NewestStep DEF IInv
<1>. QED
  BY <1>1, InvInit, PTL DEF Spec

\* The variables keep their types: the list of clients to log in never
\* outgrows its room, whether memory fails or not.
THEOREM TypeCorrect == Spec => []TypeOK
<1>1. IInv => TypeOK
  BY DEF IInv
<1>. QED
  BY <1>1, Invariant, PTL

\* Hooks, list of logons and watched sockets agree with the list of clients.
THEOREM BooksKept == Spec => []Books
<1>1. IInv => Books
  BY DEF IInv, BooksInv, LogonInv, Books, LogonListLive
<1>. QED
  BY <1>1, Invariant, PTL

\* The OnLogon program is asked about each client once, in the round in which it
\* is authenticated.
THEOREM AskedOnce == Spec => []LogonAsked
<1>1. IInv => LogonAsked
  BY ToSetTyped DEF IInv, LogonInv, LogonAsked, LoggedIn, TypeOK, Listed
<1>. QED
  BY <1>1, Invariant, PTL

\* Under "never shared" one viewer is connected.
THEOREM OneClient == Spec => []SoleClient
<1>1. IInv => SoleClient
  BY DEF IInv, NewestInv
<1>. QED
  BY <1>1, Invariant, PTL

-----------------------------------------------------------------------------
(* ScreenUpdate: the operators.                                            *)

LEMMA BetweenPixels == \A x1, y1, x2, y2 : Between(x1, y1, x2, y2) \subseteq Pixels
  BY DEF Between

\* rfbsUpdateScreen marks every pixel it has copied.
LEMMA MarkedCopied == \A r \in Damaged : Copied(r) \subseteq Marked(r)
<1>1. SUFFICES ASSUME NEW r \in Damaged, NEW p \in Pixels, p \in Copied(r)
               PROVE  p \in Marked(r)
  BY DEF Copied, Between
<1>2. r.yt \in Int /\ r.yb \in Int /\ H \in Int
  BY ScreenAssumption DEF Rectangles
<1>3. p[2] \in Int /\ 0 <= p[2] /\ H - r.yt <= p[2]
  BY <1>1, <1>2 DEF Copied, Between, Pixels
<1>4. AtLeast(H - r.yt - 1, 0) <= p[2]
  BY <1>2, <1>3 DEF AtLeast
<1>. QED
  BY <1>1, <1>4 DEF Copied, Marked, Between

\* What is sent instead of many rectangles holds them all.
LEMMA InBox == \A S \in SUBSET Pixels : S \subseteq BBox(S)
  BY ScreenAssumption DEF BBox, Pixels

\* What is modified somewhere has a top.
LEMMA TopExists ==
  ASSUME NEW S \in SUBSET Pixels, S # {}
  PROVE  TopOf(S) \in 0..H-1
<1>. DEFINE Rows == {q[2] : q \in S}
<1>1. Rows \subseteq Nat /\ Rows # {} /\ \A q \in S : q[2] \in 0..H-1
  BY ScreenAssumption DEF Pixels
<1>2. PICK y \in Rows : \A z \in Rows : ~ (<<z, y>> \in OpToRel(<, Nat))
  BY <1>1, NatLessThanWellFounded, WFMin
<1>3. OpToRel(<, Nat) = {ss \in Nat \X Nat : ss[1] < ss[2]}
  BY Zenon DEF OpToRel
<1>4. \A z \in Rows : ~ (z < y)
  BY <1>1, <1>2, <1>3
<1>5. \A z \in Rows : z \in Nat /\ y \in Nat /\ y <= z
  BY <1>1, <1>4
<1>6. y \in 0..H-1 /\ (\E q \in S : q[2] = y) /\ \A q \in S : y <= q[2]
  BY <1>1, <1>5
<1>. QED
  BY <1>6 DEF TopOf

-----------------------------------------------------------------------------
(* Types.                                                                  *)

LEMMA SliceTyped ==
  ASSUME ScreenTypeOK, NEW k \in Client
  PROVE  /\ SliceStart(k) \in 0..H-1
         /\ NextSlice(k) \in 0..H-1
<1>1. slice \in Nat /\ H \in Nat \ {0}
  BY ScreenAssumption DEF ScreenTypeOK
<1>2. k.y \in 0..H-1 /\ k.modified \in SUBSET Pixels
  BY DEF Client
<1>3. SliceStart(k) \in 0..H-1
  BY <1>2, TopExists DEF SliceStart
<1>. QED
  BY <1>1, <1>2, <1>3 DEF NextSlice

LEMMA UpdateTyped ==
  ASSUME NEW k \in Client
  PROVE  /\ InSlice(k) \subseteq k.modified
         /\ CursorTrack(k) \subseteq Pixels /\ CursorMoves(k) \subseteq Pixels
         /\ UpdateRegion(k) \subseteq Pixels /\ BBox(UpdateRegion(k)) \subseteq Pixels
<1>1. k.modified \subseteq Pixels
  BY DEF Client
<1>2. InSlice(k) \subseteq k.modified
  BY DEF InSlice
<1>3. CursorTrack(k) \subseteq Pixels /\ CursorMoves(k) \subseteq Pixels
  BY BetweenPixels DEF CursorTrack, CursorMoves, CursorRect, Drawn
<1>. QED
  BY <1>1, <1>2, <1>3 DEF UpdateRegion, BBox

LEMMA ScreenTypeInit == ScreenInit => ScreenTypeOK
<1>1. SUFFICES ASSUME ScreenInit PROVE ScreenTypeOK
  OBVIOUS
<1>2. NoClient \in Client
  BY <1>1, ScreenAssumption DEF ScreenInit, NoClient, Client
<1>. QED
  BY <1>1, <1>2 DEF ScreenInit, ScreenTypeOK

\* Every answer is a record of a client.
LEMMA AnswersTyped ==
  ASSUME ScreenTypeOK, NEW k \in Client, NEW a \in Answers(k)
  PROVE  a \in Client
<1>1. CASE a = SendSize(k)
  BY <1>1 DEF SendSize, Client
<1>2. CASE a = [k EXCEPT !.y = NextSlice(k)]
  BY <1>2, SliceTyped DEF Client
<1>3. ASSUME NEW sent \in SUBSET Pixels, a = SendRegion(k, sent)
      PROVE  a \in Client
  <2>. DEFINE modified == k.modified \ (InSlice(k) \intersect k.requested)
              cur      == IF k.shape THEN k.cur ELSE pos
              changed  == k.changed /\ ~k.shape
              moved    == k.moved /\ ~k.follow
              lag      == k.lag \ sent
              scars    == (k.scars \union CursorMoves(k)) \ sent
              oldShape == k.oldShape /\ ~(k.shape /\ k.changed)
              oldPos   == k.oldPos /\ ~(k.follow /\ k.moved)
  <2>1. /\ modified \in SUBSET Pixels /\ lag \in SUBSET Pixels /\ scars \in SUBSET Pixels
        /\ cur \in Positions
        /\ changed \in BOOLEAN /\ moved \in BOOLEAN
        /\ oldShape \in BOOLEAN /\ oldPos \in BOOLEAN
    BY UpdateTyped DEF Client, ScreenTypeOK
  <2>2. a = [k EXCEPT !.modified = modified, !.requested = {}, !.y = NextSlice(k), !.cur = cur,
                      !.changed = changed, !.moved = moved, !.lag = lag,
                      !.scars = scars, !.oldShape = oldShape, !.oldPos = oldPos]
    BY <1>3, Zenon DEF SendRegion
  <2>3. NextSlice(k) \in 0..H-1
    BY SliceTyped
  <2>. HIDE DEF modified, cur, changed, moved, lag, scars, oldShape, oldPos
  <2>4. [k EXCEPT !.modified = modified, !.requested = {}, !.y = NextSlice(k), !.cur = cur]
          \in Client
    BY <2>1, <2>3 DEF Client
  <2>5. ASSUME NEW m \in Client
        PROVE  [m EXCEPT !.changed = changed, !.moved = moved, !.lag = lag] \in Client
    BY <2>1 DEF Client
  <2>6. ASSUME NEW m \in Client
        PROVE  [m EXCEPT !.scars = scars, !.oldShape = oldShape, !.oldPos = oldPos] \in Client
    BY <2>1 DEF Client
  <2>. QED
    BY <2>2, <2>4, <2>5, <2>6, Zenon
<1>. QED
  BY <1>1, <1>2, <1>3, UpdateTyped DEF Answers

-----------------------------------------------------------------------------
(* What a step makes of one client's record.                               *)

Opened(p) == [NoClient EXCEPT !.open = TRUE, !.cur = p, !.modified = Pixels, !.lag = Pixels,
                              !.oldShape = TRUE, !.oldPos = TRUE]
Damage(k, r) == [k EXCEPT !.modified = @ \union Marked(r), !.lag = @ \union Copied(r)]
Deferred(k)  == [k EXCEPT !.deferring = TRUE]
Resized(k)   == [k EXCEPT !.size = TRUE]
Sent(k)      == [k EXCEPT !.deferring = @ /\ ~defer]

Becomes(k, m) ==
  \/ m = k
  \/ m = NoClient
  \/ m = Opened(pos)
  \/ \E r \in Damaged : m = Damage(k, r)
  \/ m = NewPosition(k)
  \/ \E i \in Images : m = NewCursor(k, i) \/ m = NewPosition(NewCursor(k, i))
  \/ \E area \in SUBSET Pixels, incremental \in BOOLEAN : m = Request(k, area, incremental)
  \/ m = Resized(k)
  \/ \E shape, follow, ext \in BOOLEAN :
       (k.shape /\ ~TurnOff => shape) /\ m = Encodings(k, shape, follow, ext)
  \/ m = Deferred(k)
  \/ \E a \in Answers(k) : m = Sent(a)

LEMMA StepBecomes ==
  ASSUME ScreenTypeOK, [ScreenNext]_viewVars
  PROVE  /\ cl' = [c \in Viewers |-> cl'[c]]
         /\ \A c \in Viewers : Becomes(cl[c], cl'[c])
<1>. DEFINE Goal == /\ cl' = [c \in Viewers |-> cl'[c]]
                    /\ \A c \in Viewers : Becomes(cl[c], cl'[c])
<1>. cl = [d \in Viewers |-> cl[d]]
  BY DEF ScreenTypeOK
<1>1. CASE UNCHANGED viewVars
  BY <1>1 DEF viewVars, Becomes
<1>2. CASE UpdateScreen
  BY <1>2 DEF UpdateScreen, Becomes, Damage
<1>3. CASE SetMouse
  BY <1>3 DEF SetMouse, Becomes
<1>4. CASE SetServer
  BY <1>4 DEF SetServer, Becomes
<1>5. ASSUME NEW d \in Viewers, Connect(d)
      PROVE  Goal
  BY <1>5 DEF Connect, Becomes, Opened
<1>6. ASSUME NEW d \in Viewers, Leave(d)
      PROVE  Goal
  BY <1>6 DEF Leave, Becomes
<1>7. ASSUME NEW d \in Viewers, AskMore(d) \/ AskPart(d)
      PROVE  Goal
  <2>1. \E area \in SUBSET Pixels, incremental \in BOOLEAN : Ask(d, area, incremental)
    BY <1>7, ScreenAssumption DEF AskMore, AskPart
  <2>. QED
    BY <2>1 DEF Ask, Becomes
<1>8. ASSUME NEW d \in Viewers, SetDesktopSize(d)
      PROVE  Goal
  BY <1>8 DEF SetDesktopSize, Becomes, Resized
<1>9. ASSUME NEW d \in Viewers, SetEncodings(d)
      PROVE  Goal
  BY <1>9 DEF SetEncodings, Becomes
<1>10. ASSUME NEW d \in Viewers, StartDeferring(d)
       PROVE  Goal
  BY <1>10 DEF StartDeferring, Becomes, Deferred
<1>11. ASSUME NEW d \in Viewers, SendFramebufferUpdate(d)
       PROVE  Goal
  BY <1>11 DEF SendFramebufferUpdate, Becomes, Sent
<1>. QED
  BY <1>1, <1>2, <1>3, <1>4, <1>5, <1>6, <1>7, <1>8, <1>9, <1>10, <1>11
  DEF ScreenNext, UpdateClient

LEMMA ScreenTypeStep ==
  ASSUME ScreenTypeOK, [ScreenNext]_viewVars
  PROVE  ScreenTypeOK'
<1>1. image' \in Images /\ pos' \in Positions /\ slice' \in Slices /\ defer' \in Defers
  BY DEF ScreenTypeOK, viewVars, screen, ScreenNext, UpdateScreen, SetMouse, SetServer, Connect, Leave,
         AskMore, AskPart, Ask, SetDesktopSize, SetEncodings, UpdateClient,
         StartDeferring, SendFramebufferUpdate
<1>2. ASSUME NEW k \in Client, NEW m, Becomes(k, m)
      PROVE  m \in Client
  <2>1. NoClient \in Client /\ \A p \in Positions : Opened(p) \in Client
    <3>1. NoClient \in Client
      BY ScreenAssumption DEF NoClient, Client, ScreenTypeOK
    <3>. QED
      BY <3>1 DEF Opened, Client
  <2>2. \A r \in Damaged : Damage(k, r) \in Client
    BY BetweenPixels DEF Damage, Marked, Copied, Client
  <2>3. \A j \in Client : NewPosition(j) \in Client
    BY DEF NewPosition, Client
  <2>4. \A i \in Images : NewCursor(k, i) \in Client
    BY BetweenPixels, ZenonT(30) DEF NewCursor, CursorRect, Drawn, Client
  <2>5. \A area \in SUBSET Pixels, incremental \in BOOLEAN : Request(k, area, incremental) \in Client
    BY ZenonT(30) DEF Request, Client
  <2>6. \A shape, follow, ext \in BOOLEAN : Encodings(k, shape, follow, ext) \in Client
    <3>1. SUFFICES ASSUME NEW shape \in BOOLEAN, NEW follow \in BOOLEAN, NEW ext \in BOOLEAN
                   PROVE  Encodings(k, shape, follow, ext) \in Client
      OBVIOUS
    <3>. DEFINE moved    == k.moved \/ follow
                modified == IF shape THEN k.modified \union CursorRect(k.cur, image)
                            ELSE k.modified
                scars    == IF shape = k.shape THEN k.scars
                            ELSE k.scars \union Drawn(k.cur, image)
    <3>2. moved \in BOOLEAN /\ modified \in SUBSET Pixels /\ scars \in SUBSET Pixels
      BY BetweenPixels DEF CursorRect, Drawn, Client
    <3>3. Encodings(k, shape, follow, ext) =
            [k EXCEPT !.shape = shape, !.follow = shape /\ follow, !.ext = ext,
                      !.changed = shape, !.moved = moved, !.modified = modified,
                      !.scars = scars]
      BY Zenon DEF Encodings
    <3>. HIDE DEF moved, modified, scars
    <3>. QED
      BY <3>2, <3>3, ZenonT(30) DEF Client
  <2>7. Resized(k) \in Client /\ Deferred(k) \in Client
    BY DEF Resized, Deferred, Client
  <2>8. \A a \in Answers(k) : Sent(a) \in Client
    <3>1. \A a \in Client : Sent(a) \in Client
      BY DEF Sent, Client
    <3>. QED
      BY <3>1, AnswersTyped
  <2>. QED
    BY <1>2, <2>1, <2>2, <2>3, <2>4, <2>5, <2>6, <2>7, <2>8 DEF Becomes, ScreenTypeOK
<1>3. \A c \in Viewers : cl[c] \in Client /\ Becomes(cl[c], cl'[c])
  BY StepBecomes DEF ScreenTypeOK
<1>4. cl' \in [Viewers -> Client]
  <2>1. \A c \in Viewers : cl'[c] \in Client
    BY <1>2, <1>3
  <2>. QED
    BY <2>1, StepBecomes
<1>. QED
  BY <1>1, <1>4 DEF ScreenTypeOK

\* Every reachable state is well typed.
THEOREM ScreenTypeCorrect == ScreenSpec => []ScreenTypeOK
  BY ScreenTypeInit, ScreenTypeStep, PTL DEF ScreenSpec

-----------------------------------------------------------------------------
(* Pixels.                                                                 *)

Covered(k) == k.lag \subseteq k.modified

LEMMA PixelsStep ==
  ASSUME ScreenTypeOK, [ScreenNext]_viewVars, PixelsCovered
  PROVE  PixelsCovered'
<1>1. ASSUME NEW k \in Client, Covered(k), NEW m, Becomes(k, m)
      PROVE  Covered(m)
  <2>. USE <1>1 DEF Covered, Client
  <2>1. Covered(NoClient) /\ Covered(Opened(pos))
    BY DEF NoClient, Opened
  <2>2. \A r \in Damaged : Covered(Damage(k, r))
    BY MarkedCopied DEF Damage
  <2>3. \A i \in Images : Covered(NewCursor(k, i))
    BY DEF NewCursor
  <2>4. \A j \in Client : Covered(j) => Covered(NewPosition(j))
    BY DEF NewPosition
  <2>5. \A i \in Images : Covered(NewPosition(NewCursor(k, i)))
    BY DEF NewPosition, NewCursor
  <2>6. \A area \in SUBSET Pixels, incremental \in BOOLEAN : Covered(Request(k, area, incremental))
    BY DEF Request
  <2>7. \A shape, follow, ext \in BOOLEAN : Covered(Encodings(k, shape, follow, ext))
    BY DEF Encodings
  <2>8. Covered(Resized(k)) /\ Covered(Deferred(k))
    BY DEF Resized, Deferred
  <2>9. \A a \in Answers(k) : Covered(Sent(a))
    <3>1. Covered(SendSize(k)) /\ Covered([k EXCEPT !.y = NextSlice(k)])
      BY DEF SendSize
    <3>2. ASSUME NEW sent \in SUBSET Pixels, UpdateRegion(k) \subseteq sent
          PROVE  Covered(SendRegion(k, sent))
      BY <3>2 DEF SendRegion, UpdateRegion
    <3>3. \A a \in Answers(k) : Covered(a)
      BY <3>1, <3>2, UpdateTyped, InBox DEF Answers
    <3>4. \A a \in Client : Covered(a) => Covered(Sent(a))
      BY DEF Sent
    <3>. QED
      BY <3>3, <3>4, AnswersTyped
  <2>. QED
    BY <2>1, <2>2, <2>3, <2>4, <2>5, <2>6, <2>7, <2>8, <2>9 DEF Becomes
<1>. QED
  BY <1>1, StepBecomes DEF PixelsCovered, Covered, ScreenTypeOK

\* No change of the screen is lost, for any desktop, any rectangles of the hook
\* and any requests and configurations.
THEOREM PixelsAlwaysCovered == ScreenSpec => []PixelsCovered
<1>1. ScreenInit => PixelsCovered
  BY DEF ScreenInit, PixelsCovered, NoClient
<1>2. ScreenTypeOK /\ PixelsCovered /\ [ScreenNext]_viewVars => PixelsCovered'
  BY PixelsStep
<1>. QED
  BY <1>1, <1>2, ScreenTypeCorrect, PTL DEF ScreenSpec

-----------------------------------------------------------------------------
(* The pointer that a client draws.                                        *)

Known(k) == /\ k.shape /\ k.oldShape => k.changed
            /\ k.follow /\ k.oldPos => k.moved

LEMMA KnownStep ==
  ASSUME ScreenTypeOK, [ScreenNext]_viewVars, CursorKnown
  PROVE  CursorKnown'
<1>1. ASSUME NEW k \in Client, Known(k), NEW m, Becomes(k, m)
      PROVE  Known(m)
  <2>. USE <1>1 DEF Known, Client
  <2>1. Known(NoClient) /\ Known(Opened(pos))
    BY DEF NoClient, Opened
  <2>2. \A r \in Damaged : Known(Damage(k, r))
    BY DEF Damage
  <2>3. \A i \in Images : Known(NewCursor(k, i)) /\ Known(NewPosition(NewCursor(k, i)))
    BY DEF NewCursor, NewPosition
  <2>4. Known(NewPosition(k))
    BY DEF NewPosition
  <2>5. \A area \in SUBSET Pixels, incremental \in BOOLEAN : Known(Request(k, area, incremental))
    BY DEF Request
  <2>6. \A shape, follow, ext \in BOOLEAN : Known(Encodings(k, shape, follow, ext))
    BY DEF Encodings
  <2>7. Known(Resized(k)) /\ Known(Deferred(k))
    BY DEF Resized, Deferred
  <2>8. \A a \in Answers(k) : Known(Sent(a))
    <3>1. Known(SendSize(k)) /\ Known([k EXCEPT !.y = NextSlice(k)])
      BY DEF SendSize
    <3>2. \A sent \in SUBSET Pixels : Known(SendRegion(k, sent))
      BY DEF SendRegion
    <3>3. \A a \in Answers(k) : Known(a)
      BY <3>1, <3>2, UpdateTyped DEF Answers
    <3>4. \A a \in Client : Known(a) => Known(Sent(a))
      BY DEF Sent
    <3>. QED
      BY <3>3, <3>4, AnswersTyped
  <2>. QED
    BY <2>1, <2>2, <2>3, <2>4, <2>5, <2>6, <2>7, <2>8 DEF Becomes
<1>. QED
  BY <1>1, StepBecomes DEF CursorKnown, Known, ScreenTypeOK

\* A client that draws the pointer itself is told its image and its place.
THEOREM CursorAlwaysKnown == ScreenSpec => []CursorKnown
<1>1. ScreenInit => CursorKnown
  BY DEF ScreenInit, CursorKnown, NoClient
<1>2. ScreenTypeOK /\ CursorKnown /\ [ScreenNext]_viewVars => CursorKnown'
  BY KnownStep
<1>. QED
  BY <1>1, <1>2, ScreenTypeCorrect, PTL DEF ScreenSpec

-----------------------------------------------------------------------------
(* The pointer that the server draws.                                      *)

SameBox == \A i, j \in Images : Box[i] = Box[j]

\* A pixel with another pointer in it is modified, wherever the pointer is.
Healing(k) == k.scars \subseteq k.modified
ScarsModified == \A c \in Viewers : Healing(cl[c])

\* What is redrawn holds what was drawn.
LEMMA DrawnInRect == \A p \in Positions, i \in Images : Drawn(p, i) \subseteq CursorRect(p, i)
<1>1. SUFFICES ASSUME NEW p \in Positions, NEW i \in Images, NEW q \in Drawn(p, i)
               PROVE  q \in CursorRect(p, i)
  OBVIOUS
<1>2. /\ CursorLeft(p, i) \in Int /\ CursorTop(p, i) \in Int
      /\ CursorRight(p, i) \in Int /\ CursorBottom(p, i) \in Int
      /\ W \in Nat \ {0} /\ H \in Nat \ {0}
  BY ScreenAssumption DEF CursorLeft, CursorTop, CursorRight, CursorBottom
<1>3. q \in Pixels /\ q[1] \in 0..W-1 /\ q[2] \in 0..H-1
  BY <1>1, <1>2 DEF Drawn, Between, Pixels
<1>4. /\ AtMost(AtLeast(CursorLeft(p, i), 0), W - 1) <= q[1]
      /\ q[1] < AtMost(AtLeast(CursorRight(p, i), 1), W)
      /\ AtMost(AtLeast(CursorTop(p, i), 0), H - 1) <= q[2]
      /\ q[2] < AtMost(AtLeast(CursorBottom(p, i), 1), H)
  BY <1>1, <1>2, <1>3 DEF Drawn, Between, AtMost, AtLeast
<1>. QED
  BY <1>3, <1>4 DEF CursorRect, Between

LEMMA SameDrawn ==
  ASSUME SameBox, NEW p \in Positions, NEW i \in Images, NEW j \in Images
  PROVE  Drawn(p, i) = Drawn(p, j)
  BY DEF SameBox, Drawn, CursorLeft, CursorTop, CursorRight, CursorBottom

LEMMA ScarsStep ==
  ASSUME ScreenTypeOK, [ScreenNext]_viewVars, ScarsModified, SameBox, ~TurnOff
  PROVE  ScarsModified'
<1>1. ASSUME NEW k \in Client, Healing(k), NEW m, Becomes(k, m)
      PROVE  Healing(m)
  <2>. USE <1>1 DEF Healing
  <2>0. k.cur \in Positions /\ image \in Images /\ pos \in Positions
    BY DEF Client, ScreenTypeOK
  <2>1. Healing(NoClient) /\ Healing(Opened(pos))
    BY DEF NoClient, Opened
  <2>2. \A r \in Damaged : Healing(Damage(k, r))
    BY DEF Damage, Client
  <2>3. \A i \in Images : Healing(NewCursor(k, i)) /\ Healing(NewPosition(NewCursor(k, i)))
    <3>1. \A i \in Images : Drawn(k.cur, image) \subseteq CursorRect(k.cur, i)
                            /\ Drawn(k.cur, i) \subseteq CursorRect(k.cur, i)
      BY <2>0, DrawnInRect, SameDrawn
    <3>. QED
      BY <3>1 DEF NewCursor, NewPosition, Client
  <2>4. Healing(NewPosition(k))
    BY DEF NewPosition, Client
  <2>5. \A area \in SUBSET Pixels, incremental \in BOOLEAN : Healing(Request(k, area, incremental))
    BY DEF Request, Client
  <2>6. \A shape, follow, ext \in BOOLEAN :
          (k.shape => shape) => Healing(Encodings(k, shape, follow, ext))
    <3>1. Drawn(k.cur, image) \subseteq CursorRect(k.cur, image)
      BY <2>0, DrawnInRect
    <3>. QED
      BY <3>1 DEF Encodings, Client
  <2>7. Healing(Resized(k)) /\ Healing(Deferred(k))
    BY DEF Resized, Deferred, Client
  <2>8. \A a \in Answers(k) : Healing(Sent(a))
    <3>1. Healing(SendSize(k)) /\ Healing([k EXCEPT !.y = NextSlice(k)])
      BY DEF SendSize, Client
    <3>2. CursorMoves(k) \subseteq CursorTrack(k)
      BY <2>0, DrawnInRect DEF CursorMoves, CursorTrack
    <3>3. ASSUME NEW sent \in SUBSET Pixels, UpdateRegion(k) \subseteq sent
          PROVE  Healing(SendRegion(k, sent))
      BY <3>2, <3>3 DEF SendRegion, UpdateRegion, Client
    <3>4. \A a \in Answers(k) : Healing(a)
      BY <3>1, <3>3, UpdateTyped, InBox DEF Answers
    <3>5. \A a \in Client : Healing(a) => Healing(Sent(a))
      BY DEF Sent, Client
    <3>. QED
      BY <3>4, <3>5, AnswersTyped
  <2>. QED
    BY <2>1, <2>2, <2>3, <2>4, <2>5, <2>6, <2>7, <2>8 DEF Becomes
<1>. QED
  BY <1>1, StepBecomes DEF ScarsModified, ScreenTypeOK

\* Where a pointer that the server has drawn is no longer right, the client is
\* going to be sent the pixel, if the pointers have one size and hot spot and no
\* client goes back to a pointer that the server draws.
THEOREM CursorAlwaysCovered ==
  ASSUME SameBox, ~TurnOff
  PROVE  ScreenSpec => []CursorCovered
<1>1. ScreenInit => ScarsModified
  BY DEF ScreenInit, ScarsModified, Healing, NoClient
<1>2. ScreenTypeOK /\ ScarsModified /\ [ScreenNext]_viewVars => ScarsModified'
  BY ScarsStep
<1>3. ScarsModified => CursorCovered
  BY DEF ScarsModified, Healing, CursorCovered
<1>. QED
  BY <1>1, <1>2, <1>3, ScreenTypeCorrect, PTL DEF ScreenSpec
=============================================================================
