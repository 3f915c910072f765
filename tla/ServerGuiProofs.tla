--------------------------- MODULE ServerGuiProofs ---------------------------
(***************************************************************************)
(* Proofs of the safety properties of ServerGui for every number of        *)
(* clients and all sets of addresses, records and windows.                 *)
(*                                                                         *)
(* Handlers nest on both threads, but not deeper than the invariant Nest   *)
(* says: on the main thread one handler of its own and above it one        *)
(* request of the GUI, on the GUI thread a message box, one command and    *)
(* one call of the main thread.  Who waits has exactly one message under   *)
(* way, and the calls of the main thread are served in the order of the    *)
(* frames that wait for them.  RecordsLive needs what is still to be told  *)
(* about a client that goes (Leaving), Told that the numbers under way     *)
(* lead from the one that is shown to the counter (Numbers).               *)
(***************************************************************************)
EXTENDS ServerGui, SequenceLemmas

-----------------------------------------------------------------------------
(* The inductive invariant: frames and messages. *)

Frames == [op : Ops, c : Clients \cup {0}, a : Addrs \cup {None}, w : Wins \cup {None},
           s : Slots \cup {None}, n : 0..MaxClients, on : BOOLEAN, rest : SUBSET Clients,
           wait : BOOLEAN, back : Nat]

DataTypes ==
  /\ quit \subseteq Threads /\ down \subseteq quit
  /\ phase \in [Clients -> {"new", "listed", "going", "freed"}]
  /\ at \in [Clients -> Addrs \cup {None}]
  /\ hwndChat \in [Clients -> Wins \cup {None}]
  /\ cClients \in Nat /\ viewer \in BOOLEAN
  /\ dlg \in {"none", "creating", "open"}
  /\ recs \in [Slots -> [live : BOOLEAN, a : Addrs \cup {None}, c : Clients \cup {0}]]
  /\ win \in [Wins -> [a : Addrs \cup {None}, c : Clients \cup {0}, on : BOOLEAN,
                       visible : BOOLEAN]]
  /\ shown \in [n : 0..MaxClients, online : BOOLEAN]

StackTypes ==
  /\ stack \in [Threads -> Seq(Frames)]
  /\ inbox \in [Threads -> Seq(Frames)]

Commands == {"listed", "refreshed", "closing"}
Handlers == {"num", "listclient", "chatopen", "system"}
Own      == {"joined", "gone", "free", "opening", "showing"}
Requests == {"attach", "joined", "listing", "list", "ask", "chatwindow"}
Orders   == Requests \ {"joined", "list"}

\* The frames of both threads and what is under way to them: requests of the
\* GUI thread, calls of the main thread.
Srv   == stack["srv"]
Gui   == stack["gui"]
Req   == inbox["srv"]
Box   == inbox["gui"]
Calls == ToSet(Box) \cup {f \in ToSet(Gui) : f.op \in Handlers}

SrvPlaces ==
  \A i \in DOMAIN Srv : IF Srv[i].back = 0 THEN i = 1 /\ Srv[i].op \in Own
                        ELSE i = Len(Srv) /\ Srv[i].op \in Requests
GuiPlaces ==
  \A i \in DOMAIN Gui :
    \/ Gui[i].op = "box" /\ i = 1 /\ Gui[i].back = 0 /\ ~Gui[i].wait
    \/ Gui[i].op \in Commands /\ Gui[i].back = 0 /\ (i = 1 \/ (i = 2 /\ Gui[1].op = "box"))
    \/ Gui[i].op \in Handlers /\ i = Len(Gui)

\* A command waits as long as its request is under way or being served.
Awaited(b) == b \in DOMAIN Gui /\ Gui[b].wait
Pending ==
  /\ \A i \in DOMAIN Srv : Srv[i].back # 0 => Awaited(Srv[i].back)
  /\ \A i \in DOMAIN Req : /\ Awaited(Req[i].back) /\ Req[i].op \in Orders
                           /\ ~Req[i].wait /\ Req[i].rest = {}
  /\ Req # <<>> => Len(Req) = 1 /\ \A i \in DOMAIN Srv : Srv[i].back = 0
  /\ \A i \in DOMAIN Gui : Gui[i].wait => Req # <<>> \/ \E j \in DOMAIN Srv : Srv[j].back # 0

\* A frame of the main thread waits for each call, the lower one for the
\* earlier call.
Calling ==
  /\ \A m \in Calls : m.op \in Handlers /\ ~m.wait /\ m.back \in DOMAIN Srv /\ Srv[m.back].wait
  /\ \A i, j \in DOMAIN Box : i < j => Box[i].back < Box[j].back
  /\ \A i \in DOMAIN Gui, j \in DOMAIN Box : Gui[i].op \in Handlers => Gui[i].back < Box[j].back

Ends ==
  /\ "gui" \in down => Gui = <<>> /\ Box = <<>> /\ \A i \in DOMAIN Srv : ~Srv[i].wait
  /\ "srv" \in quit => "gui" \in down
  /\ "srv" \in down => Srv = <<>>

Nest == SrvPlaces /\ GuiPlaces /\ Pending /\ Calling /\ Ends

-----------------------------------------------------------------------------
(* The inductive invariant: clients, records and numbers. *)

Gone  == {c \in Clients : \E i \in DOMAIN Srv : Srv[i].op = "gone" /\ Srv[i].c = c}
Freed == {c \in Clients : \E i \in DOMAIN Srv : Srv[i].op = "free" /\ Srv[i].c = c}
Going == {c \in Clients : phase[c] = "going"}

Lists ==
  /\ \A i \in DOMAIN Srv : Srv[i].rest \subseteq Listed
  /\ \A i \in DOMAIN Srv : Srv[i].op \in {"listing", "list"} => dlg # "none"
  /\ \A i \in DOMAIN Req : Req[i].op = "listing" => dlg # "none"
  /\ dlg = "creating" => \E i \in DOMAIN Gui : Gui[i].op = "listed"

\* What a frame or a call says of a client, a window or a record.
Named(m) ==
  /\ m.op \in {"num", "listclient"} => m.c \in Clients /\ m.a = at[m.c]
  /\ m.op = "num" /\ m.on => phase[m.c] = "listed"
  /\ m.op = "num" /\ ~m.on => Srv[m.back].op = "free" /\ Srv[m.back].c = m.c
  /\ m.op = "listclient" => phase[m.c] = "listed" /\ Srv[m.back].op = "list"
  /\ m.op = "system" => m.w \in Wins
Names ==
  /\ Going = Gone \cup Freed
  /\ \A i \in DOMAIN Srv :
       Srv[i].op \in {"gone", "free", "opening", "showing"} => Srv[i].c \in Clients
  /\ \A i \in DOMAIN Gui : /\ Gui[i].op = "box" => Gui[i].s \in Slots
                           /\ Gui[i].op = "closing" => Gui[i].w \in Wins
  /\ \A m \in Calls : Named(m)

\* The list window is still to be told that the client goes.
Leaving(c) == c \in Gone \/ \E m \in Calls : m.op = "num" /\ ~m.on /\ m.c = c
Recorded(s) ==
  /\ recs[s].c \in Allocated /\ at[recs[s].c] = recs[s].a
  /\ dlg # "none" /\ "gui" \notin down
  /\ recs[s].c \in Going => (dlg = "open" \/ At("gui", "listed")) /\ Leaving(recs[s].c)
  /\ dlg = "creating" => Req = <<>>
Records ==
  /\ \A s \in Slots : recs[s].live => Recorded(s)
  /\ \A s, r \in Slots : recs[s].live /\ recs[r].live /\ recs[s].a = recs[r].a => s = r

\* The numbers under way lead from the one that is shown to the counter.
Nums      == {m \in Calls : m.op = "num"}
Before(m) == IF m.on THEN m.n - 1 ELSE m.n + 1
Counter   == cClients = Cardinality(Listed \cup Gone) /\ viewer = (cClients # 0)
Numbers   ==
  "gui" \notin down =>
    /\ shown.online = (shown.n # 0)
    /\ Nums = {} => shown.n = cClients
    /\ \A m \in Nums :
         /\ m.on => m.n # 0
         /\ (\A k \in Nums : m.back <= k.back) => Before(m) = shown.n
         /\ (\A k \in Nums : k.back <= m.back) => m.n = cClients
         /\ \A k \in Nums : k.back < m.back => Before(m) = k.n

Data == DataTypes /\ Lists /\ Names /\ Records /\ Counter /\ Numbers
IInv == StackTypes /\ Nest /\ Data

-----------------------------------------------------------------------------
(* Frames and stacks. *)

Waiting(f, b)    == [f EXCEPT !.wait = b]
Addressed(m, b)  == [m EXCEPT !.back = b]
Answered(f, w)   == [f EXCEPT !.wait = FALSE, !.w = w]

\* A frame that concerns no client.
LEMMA PlainFrame ==
  ASSUME NEW op \in Ops
  PROVE  /\ F(op, 0) \in Frames /\ F(op, 0).op = op /\ F(op, 0).c = 0
         /\ F(op, 0).rest = {} /\ ~F(op, 0).wait /\ F(op, 0).back = 0
<1>. DEFINE f == [Blank EXCEPT !.op = op, !.c = 0, !.a = None]
<1>1. 0 \in 0..MaxClients
  BY BoundsAssumption
<1>2. F(op, 0) = f
  BY DEF F
<1>3. f \in Frames
  BY <1>1 DEF Frames, Blank
<1>4. /\ f.op = op /\ f.c = 0 /\ f.rest = {} /\ ~f.wait /\ f.back = 0
  BY DEF Blank
<1>. HIDE DEF f
<1>. QED BY <1>2, <1>3, <1>4

\* A frame for a client carries the address of its record.
LEMMA ClientFrame ==
  ASSUME DataTypes, NEW op \in Ops, NEW c \in Clients
  PROVE  /\ F(op, c) \in Frames /\ F(op, c).op = op /\ F(op, c).c = c /\ F(op, c).a = at[c]
         /\ F(op, c).rest = {} /\ ~F(op, c).wait /\ F(op, c).back = 0
<1>. DEFINE a == at[c]
            f == [Blank EXCEPT !.op = op, !.c = c, !.a = a]
<1>1. a \in Addrs \cup {None} /\ 0 \in 0..MaxClients /\ c # 0
  BY BoundsAssumption DEF DataTypes, Clients
<1>2. F(op, c) = f
  BY <1>1 DEF F
<1>. HIDE DEF a
<1>3. f \in Frames
  BY <1>1 DEF Frames, Blank
<1>4. /\ f.op = op /\ f.c = c /\ f.a = a /\ f.rest = {} /\ ~f.wait /\ f.back = 0
  BY DEF Blank
<1>. HIDE DEF f
<1>. QED BY <1>2, <1>3, <1>4 DEF a

\* What stays of a frame that waits.
LEMMA WaitingKept ==
  ASSUME NEW f \in Frames, NEW b \in BOOLEAN
  PROVE  /\ Waiting(f, b) \in Frames /\ Waiting(f, b).wait = b /\ Waiting(f, b).back = f.back
         /\ Waiting(f, b).op = f.op /\ Waiting(f, b).c = f.c /\ Waiting(f, b).rest = f.rest
         /\ Waiting(f, b).s = f.s /\ Waiting(f, b).w = f.w
BY DEF Frames, Waiting

\* What stays of a message that gets the place its sender waits at.
LEMMA AddressedKept ==
  ASSUME NEW m \in Frames, NEW k \in Nat
  PROVE  /\ Addressed(m, k) \in Frames /\ Addressed(m, k).back = k
         /\ Addressed(m, k).op = m.op /\ Addressed(m, k).c = m.c /\ Addressed(m, k).rest = m.rest
         /\ Addressed(m, k).a = m.a /\ Addressed(m, k).w = m.w /\ Addressed(m, k).n = m.n
         /\ Addressed(m, k).on = m.on /\ Addressed(m, k).wait = m.wait
BY DEF Frames, Addressed

\* What stays of a frame that gets its answer.
LEMMA AnsweredKept ==
  ASSUME NEW f \in Frames, NEW w \in Wins \cup {None}
  PROVE  /\ Answered(f, w) \in Frames /\ Answered(f, w).wait = FALSE /\ Answered(f, w).w = w
         /\ Answered(f, w).op = f.op /\ Answered(f, w).c = f.c /\ Answered(f, w).rest = f.rest
         /\ Answered(f, w).s = f.s /\ Answered(f, w).back = f.back
BY DEF Frames, Answered

\* A sequence with one more at its end.
LEMMA AppendFacts ==
  ASSUME NEW S, NEW s \in Seq(S), NEW x \in S
  PROVE  /\ Append(s, x) \in Seq(S) /\ DOMAIN Append(s, x) = 1 .. Len(s) + 1
         /\ Len(Append(s, x)) = Len(s) + 1
         /\ \A i \in DOMAIN s : Append(s, x)[i] = s[i]
         /\ Append(s, x)[Len(s) + 1] = x
OBVIOUS

\* A sequence without its last element.
LEMMA FrontFacts ==
  ASSUME NEW S, NEW s \in Seq(S), s # <<>>
  PROVE  /\ Front(s) \in Seq(S) /\ Len(Front(s)) = Len(s) - 1
         /\ DOMAIN Front(s) = 1 .. Len(s) - 1 /\ Last(s) = s[Len(s)] /\ Len(s) \in DOMAIN s
         /\ \A i \in DOMAIN Front(s) : i \in DOMAIN s /\ Front(s)[i] = s[i]
<1>1. Len(s) \in Nat \ {0} /\ DOMAIN s = 1 .. Len(s)
  OBVIOUS
<1>. DEFINE n == Len(s) - 1
<1>2. n \in Nat /\ n <= Len(s)
  BY <1>1
<1>. HIDE DEF n
<1>3. /\ SubSeq(s, 1, n) \in Seq(S) /\ Len(SubSeq(s, 1, n)) = n
      /\ DOMAIN SubSeq(s, 1, n) = 1 .. n /\ \A i \in 1 .. n : SubSeq(s, 1, n)[i] = s[i]
  BY <1>1, <1>2
<1>4. Front(s) = SubSeq(s, 1, n)
  BY DEF Front, n
<1>5. Last(s) = s[Len(s)] /\ Len(s) \in DOMAIN s
  BY <1>1 DEF Last
<1>6. \A i \in 1 .. n : i \in DOMAIN s
  BY <1>1, <1>2
<1>. QED BY <1>3, <1>4, <1>5, <1>6 DEF n

\* A sequence without its first element.
LEMMA TailFacts ==
  ASSUME NEW S, NEW s \in Seq(S), s # <<>>
  PROVE  /\ Tail(s) \in Seq(S) /\ Len(Tail(s)) = Len(s) - 1 /\ Head(s) = s[1] /\ 1 \in DOMAIN s
         /\ DOMAIN Tail(s) = 1 .. Len(s) - 1
         /\ \A i \in DOMAIN Tail(s) : i + 1 \in DOMAIN s /\ Tail(s)[i] = s[i + 1]
OBVIOUS

\* The frame on top, when a thread is at a place in a handler.
LEMMA AtTop ==
  ASSUME StackTypes, NEW t \in Threads, NEW op \in Ops, At(t, op)
  PROVE  /\ stack[t] \in Seq(Frames) /\ Len(stack[t]) \in Nat \ {0} /\ stack[t] # <<>>
         /\ Len(stack[t]) \in DOMAIN stack[t]
         /\ Top(t) = stack[t][Len(stack[t])] /\ Top(t) \in Frames
         /\ Top(t).op = op /\ ~Top(t).wait
<1>1. stack[t] \in Seq(Frames)
  BY DEF StackTypes
<1>2. op # ""
  BY DEF Ops
<1>3. stack[t] # <<>>
  BY <1>2 DEF At, Top, Blank
<1>4. Len(stack[t]) \in DOMAIN stack[t] /\ Last(stack[t]) = stack[t][Len(stack[t])]
  BY <1>1, <1>3, FrontFacts, Zenon
<1>5. Top(t) = stack[t][Len(stack[t])]
  BY <1>3, <1>4 DEF Top
<1>. QED BY <1>1, <1>3, <1>4, <1>5 DEF At

\* The stacks and the messages under way are sequences of frames.
LEMMA Stacks ==
  ASSUME StackTypes
  PROVE  /\ Srv \in Seq(Frames) /\ Gui \in Seq(Frames) /\ Req \in Seq(Frames) /\ Box \in Seq(Frames)
         /\ DOMAIN Srv = 1 .. Len(Srv) /\ DOMAIN Gui = 1 .. Len(Gui) /\ Len(Srv) \in Nat
         /\ DOMAIN Req = 1 .. Len(Req) /\ DOMAIN Box = 1 .. Len(Box) /\ Len(Gui) \in Nat
         /\ Len(Req) \in Nat /\ Len(Box) \in Nat
BY DEF StackTypes, Srv, Gui, Req, Box, Threads

\* Whatever waits below the top of a stack, and how deep it is.
LEMMA Depth ==
  ASSUME StackTypes, Nest
  PROVE  /\ \A i \in DOMAIN Srv : Srv[i].back # 0 => i = Len(Srv)
         /\ Len(Srv) <= 2
         /\ \A i, j \in DOMAIN Gui : Gui[i].op \in Commands /\ Gui[j].op \in Commands => i = j
         /\ \A i \in DOMAIN Gui : Gui[i].wait => Gui[i].op \in Commands
<1>1. /\ DOMAIN Srv = 1 .. Len(Srv) /\ DOMAIN Gui = 1 .. Len(Gui) /\ Len(Srv) \in Nat
  BY Stacks
<1>2. \A i \in DOMAIN Srv : Srv[i].back # 0 => i = Len(Srv)
  BY DEF Nest, SrvPlaces
<1>3. \A i \in DOMAIN Srv : i = 1 \/ i = Len(Srv)
  BY DEF Nest, SrvPlaces
<1>4. Len(Srv) <= 2
  <2>1. SUFFICES ASSUME Len(Srv) > 2 PROVE FALSE
    BY <1>1
  <2>2. 2 \in DOMAIN Srv
    BY <1>1, <2>1
  <2>. QED BY <1>3, <2>1, <2>2
<1>5. ASSUME NEW i \in DOMAIN Gui, NEW j \in DOMAIN Gui,
             Gui[i].op \in Commands, Gui[j].op \in Commands
      PROVE  i = j
  BY <1>5 DEF Nest, GuiPlaces, Commands, Handlers
<1>6. ASSUME NEW i \in DOMAIN Gui, Gui[i].wait PROVE Gui[i].op \in Commands
  <2>1. Gui[i].op \notin Handlers
    <3>1. SUFFICES ASSUME Gui[i].op \in Handlers PROVE FALSE
      OBVIOUS
    <3>2. Gui[i] \in Calls
      BY <3>1 DEF Calls, ToSet
    <3>. QED BY <1>6, <3>2 DEF Nest, Calling
  <2>. QED BY <1>6, <2>1 DEF Nest, GuiPlaces
<1>. QED BY <1>2, <1>4, <1>5, <1>6

-----------------------------------------------------------------------------
(* What the steps do to the stacks and the messages. *)

\* The main thread sends m; f is its new top, frame n.
SrvSent(f, m, n) ==
  /\ StackTypes' /\ Nest'
  /\ Gui' = Gui /\ Req' = Req /\ DOMAIN Srv' = 1 .. n
  /\ \A i \in 1 .. n - 1 : i \in DOMAIN Srv /\ Srv'[i] = Srv[i]
  /\ Srv'[n].op = f.op /\ Srv'[n].c = f.c /\ Srv'[n].rest = f.rest /\ Srv'[n].back = f.back
  /\ Calls' = IF "gui" \in down THEN {} ELSE Calls \cup {Addressed(m, n)}
  /\ \A k \in Calls : k.back \in DOMAIN Srv /\ k.back \in 1 .. n - 1
  /\ "gui" \in down => Calls = {}

\* The frames fs are those below n, and f may take the place n.
Below(fs, n) == \A i \in 1 .. n - 1 : i \in DOMAIN Srv /\ fs[i] = Srv[i]
Fitting(f, n) ==
  /\ \A i \in DOMAIN Srv : \/ i \in 1 .. n - 1 /\ Srv[i].back = 0
                           \/ i = n /\ ~Srv[i].wait /\ Srv[i].back = f.back
  /\ IF f.back = 0 THEN n = 1 /\ f.op \in Own ELSE n \in DOMAIN Srv /\ f.op \in Requests

\* Whatever the main thread sends, from the bottom or from the top of its stack.
LEMMA SrvSends ==
  ASSUME StackTypes, Nest, NEW fs \in Seq(Frames), NEW f \in Frames, NEW m \in Frames,
         NEW n \in Nat \ {0}, Len(fs) = n - 1, Below(fs, n), Fitting(f, n),
         m.op \in Handlers, ~m.wait, "srv" \notin down,
         SendFrom("srv", fs, f, m), UNCHANGED endVars
  PROVE  SrvSent(f, m, n)
<1>. DEFINE alive == "gui" \notin down
            g == Waiting(f, alive)
            q == Addressed(m, n)
<1>0. /\ Srv \in Seq(Frames) /\ Box \in Seq(Frames) /\ DOMAIN Box = 1 .. Len(Box) /\ Len(Box) \in Nat
  BY Stacks
<1>1. alive \in BOOLEAN
  OBVIOUS
<1>2. /\ g \in Frames /\ g.wait = alive /\ g.op = f.op /\ g.c = f.c /\ g.rest = f.rest
      /\ g.back = f.back
      /\ q \in Frames /\ q.back = n /\ q.op = m.op /\ q.wait = m.wait
  <2>. HIDE DEF alive
  <2>. QED BY <1>1, WaitingKept, AddressedKept
<1>a. Len(fs) + 1 = n
  OBVIOUS
<1>3. /\ stack' = [stack EXCEPT !["srv"] = Append(fs, g)]
      /\ inbox' = IF alive THEN [inbox EXCEPT !["gui"] = Append(@, q)] ELSE inbox
  BY <1>a DEF SendFrom, Other, Waiting, Addressed
<1>. HIDE DEF g, q
<1>4. /\ Append(fs, g) \in Seq(Frames) /\ DOMAIN Append(fs, g) = 1 .. n
      /\ Len(Append(fs, g)) = n /\ Append(fs, g)[n] = g
      /\ \A i \in 1 .. n - 1 : Append(fs, g)[i] = fs[i]
  BY <1>2, <1>a, AppendFacts
<1>5. /\ Append(Box, q) \in Seq(Frames) /\ DOMAIN Append(Box, q) = 1 .. Len(Box) + 1
      /\ \A i \in DOMAIN Box : Append(Box, q)[i] = Box[i]
      /\ Append(Box, q)[Len(Box) + 1] = q
  BY <1>0, <1>2, AppendFacts
<1>6. /\ Srv' = Append(fs, g) /\ Gui' = Gui /\ Req' = Req
      /\ Box' = IF alive THEN Append(Box, q) ELSE Box
  BY <1>3 DEF StackTypes, Srv, Gui, Req, Box, Threads
<1>7. StackTypes'
  BY <1>3, <1>4, <1>5 DEF StackTypes, Box, Threads
<1>8. /\ DOMAIN Srv' = 1 .. n /\ Srv'[n] = g /\ Len(Srv') = n
      /\ \A i \in 1 .. n - 1 : i \in DOMAIN Srv /\ Srv'[i] = Srv[i]
  BY <1>4, <1>6 DEF Below
<1>9. "gui" \in down => Calls = {} /\ Box = <<>>
  BY DEF Nest, Ends, Calls, ToSet
<1>10. ASSUME NEW k \in Calls PROVE k.back \in DOMAIN Srv /\ Srv[k.back].wait /\ k.back \in 1 .. n - 1
  <2>1. k.back \in DOMAIN Srv /\ Srv[k.back].wait
    BY DEF Nest, Calling
  <2>. QED BY <2>1 DEF Fitting
<1>11. Calls' = IF "gui" \in down THEN {} ELSE Calls \cup {q}
  <2>1. CASE "gui" \in down
    BY <1>6, <1>9, <2>1 DEF Calls
  <2>2. CASE "gui" \notin down
    <3>1. ToSet(Append(Box, q)) = ToSet(Box) \cup {q}
      BY <1>0, <1>2, ToSetAppend
    <3>. QED BY <1>6, <2>2, <3>1 DEF Calls
  <2>. QED BY <2>1, <2>2
<1>12. ASSUME NEW i \in 1 .. n - 1 PROVE Srv[i].back = 0
  <2>1. i \in DOMAIN Srv /\ i # n
    BY <1>8
  <2>. QED BY <2>1 DEF Fitting
<1>13. SrvPlaces'
  <2>1. ASSUME NEW i \in 1 .. n - 1
        PROVE  i = 1 /\ Srv[i].op \in Own
    BY <1>8, <1>12 DEF Nest, SrvPlaces
  <2>2. IF f.back = 0 THEN n = 1 /\ f.op \in Own ELSE f.op \in Requests
    BY DEF Fitting
  <2>. QED BY <1>2, <1>8, <1>12, <2>1, <2>2 DEF SrvPlaces
<1>14. GuiPlaces'
  BY <1>6 DEF Nest, GuiPlaces
<1>15. Pending'
  <2>1. f.back # 0 => n \in DOMAIN Srv /\ Srv[n].back = f.back
    BY DEF Fitting
  <2>2. f.back # 0 => f.back \in DOMAIN Gui /\ Gui[f.back].wait
    BY <2>1 DEF Nest, Pending, Awaited
  <2>3. ASSUME NEW i \in DOMAIN Srv', Srv'[i].back # 0 PROVE i = n
    BY <1>8, <1>12, <2>3
  <2>4. \A i \in DOMAIN Srv' : Srv'[i].back # 0 => Srv'[i].back \in DOMAIN Gui' /\ Gui'[Srv'[i].back].wait
    BY <1>2, <1>6, <1>8, <2>2, <2>3
  <2>5. /\ \A i \in DOMAIN Req : /\ Awaited(Req[i].back) /\ Req[i].op \in Orders
                                 /\ ~Req[i].wait /\ Req[i].rest = {}
        /\ Req # <<>> => Len(Req) = 1 /\ \A i \in DOMAIN Srv : Srv[i].back = 0
    BY DEF Nest, Pending
  <2>6. Req # <<>> => \A i \in DOMAIN Srv' : Srv'[i].back = 0
    BY <1>2, <1>8, <2>1, <2>3, <2>5
  <2>7. ASSUME NEW i \in DOMAIN Gui, Gui[i].wait, Req = <<>>
        PROVE  \E j \in DOMAIN Srv' : Srv'[j].back # 0
    <3>1. PICK j \in DOMAIN Srv : Srv[j].back # 0
      BY <2>7 DEF Nest, Pending
    <3>2. f.back # 0
      BY <3>1 DEF Fitting
    <3>3. n \in DOMAIN Srv' /\ Srv'[n].back # 0
      BY <1>2, <1>8, <3>2
    <3>. QED BY <3>3
  <2>. QED BY <1>6, <2>4, <2>5, <2>6, <2>7 DEF Pending, Awaited
<1>16. Calling'
  <2>1. ASSUME NEW k \in Calls'
        PROVE  k.op \in Handlers /\ ~k.wait /\ k.back \in DOMAIN Srv' /\ Srv'[k.back].wait
    <3>1. CASE k \in Calls
      <4>1. k.op \in Handlers /\ ~k.wait
        BY <3>1 DEF Nest, Calling
      <4>. QED BY <1>8, <1>10, <3>1, <4>1
    <3>2. CASE "gui" \notin down /\ k = q
      <4>1. alive = TRUE
        BY <3>2
      <4>2. g.wait = TRUE
        BY <1>2, <4>1, Zenon
      <4>3. n \in DOMAIN Srv' /\ Srv'[n] = g
        BY <1>8
      <4>. QED BY <1>2, <3>2, <4>2, <4>3
    <3>. QED BY <1>11, <2>1, <3>1, <3>2
  <2>2. \A i \in DOMAIN Box : Box[i] \in Calls
    BY DEF Calls, ToSet
  <2>3. \A i \in DOMAIN Box : Box[i].back < n
    BY <1>10, <2>2
  <2>4. \A i, j \in DOMAIN Box : i < j => Box[i].back < Box[j].back
    BY DEF Nest, Calling
  <2>5. \A i, j \in DOMAIN Box' : i < j => Box'[i].back < Box'[j].back
    BY <1>0, <1>2, <1>5, <1>6, <2>3, <2>4
  <2>6. \A i \in DOMAIN Gui, j \in DOMAIN Box : Gui[i].op \in Handlers => Gui[i].back < Box[j].back
    BY DEF Nest, Calling
  <2>7. \A i \in DOMAIN Gui : Gui[i].op \in Handlers => Gui[i].back < n
    <3>1. \A i \in DOMAIN Gui : Gui[i].op \in Handlers => Gui[i] \in Calls
      BY DEF Calls, ToSet
    <3>. QED BY <1>10, <3>1
  <2>8. \A i \in DOMAIN Gui', j \in DOMAIN Box' : Gui'[i].op \in Handlers => Gui'[i].back < Box'[j].back
    BY <1>0, <1>2, <1>5, <1>6, <2>6, <2>7
  <2>. QED BY <2>1, <2>5, <2>8 DEF Calling
<1>17. Ends'
  <2>1. down' = down /\ quit' = quit
    BY DEF endVars
  <2>2. ASSUME "gui" \in down, NEW i \in DOMAIN Srv' PROVE ~Srv'[i].wait
    <3>1. CASE i = n
      BY <1>2, <1>8, <2>2, <3>1
    <3>2. CASE i # n
      BY <1>8, <2>2, <3>2 DEF Nest, Ends
    <3>. QED BY <3>1, <3>2
  <2>. QED BY <1>6, <1>9, <2>1, <2>2 DEF Nest, Ends
<1>. QED BY <1>2, <1>6, <1>7, <1>8, <1>9, <1>10, <1>11, <1>13, <1>14, <1>15, <1>16, <1>17
         DEF SrvSent, Nest, q


\* What the end of a frame does to both stacks.
LEMMA AnswerEffect ==
  ASSUME StackTypes, NEW t \in Threads, NEW o \in Threads, o = Other(t), stack[t] # <<>>,
         NEW w \in Wins \cup {None}, NEW b \in Nat, b = Top(t).back,
         b # 0 => b \in DOMAIN stack[o], Answer(t, w)
  PROVE  /\ StackTypes' /\ inbox' = inbox /\ stack'[t] = Front(stack[t])
         /\ stack'[o] \in Seq(Frames) /\ DOMAIN stack'[o] = DOMAIN stack[o]
         /\ \A i \in DOMAIN stack[o] :
              stack'[o][i] = IF i = b THEN Answered(stack[o][i], w) ELSE stack[o][i]
<1>1. stack \in [Threads -> Seq(Frames)] /\ t # o /\ Threads = {t, o}
  BY DEF StackTypes, Other, Threads
<1>2. Front(stack[t]) \in Seq(Frames)
  BY <1>1, FrontFacts
<1>. DEFINE rest == [stack EXCEPT ![t] = Front(@)]
            s == stack[o]
<1>3. rest \in [Threads -> Seq(Frames)] /\ rest[t] = Front(stack[t]) /\ rest[o] = s
  BY <1>1, <1>2
<1>4. inbox' = inbox /\ stack' = IF b = 0 THEN rest
                                 ELSE [rest EXCEPT ![o][b] = Answered(@, w)]
  BY DEF Answer, Answered
<1>5. s \in Seq(Frames) /\ DOMAIN s \subseteq Nat \ {0}
  BY <1>1
<1>. HIDE DEF rest, s
<1>6. CASE b = 0
  <2>1. stack' = rest
    BY <1>4, <1>6
  <2>2. \A i \in DOMAIN s : i # b
    BY <1>5, <1>6
  <2>. QED BY <1>3, <1>4, <1>5, <2>1, <2>2 DEF StackTypes, s
<1>7. CASE b # 0
  <2>1. b \in DOMAIN s
    BY <1>7 DEF s
  <2>2. s[b] \in Frames
    BY <1>5, <2>1
  <2>3. Answered(s[b], w) \in Frames
    BY <2>2, AnsweredKept
  <2>. DEFINE v == [s EXCEPT ![b] = Answered(s[b], w)]
  <2>5. /\ v \in Seq(Frames) /\ DOMAIN v = DOMAIN s
        /\ \A i \in DOMAIN s : v[i] = IF i = b THEN Answered(s[i], w) ELSE s[i]
    BY <1>5, <2>1, <2>3
  <2>6. stack' = [rest EXCEPT ![o][b] = Answered(@, w)]
    BY <1>4, <1>7
  <2>7. stack' = [rest EXCEPT ![o] = v]
    BY <1>1, <1>3, <2>6
  <2>. HIDE DEF v
  <2>8. stack' \in [Threads -> Seq(Frames)] /\ stack'[t] = rest[t] /\ stack'[o] = v
    BY <1>1, <1>3, <2>5, <2>7
  <2>. QED BY <1>3, <1>4, <2>5, <2>8 DEF StackTypes, s
<1>. QED BY <1>6, <1>7

\* The frame on top of the main thread ends; a command that waited for it goes on.
SrvPopped ==
  /\ StackTypes' /\ Nest'
  /\ DOMAIN Srv' = 1 .. Len(Srv) - 1
  /\ \A i \in DOMAIN Srv' : i \in DOMAIN Srv /\ Srv'[i] = Srv[i]
  /\ \A i \in DOMAIN Srv : i \in DOMAIN Srv' \/ (i = Len(Srv) /\ ~Srv[i].wait)
  /\ Req' = Req /\ Calls' = Calls /\ DOMAIN Gui' = DOMAIN Gui
  /\ \A i \in DOMAIN Gui : /\ Gui'[i].op = Gui[i].op /\ Gui'[i].s = Gui[i].s
                           /\ Gui'[i].w = Gui[i].w /\ (Gui'[i].wait => Gui[i].wait)

\* A handler of the main thread ends and answers the command that waits.
LEMMA SrvPops ==
  ASSUME StackTypes, Nest, Srv # <<>>, ~Top("srv").wait, Return("srv"), UNCHANGED endVars
  PROVE  SrvPopped
<1>. DEFINE n == Len(Srv)
            b == Srv[n].back
            w == IF b = 0 THEN None ELSE Gui[b].w
<1>1. /\ Srv \in Seq(Frames) /\ Gui \in Seq(Frames) /\ DOMAIN Gui = 1 .. Len(Gui) /\ Len(Gui) \in Nat
      /\ DOMAIN Srv = 1 .. n /\ n \in Nat
  BY Stacks
<1>2. /\ n \in DOMAIN Srv /\ Last(Srv) = Srv[n] /\ Front(Srv) \in Seq(Frames)
      /\ DOMAIN Front(Srv) = 1 .. n - 1
      /\ \A i \in DOMAIN Front(Srv) : i \in DOMAIN Srv /\ Front(Srv)[i] = Srv[i]
  BY <1>1, FrontFacts
<1>3. Top("srv") = Srv[n] /\ b \in Nat
  <2>1. Top("srv") = Last(Srv)
    BY DEF Top, Srv
  <2>2. Srv[n] \in Frames
    BY <1>1, <1>2
  <2>. QED BY <1>2, <2>1, <2>2 DEF Frames
<1>4. b # 0 => Awaited(b)
  BY <1>2 DEF Nest, Pending
<1>5. b # 0 => b \in DOMAIN Gui /\ Gui[b].wait /\ Gui[b].op \in Commands
  BY <1>4, Depth DEF Awaited
<1>6. w \in Wins \cup {None}
  <2>1. CASE b = 0
    BY <2>1
  <2>2. CASE b # 0
    <3>1. Gui[b] \in Frames
      BY <1>1, <1>5, <2>2
    <3>. QED BY <2>2, <3>1 DEF Frames
  <2>. QED BY <2>1, <2>2
<1>7. Answer("srv", w)
  BY <1>3 DEF Return, Other, Gui
<1>. HIDE DEF w, b
<1>8. /\ StackTypes' /\ inbox' = inbox /\ Srv' = Front(Srv)
      /\ Gui' \in Seq(Frames) /\ DOMAIN Gui' = DOMAIN Gui
      /\ \A i \in DOMAIN Gui : Gui'[i] = IF i = b THEN Answered(Gui[i], w) ELSE Gui[i]
  <2>1. /\ "srv" \in Threads /\ "gui" \in Threads /\ "gui" = Other("srv")
        /\ stack["srv"] # <<>> /\ b = Top("srv").back /\ (b # 0 => b \in DOMAIN stack["gui"])
    BY <1>3, <1>5 DEF Threads, Other, Srv, Gui, b
  <2>. QED BY <1>3, <1>6, <1>7, <2>1, AnswerEffect DEF Srv, Gui
<1>9. Req' = Req /\ Box' = Box
  BY <1>8 DEF Req, Box
<1>10. ASSUME NEW i \in DOMAIN Gui
       PROVE  /\ Gui'[i].op = Gui[i].op /\ Gui'[i].s = Gui[i].s /\ Gui'[i].back = Gui[i].back
              /\ Gui'[i].w = Gui[i].w /\ Gui'[i].wait = (Gui[i].wait /\ i # b)
              /\ i # b => Gui'[i] = Gui[i]
  <2>0. Gui[i] \in Frames
    BY <1>1
  <2>1. CASE i # b
    <3>1. Gui'[i] = Gui[i]
      BY <1>8, <2>1
    <3>. QED BY <2>0, <2>1, <3>1 DEF Frames
  <2>2. CASE i = b
    <3>1. Gui'[i] = Answered(Gui[i], w)
      BY <1>8, <2>2
    <3>2. w = Gui[i].w
      <4>1. b # 0
        BY <1>1, <2>2
      <4>. QED BY <2>2, <4>1 DEF w
    <3>3. /\ Gui'[i].op = Gui[i].op /\ Gui'[i].s = Gui[i].s /\ Gui'[i].back = Gui[i].back
          /\ Gui'[i].w = w /\ Gui'[i].wait = FALSE
      <4>. DEFINE g == Gui[i]
      <4>1. /\ Answered(g, w).op = g.op /\ Answered(g, w).s = g.s /\ Answered(g, w).back = g.back
            /\ Answered(g, w).w = w /\ Answered(g, w).wait = FALSE
        BY <1>6, <2>0, AnsweredKept
      <4>. HIDE DEF g
      <4>2. Gui'[i] = Answered(g, w)
        BY <3>1 DEF g
      <4>3. /\ Gui'[i].op = g.op /\ Gui'[i].s = g.s /\ Gui'[i].back = g.back
            /\ Gui'[i].w = w /\ Gui'[i].wait = FALSE
        BY <4>1, <4>2
      <4>. QED BY <4>3 DEF g
    <3>. QED BY <2>2, <3>2, <3>3
  <2>. QED BY <2>1, <2>2
<1>11. Calls' = Calls
  <2>1. {f \in ToSet(Gui') : f.op \in Handlers} = {f \in ToSet(Gui) : f.op \in Handlers}
    <3>1. ASSUME NEW i \in DOMAIN Gui, Gui[i].op \in Handlers PROVE Gui'[i] = Gui[i]
      BY <1>5, <1>10, <1>1, <3>1 DEF Commands, Handlers
    <3>. QED BY <1>8, <1>10, <3>1 DEF ToSet
  <2>. QED BY <1>9, <2>1 DEF Calls
<1>12. /\ DOMAIN Srv' = 1 .. n - 1
       /\ \A i \in DOMAIN Srv' : i \in DOMAIN Srv /\ Srv'[i] = Srv[i]
  BY <1>2, <1>8
<1>13. \A i \in DOMAIN Srv : i \in DOMAIN Srv' \/ (i = n /\ ~Srv[i].wait)
  BY <1>1, <1>3, <1>12
<1>14. \A i \in DOMAIN Srv' : Srv[i].back = 0
  BY <1>1, <1>12, Depth
<1>15. SrvPlaces'
  BY <1>12, <1>14 DEF Nest, SrvPlaces
<1>16. GuiPlaces'
  <2>1. ASSUME NEW i \in DOMAIN Gui'
        PROVE  \/ Gui'[i].op = "box" /\ i = 1 /\ Gui'[i].back = 0 /\ ~Gui'[i].wait
               \/ Gui'[i].op \in Commands /\ Gui'[i].back = 0 /\ (i = 1 \/ (i = 2 /\ Gui'[1].op = "box"))
               \/ Gui'[i].op \in Handlers /\ i = Len(Gui')
    <3>1. i \in DOMAIN Gui /\ Len(Gui') = Len(Gui) /\ 1 \in DOMAIN Gui
      BY <1>1, <1>8
    <3>2. Gui'[1].op = Gui[1].op
      BY <1>10, <3>1
    <3>. QED BY <1>10, <3>1, <3>2 DEF Nest, GuiPlaces
  <2>. QED BY <2>1 DEF GuiPlaces
<1>17. Pending'
  <2>1. b # 0 => Req = <<>> /\ \A i \in DOMAIN Gui : Gui[i].wait => i = b
    BY <1>2, <1>5, Depth DEF Nest, Pending, b
  <2>2. \A i \in DOMAIN Req : Req[i].back \in DOMAIN Gui' /\ Gui'[Req[i].back].wait
    <3>1. CASE b # 0
      BY <2>1, <3>1
    <3>2. CASE b = 0
      <4>1. ASSUME NEW i \in DOMAIN Req PROVE Req[i].back \in DOMAIN Gui /\ Gui[Req[i].back].wait
        BY DEF Nest, Pending, Awaited
      <4>2. ASSUME NEW k \in DOMAIN Gui, Gui[k].wait PROVE k \in DOMAIN Gui' /\ Gui'[k].wait
        <5>1. k # b
          BY <1>1, <3>2
        <5>. QED BY <1>8, <1>10, <4>2, <5>1
      <4>. QED BY <4>1, <4>2
    <3>. QED BY <3>1, <3>2
  <2>3. /\ \A i \in DOMAIN Req : Req[i].op \in Orders /\ ~Req[i].wait /\ Req[i].rest = {}
        /\ Req # <<>> => Len(Req) = 1
    BY DEF Nest, Pending
  <2>4. \A i \in DOMAIN Srv' : Srv'[i].back = 0
    BY <1>12, <1>14
  <2>5. ASSUME NEW i \in DOMAIN Gui', Gui'[i].wait PROVE Req # <<>>
    <3>1. i \in DOMAIN Gui /\ Gui[i].wait /\ i # b
      BY <1>8, <1>10, <2>5
    <3>2. b = 0
      BY <2>1, <3>1
    <3>3. SUFFICES ASSUME Req = <<>> PROVE FALSE
      OBVIOUS
    <3>4. PICK j \in DOMAIN Srv : Srv[j].back # 0
      BY <3>1, <3>3 DEF Nest, Pending
    <3>. QED BY <3>2, <3>4, Depth DEF b
  <2>. QED BY <1>9, <2>2, <2>3, <2>4, <2>5 DEF Pending, Awaited
<1>18. Calling'
  <2>1. ASSUME NEW m \in Calls'
        PROVE  m.op \in Handlers /\ ~m.wait /\ m.back \in DOMAIN Srv' /\ Srv'[m.back].wait
    <3>1. m.op \in Handlers /\ ~m.wait /\ m.back \in DOMAIN Srv /\ Srv[m.back].wait
      BY <1>11 DEF Nest, Calling
    <3>2. m.back \in DOMAIN Srv'
      BY <1>13, <3>1
    <3>. QED BY <1>12, <3>1, <3>2
  <2>2. \A i, j \in DOMAIN Box : i < j => Box[i].back < Box[j].back
    BY DEF Nest, Calling
  <2>3. \A i \in DOMAIN Gui', j \in DOMAIN Box : Gui'[i].op \in Handlers => Gui'[i].back < Box[j].back
    BY <1>8, <1>10 DEF Nest, Calling
  <2>. QED BY <1>9, <2>1, <2>2, <2>3 DEF Calling
<1>19. Ends'
  <2>1. down' = down /\ quit' = quit
    BY DEF endVars
  <2>2. "gui" \in down => Gui = <<>> /\ Box = <<>> /\ \A i \in DOMAIN Srv : ~Srv[i].wait
    BY DEF Nest, Ends
  <2>3. ASSUME Gui = <<>> PROVE Gui' = <<>>
    BY <1>1, <1>8, <2>3
  <2>4. "srv" \in down => FALSE
    BY DEF Nest, Ends
  <2>. QED BY <1>9, <1>12, <2>1, <2>2, <2>3, <2>4 DEF Nest, Ends
<1>. QED BY <1>8, <1>9, <1>10, <1>11, <1>12, <1>13, <1>15, <1>16, <1>17, <1>18, <1>19
         DEF SrvPopped, Nest

\* The frame t on top of the GUI thread ends; if it was a call, it was the
\* earliest one, and the main thread goes on.
GuiPopped(t) ==
  /\ StackTypes' /\ Nest'
  /\ DOMAIN Gui' = 1 .. Len(Gui) - 1
  /\ \A i \in DOMAIN Gui' : i \in DOMAIN Gui /\ Gui'[i] = Gui[i]
  /\ DOMAIN Srv' = DOMAIN Srv
  /\ \A i \in DOMAIN Srv : /\ Srv'[i].op = Srv[i].op /\ Srv'[i].c = Srv[i].c
                           /\ Srv'[i].rest = Srv[i].rest
  /\ Req' = Req /\ Calls' = Calls \ {t}
  /\ t.op \in Handlers => t \in Calls /\ \A m \in Calls' : t.back < m.back

\* A frame of the GUI thread ends; if it was a call, its answer goes back.
LEMMA GuiPops ==
  ASSUME StackTypes, Nest, Gui # <<>>, NEW t \in Frames, t = Top("gui"), ~t.wait,
         NEW w \in Wins \cup {None}, Answer("gui", w), UNCHANGED endVars
  PROVE  GuiPopped(t)
<1>. DEFINE n == Len(Gui)
            b == t.back
<1>1. /\ Srv \in Seq(Frames) /\ Gui \in Seq(Frames) /\ Box \in Seq(Frames)
      /\ DOMAIN Gui = 1 .. n /\ n \in Nat /\ DOMAIN Srv = 1 .. Len(Srv) /\ Len(Srv) \in Nat
  BY Stacks
<1>2. /\ n \in DOMAIN Gui /\ Last(Gui) = Gui[n] /\ Front(Gui) \in Seq(Frames)
      /\ DOMAIN Front(Gui) = 1 .. n - 1
      /\ \A i \in DOMAIN Front(Gui) : i \in DOMAIN Gui /\ Front(Gui)[i] = Gui[i]
  BY <1>1, FrontFacts
<1>3. t = Gui[n] /\ b \in Nat
  <2>1. Top("gui") = Last(Gui)
    BY DEF Top, Gui
  <2>. QED BY <1>2, <2>1 DEF Frames
<1>4. t.op \in Handlers => t \in Calls
  BY <1>2, <1>3 DEF Calls, ToSet
<1>5. t.op \in Handlers => b \in DOMAIN Srv /\ Srv[b].wait
  BY <1>4 DEF Nest, Calling
<1>6. t.op \notin Handlers => b = 0
  BY <1>2, <1>3 DEF Nest, GuiPlaces
<1>7. b # 0 => b \in DOMAIN Srv
  BY <1>5, <1>6
<1>. HIDE DEF b
<1>8. /\ StackTypes' /\ inbox' = inbox /\ Gui' = Front(Gui)
      /\ Srv' \in Seq(Frames) /\ DOMAIN Srv' = DOMAIN Srv
      /\ \A i \in DOMAIN Srv : Srv'[i] = IF i = b THEN Answered(Srv[i], w) ELSE Srv[i]
  <2>1. /\ "srv" \in Threads /\ "gui" \in Threads /\ "srv" = Other("gui")
        /\ stack["gui"] # <<>> /\ b = Top("gui").back /\ (b # 0 => b \in DOMAIN stack["srv"])
    BY <1>3, <1>7 DEF Threads, Other, Srv, Gui, b
  <2>. QED BY <1>3, <2>1, AnswerEffect DEF Srv, Gui
<1>9. Req' = Req /\ Box' = Box
  BY <1>8 DEF Req, Box
<1>10. ASSUME NEW i \in DOMAIN Srv
       PROVE  /\ Srv'[i].op = Srv[i].op /\ Srv'[i].c = Srv[i].c /\ Srv'[i].back = Srv[i].back
              /\ Srv'[i].rest = Srv[i].rest /\ Srv'[i].wait = (Srv[i].wait /\ i # b)
  <2>0. Srv[i] \in Frames
    BY <1>1
  <2>1. CASE i # b
    <3>1. Srv'[i] = Srv[i]
      BY <1>8, <2>1
    <3>. QED BY <2>0, <2>1, <3>1 DEF Frames
  <2>2. CASE i = b
    <3>1. Srv'[i] = Answered(Srv[i], w)
      BY <1>8, <2>2
    <3>. DEFINE g == Srv[i]
    <3>2. /\ Answered(g, w).op = g.op /\ Answered(g, w).c = g.c /\ Answered(g, w).back = g.back
          /\ Answered(g, w).rest = g.rest /\ Answered(g, w).wait = FALSE
      BY <2>0, AnsweredKept
    <3>. HIDE DEF g
    <3>3. Srv'[i] = Answered(g, w)
      BY <3>1 DEF g
    <3>4. /\ Srv'[i].op = g.op /\ Srv'[i].c = g.c /\ Srv'[i].back = g.back
          /\ Srv'[i].rest = g.rest /\ Srv'[i].wait = FALSE
      BY <3>2, <3>3
    <3>. QED BY <2>2, <3>4 DEF g
  <2>. QED BY <2>1, <2>2
<1>11. /\ DOMAIN Gui' = 1 .. n - 1
       /\ \A i \in DOMAIN Gui' : i \in DOMAIN Gui /\ Gui'[i] = Gui[i]
  BY <1>2, <1>8
<1>12. \A i \in DOMAIN Gui : Gui[i].op \in Handlers => i = n
  BY DEF Nest, GuiPlaces, Commands, Handlers
<1>13. \A i \in DOMAIN Gui' : Gui'[i].op \notin Handlers
  BY <1>1, <1>11, <1>12
<1>14. Calls' = ToSet(Box)
  <2>1. ToSet(Gui') = {Gui'[i] : i \in DOMAIN Gui'}
    BY DEF ToSet
  <2>2. {f \in ToSet(Gui') : f.op \in Handlers} = {}
    BY <1>13, <2>1
  <2>. QED BY <1>9, <2>2 DEF Calls
<1>15. t.op \in Handlers => \A m \in ToSet(Box) : b < m.back
  <2>1. t.op \in Handlers => \A j \in DOMAIN Box : b < Box[j].back
    BY <1>2, <1>3 DEF Nest, Calling, b
  <2>. QED BY <2>1 DEF ToSet
<1>16. Calls = ToSet(Box) \cup (IF t.op \in Handlers THEN {t} ELSE {})
  <2>1. {f \in ToSet(Gui) : f.op \in Handlers} = IF t.op \in Handlers THEN {t} ELSE {}
    BY <1>2, <1>3, <1>12 DEF ToSet
  <2>. QED BY <2>1 DEF Calls
<1>17. Calls' = Calls \ {t}
  <2>1. CASE t.op \in Handlers
    <3>1. t \notin ToSet(Box)
      BY <1>3, <1>15, <2>1 DEF b
    <3>. QED BY <1>14, <1>16, <2>1, <3>1
  <2>2. CASE t.op \notin Handlers
    <3>1. t \notin Calls
      BY <2>2 DEF Nest, Calling
    <3>. QED BY <1>14, <1>16, <2>2, <3>1
  <2>. QED BY <2>1, <2>2
<1>18. SrvPlaces'
  <2>1. Len(Srv') = Len(Srv)
    BY <1>1, <1>8
  <2>. QED BY <1>8, <1>10, <2>1 DEF Nest, SrvPlaces
<1>19. GuiPlaces'
  <2>1. ASSUME NEW i \in DOMAIN Gui'
        PROVE  \/ Gui'[i].op = "box" /\ i = 1 /\ Gui'[i].back = 0 /\ ~Gui'[i].wait
               \/ Gui'[i].op \in Commands /\ Gui'[i].back = 0 /\ (i = 1 \/ (i = 2 /\ Gui'[1].op = "box"))
               \/ Gui'[i].op \in Handlers /\ i = Len(Gui')
    <3>1. i \in DOMAIN Gui /\ Gui'[i] = Gui[i] /\ Gui[i].op \notin Handlers
      BY <1>11, <1>13
    <3>2. i = 2 => 1 \in DOMAIN Gui'
      BY <1>1, <1>11
    <3>3. 1 \in DOMAIN Gui' => Gui'[1] = Gui[1]
      BY <1>11
    <3>. QED BY <3>1, <3>2, <3>3 DEF Nest, GuiPlaces
  <2>. QED BY <2>1 DEF GuiPlaces
<1>20. Pending'
  <2>1. ASSUME NEW k, Awaited(k) PROVE k \in DOMAIN Gui' /\ Gui'[k].wait
    <3>1. k \in DOMAIN Gui /\ Gui[k].wait /\ k # n
      BY <1>3, <2>1 DEF Awaited
    <3>2. k \in DOMAIN Gui'
      BY <1>1, <1>11, <3>1
    <3>. QED BY <1>11, <3>1, <3>2
  <2>2. ASSUME NEW i \in DOMAIN Srv', Srv'[i].back # 0
        PROVE  Srv'[i].back \in DOMAIN Gui' /\ Gui'[Srv'[i].back].wait
    <3>1. i \in DOMAIN Srv /\ Srv'[i].back = Srv[i].back
      BY <1>8, <1>10
    <3>2. Awaited(Srv[i].back)
      BY <2>2, <3>1 DEF Nest, Pending
    <3>. QED BY <2>1, <3>1, <3>2
  <2>3. ASSUME NEW i \in DOMAIN Req PROVE Req[i].back \in DOMAIN Gui' /\ Gui'[Req[i].back].wait
    <3>1. Awaited(Req[i].back)
      BY DEF Nest, Pending
    <3>. QED BY <2>1, <3>1
  <2>4. /\ \A i \in DOMAIN Req : Req[i].op \in Orders /\ ~Req[i].wait /\ Req[i].rest = {}
        /\ Req # <<>> => Len(Req) = 1 /\ \A i \in DOMAIN Srv : Srv[i].back = 0
    BY DEF Nest, Pending
  <2>5. Req # <<>> => \A i \in DOMAIN Srv' : Srv'[i].back = 0
    BY <1>8, <1>10, <2>4
  <2>6. ASSUME NEW i \in DOMAIN Gui', Gui'[i].wait
        PROVE  Req # <<>> \/ \E j \in DOMAIN Srv' : Srv'[j].back # 0
    <3>1. i \in DOMAIN Gui /\ Gui[i].wait
      BY <1>11, <2>6
    <3>2. Req # <<>> \/ \E j \in DOMAIN Srv : Srv[j].back # 0
      BY <3>1 DEF Nest, Pending
    <3>. QED BY <1>8, <1>10, <3>2
  <2>. QED BY <1>9, <2>2, <2>3, <2>4, <2>5, <2>6 DEF Pending, Awaited
<1>21. Calling'
  <2>1. ASSUME NEW m \in Calls'
        PROVE  m.op \in Handlers /\ ~m.wait /\ m.back \in DOMAIN Srv' /\ Srv'[m.back].wait
    <3>1. m.op \in Handlers /\ ~m.wait /\ m.back \in DOMAIN Srv /\ Srv[m.back].wait
      BY <1>17 DEF Nest, Calling
    <3>2. m.back # b
      <4>1. CASE t.op \in Handlers
        <5>1. b < m.back /\ b \in Nat
          BY <1>3, <1>14, <1>15, <4>1 DEF b
        <5>2. m.back \in Nat
          BY <1>1, <3>1
        <5>. QED BY <5>1, <5>2
      <4>2. CASE t.op \notin Handlers
        BY <1>1, <1>6, <3>1, <4>2 DEF b
      <4>. QED BY <4>1, <4>2
    <3>. QED BY <1>8, <1>10, <3>1, <3>2
  <2>2. \A i, j \in DOMAIN Box : i < j => Box[i].back < Box[j].back
    BY DEF Nest, Calling
  <2>. QED BY <1>9, <1>13, <2>1, <2>2 DEF Calling
<1>22. Ends'
  <2>1. down' = down /\ quit' = quit
    BY DEF endVars
  <2>2. "gui" \notin down
    BY DEF Nest, Ends
  <2>3. "srv" \in down => Srv' = <<>>
    <3>1. Srv = <<>> => Srv' = <<>>
      BY <1>1, <1>8
    <3>. QED BY <3>1 DEF Nest, Ends
  <2>. QED BY <2>1, <2>2, <2>3 DEF Nest, Ends
<1>23. t.op \in Handlers => t \in Calls /\ \A m \in Calls' : t.back < m.back
  BY <1>4, <1>14, <1>15 DEF b
<1>. QED BY <1>8, <1>9, <1>10, <1>11, <1>17, <1>18, <1>19, <1>20, <1>21, <1>22, <1>23
         DEF GuiPopped, Nest

\* The same for a handler that has no answer of its own.
LEMMA GuiReturns ==
  ASSUME StackTypes, Nest, Gui # <<>>, ~Top("gui").wait, Return("gui"), UNCHANGED endVars
  PROVE  GuiPopped(Top("gui"))
<1>. DEFINE t == Top("gui")
            w == IF t.back = 0 THEN None ELSE Srv[t.back].w
<1>1. Gui \in Seq(Frames) /\ Srv \in Seq(Frames)
  BY Stacks
<1>2. Len(Gui) \in DOMAIN Gui /\ Last(Gui) = Gui[Len(Gui)]
  BY <1>1, FrontFacts
<1>3. t = Gui[Len(Gui)] /\ t \in Frames
  <2>1. Top("gui") = Last(Gui)
    BY DEF Top, Gui
  <2>. QED BY <1>1, <1>2, <2>1
<1>4. w \in Wins \cup {None}
  <2>1. CASE t.back = 0
    BY <2>1
  <2>2. CASE t.back # 0
    <3>1. t.op \in Handlers
      BY <1>2, <1>3, <2>2 DEF Nest, GuiPlaces
    <3>2. t \in Calls
      BY <1>2, <1>3, <3>1 DEF Calls, ToSet
    <3>3. t.back \in DOMAIN Srv
      BY <3>2 DEF Nest, Calling
    <3>4. Srv[t.back] \in Frames
      BY <1>1, <3>3
    <3>. QED BY <2>2, <3>4 DEF Frames
  <2>. QED BY <2>1, <2>2
<1>5. Answer("gui", w)
  BY DEF Return, Other, Srv
<1>. HIDE DEF t, w
<1>6. t = Top("gui") /\ ~t.wait
  BY DEF t
<1>7. GuiPopped(t)
  BY <1>3, <1>4, <1>5, <1>6, GuiPops
<1>. QED BY <1>7 DEF t

\* Nobody waits on the GUI thread, and so nothing is under way to the main
\* thread nor served there.
Resting == \A i \in DOMAIN Gui : Gui[i].op = "box"

\* No command waits, so that no request is under way or being served.
LEMMA NoRequest ==
  ASSUME StackTypes, Nest, Resting
  PROVE  /\ Req = <<>> /\ \A i \in DOMAIN Srv : Srv[i].back = 0
         /\ \A i \in DOMAIN Gui : i = 1 /\ ~Gui[i].wait /\ Gui[i].back = 0
         /\ Calls = ToSet(Box)
<1>1. DOMAIN Req = 1 .. Len(Req) /\ Len(Req) \in Nat /\ Req \in Seq(Frames)
  BY Stacks
<1>2. \A i \in DOMAIN Gui : i = 1 /\ ~Gui[i].wait /\ Gui[i].back = 0
  BY DEF Nest, GuiPlaces, Resting, Commands, Handlers
<1>3. \A i \in DOMAIN Srv : Srv[i].back = 0
  BY <1>2 DEF Nest, Pending, Awaited
<1>4. \A i \in DOMAIN Req : FALSE
  BY <1>2 DEF Nest, Pending, Awaited
<1>5. Req = <<>>
  <2>1. SUFFICES ASSUME Req # <<>> PROVE FALSE
    OBVIOUS
  <2>2. 1 \in DOMAIN Req
    BY <1>1, <2>1
  <2>. QED BY <1>4, <2>2
<1>6. Calls = ToSet(Box)
  BY DEF Calls, ToSet, Resting, Handlers
<1>. QED BY <1>2, <1>3, <1>5, <1>6

\* The GUI thread sends m to the main thread; f is its new top, a command.
GuiSent(f, m) ==
  /\ StackTypes' /\ Nest'
  /\ Srv' = Srv /\ Calls' = Calls /\ Req = <<>>
  /\ Req' # <<>> /\ \A i \in DOMAIN Req' : Req'[i].op = m.op
  /\ \A i \in DOMAIN Gui' : \/ i \in DOMAIN Gui /\ Gui'[i] = Gui[i]
                            \/ Gui'[i].op = f.op /\ Gui'[i].w = f.w
  /\ \E i \in DOMAIN Gui' : Gui'[i].op = f.op

\* The frames fs are those below the place n of the GUI thread.
Boxes(fs, n) == \A i \in 1 .. n - 1 : i \in DOMAIN Gui /\ fs[i] = Gui[i]

\* A command sends its request and waits.
LEMMA GuiSends ==
  ASSUME StackTypes, Nest, Resting, NEW fs \in Seq(Frames), NEW f \in Frames, NEW m \in Frames,
         NEW n \in Nat \ {0}, Len(fs) = n - 1, Boxes(fs, n), f.op \in Commands, f.back = 0,
         m.op \in Orders, ~m.wait, m.rest = {}, "gui" \notin down, down \subseteq quit,
         SendFrom("gui", fs, f, m), UNCHANGED endVars
  PROVE  GuiSent(f, m)
<1>. DEFINE g == Waiting(f, TRUE)
            q == Addressed(m, n)
<1>0. /\ Req = <<>> /\ \A i \in DOMAIN Srv : Srv[i].back = 0
      /\ \A i \in DOMAIN Gui : i = 1 /\ ~Gui[i].wait /\ Gui[i].back = 0
      /\ Calls = ToSet(Box)
  BY NoRequest
<1>1. "srv" \notin down
  BY DEF Nest, Ends
<1>2. /\ g \in Frames /\ g.wait = TRUE /\ g.op = f.op /\ g.w = f.w /\ g.back = 0
      /\ q \in Frames /\ q.back = n /\ q.op = m.op /\ q.wait = m.wait /\ q.rest = {}
  <2>1. TRUE \in BOOLEAN
    OBVIOUS
  <2>2. /\ g \in Frames /\ g.wait = TRUE /\ g.op = f.op /\ g.w = f.w /\ g.back = f.back
    BY <2>1, WaitingKept
  <2>3. /\ q \in Frames /\ q.back = n /\ q.op = m.op /\ q.wait = m.wait /\ q.rest = m.rest
    BY AddressedKept
  <2>. QED BY <2>2, <2>3
<1>a. Len(fs) + 1 = n
  OBVIOUS
<1>3. /\ stack' = [stack EXCEPT !["gui"] = Append(fs, g)]
      /\ inbox' = [inbox EXCEPT !["srv"] = Append(@, q)]
  BY <1>a, <1>1 DEF SendFrom, Other, Waiting, Addressed
<1>. HIDE DEF g, q
<1>4. /\ Append(fs, g) \in Seq(Frames) /\ DOMAIN Append(fs, g) = 1 .. n
      /\ Len(Append(fs, g)) = n /\ Append(fs, g)[n] = g
      /\ \A i \in 1 .. n - 1 : Append(fs, g)[i] = fs[i]
  BY <1>2, <1>a, AppendFacts
<1>5. <<q>> \in Seq(Frames) /\ DOMAIN <<q>> = {1} /\ <<q>>[1] = q /\ Len(<<q>>) = 1
  BY <1>2
<1>6. /\ Gui' = Append(fs, g) /\ Srv' = Srv /\ Box' = Box /\ Req' = <<q>>
  <2>1. Append(Req, q) = <<q>>
    BY <1>0
  <2>. QED BY <1>3, <2>1 DEF StackTypes, Srv, Gui, Req, Box, Threads
<1>7. StackTypes'
  <2>1. Append(Req, q) \in Seq(Frames)
    BY <1>0, <1>5
  <2>. QED BY <1>3, <1>4, <2>1 DEF StackTypes, Req, Threads
<1>8. /\ DOMAIN Gui' = 1 .. n /\ Gui'[n] = g /\ Len(Gui') = n
      /\ \A i \in 1 .. n - 1 : i \in DOMAIN Gui /\ Gui'[i] = Gui[i]
  BY <1>4, <1>6 DEF Boxes
<1>9. \A i \in 1 .. n - 1 : i = 1 /\ Gui'[i].op = "box" /\ ~Gui'[i].wait /\ Gui'[i].back = 0
  BY <1>0, <1>8 DEF Resting
<1>b. n = 1 \/ n = 2
  <2>1. SUFFICES ASSUME n # 1, n # 2 PROVE FALSE
    OBVIOUS
  <2>2. 2 \in 1 .. n - 1
    BY <2>1
  <2>. QED BY <1>9, <2>2
<1>10. Calls' = Calls
  <2>1. \A i \in DOMAIN Gui' : Gui'[i].op \notin Handlers
    BY <1>2, <1>8, <1>9 DEF Handlers, Commands
  <2>2. {k \in ToSet(Gui') : k.op \in Handlers} = {}
    BY <2>1 DEF ToSet
  <2>. QED BY <1>0, <1>6, <2>2 DEF Calls
<1>11. SrvPlaces'
  BY <1>6 DEF Nest, SrvPlaces
<1>12. GuiPlaces'
  <2>1. ASSUME NEW i \in DOMAIN Gui'
        PROVE  \/ Gui'[i].op = "box" /\ i = 1 /\ Gui'[i].back = 0 /\ ~Gui'[i].wait
               \/ Gui'[i].op \in Commands /\ Gui'[i].back = 0 /\ (i = 1 \/ (i = 2 /\ Gui'[1].op = "box"))
    <3>1. CASE i \in 1 .. n - 1
      BY <1>9, <3>1
    <3>2. CASE i = n
      <4>1. n = 2 => Gui'[1].op = "box"
        BY <1>9
      <4>. QED BY <1>2, <1>8, <1>b, <3>2, <4>1
    <3>. QED BY <1>8, <3>1, <3>2
  <2>. QED BY <2>1 DEF GuiPlaces
<1>13. Pending'
  <2>1. n \in DOMAIN Gui' /\ Gui'[n].wait
    BY <1>2, <1>8
  <2>. QED BY <1>0, <1>2, <1>5, <1>6, <2>1 DEF Pending, Awaited
<1>14. Calling'
  <2>1. \A i \in DOMAIN Gui' : Gui'[i].op \notin Handlers
    BY <1>2, <1>8, <1>9 DEF Handlers, Commands
  <2>2. \A k \in Calls : k.op \in Handlers /\ ~k.wait /\ k.back \in DOMAIN Srv /\ Srv[k.back].wait
    BY DEF Nest, Calling
  <2>3. \A i, j \in DOMAIN Box : i < j => Box[i].back < Box[j].back
    BY DEF Nest, Calling
  <2>. QED BY <1>6, <1>10, <2>1, <2>2, <2>3 DEF Calling
<1>15. Ends'
  BY <1>6 DEF Nest, Ends, endVars
<1>16. \A i \in DOMAIN Req' : Req'[i].op = m.op
  BY <1>2, <1>5, <1>6
<1>17. Req' # <<>>
  BY <1>5, <1>6
<1>18. /\ \A i \in DOMAIN Gui' : \/ i \in DOMAIN Gui /\ Gui'[i] = Gui[i]
                                 \/ Gui'[i].op = f.op /\ Gui'[i].w = f.w
       /\ \E i \in DOMAIN Gui' : Gui'[i].op = f.op
  BY <1>2, <1>8
<1>. QED BY <1>0, <1>6, <1>7, <1>10, <1>11, <1>12, <1>13, <1>14, <1>15, <1>16, <1>17, <1>18
         DEF GuiSent, Nest

\* The main thread takes the request of the GUI, which the command that waits
\* goes on waiting for.
SrvTook ==
  /\ StackTypes' /\ Nest'
  /\ Gui' = Gui /\ Calls' = Calls /\ Req' = <<>>
  /\ \A i \in DOMAIN Srv : i \in DOMAIN Srv' /\ Srv'[i] = Srv[i]
  /\ \A i \in DOMAIN Srv' : \/ i \in DOMAIN Srv
                            \/ 1 \in DOMAIN Req /\ Srv'[i] = Req[1]

\* The main thread takes the request.
LEMMA SrvTakes ==
  ASSUME StackTypes, Nest, Take("srv")
  PROVE  SrvTook
<1>. DEFINE n == Len(Srv) + 1
            r == Head(Req)
<1>1. /\ Srv \in Seq(Frames) /\ Req \in Seq(Frames) /\ DOMAIN Srv = 1 .. Len(Srv)
      /\ Len(Srv) \in Nat /\ DOMAIN Req = 1 .. Len(Req)
  BY Stacks
<1>2. Req # <<>> /\ "srv" \in Threads
  BY DEF Take, Req, Threads
<1>3. r = Req[1] /\ 1 \in DOMAIN Req /\ Tail(Req) \in Seq(Frames) /\ Len(Tail(Req)) = Len(Req) - 1
  BY <1>1, <1>2, TailFacts
<1>4. Len(Req) = 1 /\ \A i \in DOMAIN Srv : Srv[i].back = 0
  BY <1>2 DEF Nest, Pending
<1>5. Tail(Req) = <<>>
  <2>1. \A s \in Seq(Frames) : Len(s) = 0 => s = <<>>
    OBVIOUS
  <2>2. Len(Tail(Req)) = 0
    BY <1>3, <1>4
  <2>3. Tail(Req) \in Seq(Frames)
    BY <1>3
  <2>. QED BY <2>1, <2>2, <2>3, Zenon
<1>6. r \in Frames /\ r.op \in Orders /\ ~r.wait /\ Awaited(r.back)
  BY <1>1, <1>3 DEF Nest, Pending
<1>7. r.back # 0
  <2>1. DOMAIN Gui = 1 .. Len(Gui)
    BY Stacks
  <2>. QED BY <1>6, <2>1 DEF Awaited
<1>8. /\ stack' = [stack EXCEPT !["srv"] = Append(Srv, r)] /\ inbox' = [inbox EXCEPT !["srv"] = <<>>]
      /\ endVars' = endVars
  BY <1>5 DEF Take, Srv, Req
<1>. HIDE DEF r
<1>9. /\ Append(Srv, r) \in Seq(Frames) /\ DOMAIN Append(Srv, r) = 1 .. n
      /\ Len(Append(Srv, r)) = n
      /\ \A i \in DOMAIN Srv : Append(Srv, r)[i] = Srv[i]
      /\ Append(Srv, r)[n] = r
  BY <1>1, <1>6, AppendFacts
<1>10. Srv' = Append(Srv, r) /\ Gui' = Gui /\ Box' = Box /\ Req' = <<>>
  BY <1>2, <1>8 DEF StackTypes, Srv, Gui, Req, Box, Threads
<1>11. StackTypes'
  <2>1. <<>> \in Seq(Frames)
    OBVIOUS
  <2>. QED BY <1>8, <1>9, <2>1 DEF StackTypes
<1>12. Calls' = Calls
  BY <1>10 DEF Calls
<1>13. /\ DOMAIN Srv' = 1 .. n /\ Len(Srv') = n /\ Srv'[n] = r
       /\ \A i \in DOMAIN Srv : i \in DOMAIN Srv' /\ Srv'[i] = Srv[i]
       /\ \A i \in DOMAIN Srv' : i \in DOMAIN Srv \/ i = n
  BY <1>1, <1>9, <1>10
<1>14. SrvPlaces'
  <2>1. \A i \in DOMAIN Srv : i = 1 /\ Srv[i].op \in Own
    BY <1>4 DEF Nest, SrvPlaces
  <2>2. r.op \in Requests
    BY <1>6 DEF Orders
  <2>. QED BY <1>4, <1>7, <1>13, <2>1, <2>2 DEF SrvPlaces
<1>15. GuiPlaces'
  BY <1>10 DEF Nest, GuiPlaces
<1>16. Pending'
  <2>1. n \in DOMAIN Srv' /\ Srv'[n].back # 0
    BY <1>1, <1>7, <1>13
  <2>2. ASSUME NEW i \in DOMAIN Srv', Srv'[i].back # 0
        PROVE  Srv'[i].back \in DOMAIN Gui /\ Gui[Srv'[i].back].wait
    <3>1. i = n
      BY <1>4, <1>13, <2>2
    <3>. QED BY <1>6, <1>13, <3>1 DEF Awaited
  <2>. QED BY <1>10, <2>1, <2>2 DEF Pending, Awaited
<1>17. Calling'
  <2>1. \A k \in Calls : k.op \in Handlers /\ ~k.wait /\ k.back \in DOMAIN Srv /\ Srv[k.back].wait
    BY DEF Nest, Calling
  <2>2. /\ \A i, j \in DOMAIN Box : i < j => Box[i].back < Box[j].back
        /\ \A i \in DOMAIN Gui, j \in DOMAIN Box : Gui[i].op \in Handlers => Gui[i].back < Box[j].back
    BY DEF Nest, Calling
  <2>3. \A k \in Calls : k.back \in DOMAIN Srv' /\ Srv'[k.back].wait
    BY <1>13, <2>1
  <2>. QED BY <1>10, <1>12, <2>1, <2>2, <2>3 DEF Calling
<1>18. Ends'
  <2>1. down' = down /\ quit' = quit
    BY <1>8 DEF endVars
  <2>2. "gui" \notin down
    BY <1>6 DEF Nest, Ends, Awaited
  <2>3. "srv" \notin down
    <3>1. CASE Free("srv")
      BY <3>1 DEF Free
    <3>2. CASE Top("srv").wait
      BY <3>2 DEF Nest, Ends, Top, Blank, Srv
    <3>. QED BY <3>1, <3>2 DEF Take
  <2>. QED BY <1>10, <2>1, <2>2, <2>3 DEF Nest, Ends
<1>. QED BY <1>3, <1>10, <1>11, <1>12, <1>13, <1>14, <1>15, <1>16, <1>17, <1>18
         DEF SrvTook, Nest, r

\* The GUI thread takes the earliest call.
GuiTook ==
  /\ StackTypes' /\ Nest'
  /\ Srv' = Srv /\ Calls' = Calls /\ Req' = Req
  /\ \A i \in DOMAIN Gui : i \in DOMAIN Gui' /\ Gui'[i] = Gui[i]
  /\ \A i \in DOMAIN Gui' : i \in DOMAIN Gui \/ Gui'[i].op \in Handlers
  /\ ~At("gui", "listed")

\* The GUI thread takes the earliest call.
LEMMA GuiTakes ==
  ASSUME StackTypes, Nest, Take("gui")
  PROVE  GuiTook
<1>. DEFINE n == Len(Gui) + 1
            r == Head(Box)
<1>1. /\ Gui \in Seq(Frames) /\ Box \in Seq(Frames) /\ DOMAIN Gui = 1 .. Len(Gui)
      /\ Len(Gui) \in Nat /\ DOMAIN Box = 1 .. Len(Box) /\ Len(Box) \in Nat
  BY Stacks
<1>2. Box # <<>> /\ "gui" \in Threads
  BY DEF Take, Box, Threads
<1>3. /\ r = Box[1] /\ 1 \in DOMAIN Box /\ Tail(Box) \in Seq(Frames)
      /\ DOMAIN Tail(Box) = 1 .. Len(Box) - 1
      /\ \A i \in DOMAIN Tail(Box) : i + 1 \in DOMAIN Box /\ Tail(Box)[i] = Box[i + 1]
      /\ r \in Frames
  BY <1>1, <1>2, TailFacts
<1>4. ToSet(Box) = {r} \cup ToSet(Tail(Box))
  BY <1>1, <1>2, HeadTail
<1>5. r.op \in Handlers /\ r \in Calls
  <2>1. r \in Calls
    BY <1>3 DEF Calls, ToSet
  <2>. QED BY <2>1 DEF Nest, Calling
<1>6. /\ stack' = [stack EXCEPT !["gui"] = Append(Gui, r)]
      /\ inbox' = [inbox EXCEPT !["gui"] = Tail(Box)] /\ endVars' = endVars
  BY DEF Take, Gui, Box
<1>7. Free("gui") \/ Top("gui").wait
  BY DEF Take
<1>. HIDE DEF r
<1>8. /\ Append(Gui, r) \in Seq(Frames) /\ DOMAIN Append(Gui, r) = 1 .. n
      /\ Len(Append(Gui, r)) = n
      /\ \A i \in DOMAIN Gui : Append(Gui, r)[i] = Gui[i]
      /\ Append(Gui, r)[n] = r
  BY <1>1, <1>3, AppendFacts
<1>9. Gui' = Append(Gui, r) /\ Srv' = Srv /\ Req' = Req /\ Box' = Tail(Box)
  BY <1>2, <1>6 DEF StackTypes, Srv, Gui, Req, Box, Threads
<1>10. StackTypes'
  BY <1>3, <1>6, <1>8 DEF StackTypes
<1>11. /\ DOMAIN Gui' = 1 .. n /\ Len(Gui') = n /\ Gui'[n] = r
       /\ \A i \in DOMAIN Gui : i \in DOMAIN Gui' /\ Gui'[i] = Gui[i]
       /\ \A i \in DOMAIN Gui' : i \in DOMAIN Gui \/ i = n
  BY <1>1, <1>8, <1>9
<1>12. \A i \in DOMAIN Gui : Gui[i].op \notin Handlers
  <2>1. SUFFICES ASSUME NEW i \in DOMAIN Gui, Gui[i].op \in Handlers PROVE FALSE
    OBVIOUS
  <2>2. i = Len(Gui)
    BY <2>1 DEF Nest, GuiPlaces, Commands, Handlers
  <2>3. Top("gui") = Gui[i]
    <3>1. Last(Gui) = Gui[Len(Gui)] /\ Gui # <<>>
      <4>1. Gui # <<>>
        BY <1>1, <2>2
      <4>. QED BY <1>1, <4>1, FrontFacts
    <3>. QED BY <2>2, <3>1 DEF Top, Gui
  <2>4. ~Gui[i].wait
    <3>1. Gui[i] \in Calls
      BY <2>1 DEF Calls, ToSet
    <3>. QED BY <3>1 DEF Nest, Calling
  <2>. QED BY <1>7, <2>1, <2>3, <2>4 DEF Free, Handlers
<1>13. Calls = ToSet(Box)
  BY <1>12 DEF Calls, ToSet
<1>14. Calls' = Calls
  <2>1. {k \in ToSet(Gui') : k.op \in Handlers} = {r}
    <3>1. n \in DOMAIN Gui'
      BY <1>1, <1>11
    <3>2. \A i \in DOMAIN Gui' : Gui'[i].op \in Handlers => Gui'[i] = r
      BY <1>11, <1>12
    <3>. QED BY <1>5, <1>11, <3>1, <3>2 DEF ToSet
  <2>. QED BY <1>4, <1>9, <1>13, <2>1 DEF Calls
<1>15. SrvPlaces'
  BY <1>9 DEF Nest, SrvPlaces
<1>16. GuiPlaces'
  <2>1. ASSUME NEW i \in DOMAIN Gui'
        PROVE  \/ Gui'[i].op = "box" /\ i = 1 /\ Gui'[i].back = 0 /\ ~Gui'[i].wait
               \/ Gui'[i].op \in Commands /\ Gui'[i].back = 0 /\ (i = 1 \/ (i = 2 /\ Gui'[1].op = "box"))
               \/ Gui'[i].op \in Handlers /\ i = Len(Gui')
    <3>1. CASE i \in DOMAIN Gui
      <4>1. Gui'[i] = Gui[i] /\ Gui[i].op \notin Handlers
        BY <1>11, <1>12, <3>1
      <4>2. 1 \in DOMAIN Gui /\ Gui'[1] = Gui[1]
        BY <1>1, <1>11, <3>1
      <4>. QED BY <3>1, <4>1, <4>2 DEF Nest, GuiPlaces
    <3>2. CASE i = n
      BY <1>5, <1>11, <3>2
    <3>. QED BY <1>11, <3>1, <3>2
  <2>. QED BY <2>1 DEF GuiPlaces
<1>17. Pending'
  <2>1. ASSUME NEW k, Awaited(k) PROVE k \in DOMAIN Gui' /\ Gui'[k].wait
    BY <1>11, <2>1 DEF Awaited
  <2>2. ASSUME NEW i \in DOMAIN Srv, Srv[i].back # 0
        PROVE  Srv[i].back \in DOMAIN Gui' /\ Gui'[Srv[i].back].wait
    <3>1. Awaited(Srv[i].back)
      BY <2>2 DEF Nest, Pending
    <3>. QED BY <2>1, <3>1
  <2>3. ASSUME NEW i \in DOMAIN Req PROVE Req[i].back \in DOMAIN Gui' /\ Gui'[Req[i].back].wait
    <3>1. Awaited(Req[i].back)
      BY DEF Nest, Pending
    <3>. QED BY <2>1, <3>1
  <2>4. /\ \A i \in DOMAIN Req : Req[i].op \in Orders /\ ~Req[i].wait /\ Req[i].rest = {}
        /\ Req # <<>> => Len(Req) = 1 /\ \A i \in DOMAIN Srv : Srv[i].back = 0
    BY DEF Nest, Pending
  <2>5. ASSUME NEW i \in DOMAIN Gui', Gui'[i].wait
        PROVE  Req # <<>> \/ \E j \in DOMAIN Srv : Srv[j].back # 0
    <3>1. ~r.wait
      BY <1>5 DEF Nest, Calling
    <3>2. i \in DOMAIN Gui /\ Gui[i].wait
      BY <1>11, <2>5, <3>1
    <3>. QED BY <3>2 DEF Nest, Pending
  <2>. QED BY <1>9, <2>2, <2>3, <2>4, <2>5 DEF Pending, Awaited
<1>18. Calling'
  <2>1. \A k \in Calls : k.op \in Handlers /\ ~k.wait /\ k.back \in DOMAIN Srv /\ Srv[k.back].wait
    BY DEF Nest, Calling
  <2>2. \A i, j \in DOMAIN Box : i < j => Box[i].back < Box[j].back
    BY DEF Nest, Calling
  <2>3. ASSUME NEW i \in DOMAIN Box', NEW j \in DOMAIN Box', i < j
        PROVE  Box'[i].back < Box'[j].back
    <3>1. i + 1 \in DOMAIN Box /\ Box'[i] = Box[i + 1] /\ j + 1 \in DOMAIN Box /\ Box'[j] = Box[j + 1]
      BY <1>3, <1>9
    <3>2. i + 1 < j + 1
      BY <1>1, <1>3, <1>9, <2>3
    <3>. QED BY <2>2, <3>1, <3>2
  <2>4. ASSUME NEW i \in DOMAIN Gui', NEW j \in DOMAIN Box', Gui'[i].op \in Handlers
        PROVE  Gui'[i].back < Box'[j].back
    <3>1. Gui'[i] = r
      BY <1>11, <1>12, <2>4
    <3>2. j + 1 \in DOMAIN Box /\ Box'[j] = Box[j + 1] /\ 1 < j + 1
      BY <1>1, <1>3, <1>9
    <3>. QED BY <1>3, <2>2, <3>1, <3>2
  <2>. QED BY <1>9, <1>14, <2>1, <2>3, <2>4 DEF Calling
<1>19. Ends'
  <2>1. down' = down /\ quit' = quit
    BY <1>6 DEF endVars
  <2>2. "gui" \notin down
    BY <1>2 DEF Nest, Ends
  <2>. QED BY <1>9, <2>1, <2>2 DEF Nest, Ends
<1>20. ~At("gui", "listed")
  BY <1>7 DEF At, Free
<1>. QED BY <1>5, <1>9, <1>10, <1>11, <1>14, <1>15, <1>16, <1>17, <1>18, <1>19, <1>20
         DEF GuiTook, Nest

\* A handler of the main thread begins with a call.
LEMMA SrvStart ==
  ASSUME StackTypes, Nest, Idle("srv"), NEW f \in Frames, NEW m \in Frames,
         f.op \in Own, f.back = 0, m.op \in Handlers, ~m.wait,
         SendFrom("srv", <<>>, f, m), UNCHANGED endVars
  PROVE  SrvSent(f, m, 1)
<1>1. Srv = <<>> /\ "srv" \notin down
  BY DEF Idle, Srv
<1>2. <<>> \in Seq(Frames) /\ Len(<<>>) = 1 - 1 /\ 1 \in Nat \ {0}
  OBVIOUS
<1>3. Below(<<>>, 1)
  BY DEF Below
<1>4. Fitting(f, 1)
  BY <1>1 DEF Fitting
<1>. DEFINE e == <<>>
<1>5. e \in Seq(Frames) /\ Len(e) = 1 - 1 /\ Below(e, 1) /\ SendFrom("srv", e, f, m)
  BY <1>2, <1>3
<1>. HIDE DEF e
<1>. QED BY <1>1, <1>2, <1>4, <1>5, SrvSends

\* A handler of the main thread goes on with another call.
LEMMA SrvGoesOn ==
  ASSUME StackTypes, Nest, NEW op \in Ops, At("srv", op), NEW f \in Frames, NEW m \in Frames,
         f.back = Top("srv").back, IF f.back = 0 THEN f.op \in Own ELSE f.op \in Requests,
         m.op \in Handlers, ~m.wait,
         SendFrom("srv", Front(Srv), f, m), UNCHANGED endVars
  PROVE  SrvSent(f, m, Len(Srv))
<1>. DEFINE n == Len(Srv)
            fs == Front(Srv)
<1>0. "srv" \in Threads
  BY DEF Threads
<1>1. /\ Srv # <<>> /\ n \in Nat \ {0} /\ n \in DOMAIN Srv /\ Top("srv") = Srv[n]
      /\ ~Srv[n].wait /\ Srv \in Seq(Frames)
  BY <1>0, AtTop DEF Srv
<1>2. /\ fs \in Seq(Frames) /\ Len(fs) = n - 1 /\ DOMAIN fs = 1 .. n - 1
      /\ \A i \in DOMAIN fs : i \in DOMAIN Srv /\ fs[i] = Srv[i]
  BY <1>1, FrontFacts
<1>3. DOMAIN Srv = 1 .. n
  BY Stacks
<1>4. Below(fs, n)
  BY <1>2 DEF Below
<1>5. \A i \in DOMAIN Srv : \/ i \in 1 .. n - 1 /\ Srv[i].back = 0
                            \/ i = n /\ ~Srv[i].wait /\ Srv[i].back = f.back
  <2>1. ASSUME NEW i \in DOMAIN Srv, i # n PROVE i \in 1 .. n - 1 /\ Srv[i].back = 0
    <3>1. Srv[i].back = 0
      BY <2>1, Depth
    <3>2. i \in 1 .. n - 1
      BY <1>1, <1>3, <2>1
    <3>. QED BY <3>1, <3>2
  <2>. QED BY <1>1, <2>1
<1>6. IF f.back = 0 THEN n = 1 /\ f.op \in Own ELSE n \in DOMAIN Srv /\ f.op \in Requests
  <2>1. f.back = 0 => n = 1
    BY <1>1 DEF Nest, SrvPlaces
  <2>. QED BY <1>1, <2>1
<1>7. Fitting(f, n)
  BY <1>5, <1>6 DEF Fitting
<1>8. "srv" \notin down
  BY <1>1 DEF Nest, Ends
<1>9. n \in Nat \ {0} /\ SendFrom("srv", fs, f, m) /\ Len(fs) = n - 1
  BY <1>1, <1>2
<1>. HIDE DEF fs, n
<1>10. SrvSent(f, m, n)
  BY <1>2, <1>4, <1>7, <1>8, <1>9, SrvSends
<1>. QED BY <1>10 DEF n

\* A frame begins on the main thread, or one that waits for nobody takes the
\* place of the one on top: no message is sent.
SrvBegun(f) ==
  /\ StackTypes' /\ Nest'
  /\ Srv = <<>> /\ Srv' = <<f>> /\ Gui' = Gui /\ Req' = Req /\ Calls' = Calls /\ Calls = {}

\* A handler of the main thread begins without a call.
LEMMA SrvBegins ==
  ASSUME StackTypes, Nest, Idle("srv"), NEW f \in Frames, f.op \in Own, f.back = 0, ~f.wait,
         stack' = [stack EXCEPT !["srv"] = <<f>>], inbox' = inbox, UNCHANGED endVars
  PROVE  SrvBegun(f)
<1>1. Srv = <<>> /\ "srv" \notin down
  BY DEF Idle, Srv
<1>2. <<f>> \in Seq(Frames) /\ DOMAIN <<f>> = {1} /\ <<f>>[1] = f /\ Len(<<f>>) = 1
  OBVIOUS
<1>3. Srv' = <<f>> /\ Gui' = Gui /\ Req' = Req /\ Box' = Box
  BY DEF StackTypes, Srv, Gui, Req, Box, Threads
<1>4. StackTypes'
  BY <1>2 DEF StackTypes
<1>5. \A i \in DOMAIN Srv : FALSE
  BY <1>1
<1>6. Calls' = Calls
  BY <1>3 DEF Calls
<1>7. Calls = {}
  BY <1>5 DEF Nest, Calling
<1>8. DOMAIN Srv' = {1} /\ Srv'[1] = f
  BY <1>2, <1>3
<1>9. SrvPlaces'
  BY <1>8 DEF SrvPlaces
<1>10. GuiPlaces'
  BY <1>3 DEF Nest, GuiPlaces
<1>11. Pending'
  <2>1. /\ \A i \in DOMAIN Req : /\ Awaited(Req[i].back) /\ Req[i].op \in Orders
                                 /\ ~Req[i].wait /\ Req[i].rest = {}
        /\ Req # <<>> => Len(Req) = 1
        /\ \A i \in DOMAIN Gui : Gui[i].wait => Req # <<>>
    BY <1>5 DEF Nest, Pending
  <2>. QED BY <1>3, <1>8, <2>1 DEF Pending, Awaited
<1>12. Calling'
  <2>1. /\ \A i, j \in DOMAIN Box : i < j => Box[i].back < Box[j].back
        /\ \A i \in DOMAIN Gui, j \in DOMAIN Box : Gui[i].op \in Handlers => Gui[i].back < Box[j].back
    BY DEF Nest, Calling
  <2>. QED BY <1>3, <1>6, <1>7, <2>1 DEF Calling
<1>13. Ends'
  <2>1. down' = down /\ quit' = quit
    BY DEF endVars
  <2>. QED BY <1>1, <1>3, <1>8, <2>1 DEF Nest, Ends
<1>. QED BY <1>1, <1>3, <1>4, <1>6, <1>7, <1>9, <1>10, <1>11, <1>12, <1>13 DEF SrvBegun, Nest

\* A message box comes up.
GuiBoxed(f) ==
  /\ StackTypes' /\ Nest'
  /\ Gui = <<>> /\ Gui' = <<f>> /\ Srv' = Srv /\ Req' = Req /\ Calls' = Calls

\* The effect of a message box on stacks and messages.
LEMMA GuiBoxes ==
  ASSUME StackTypes, Nest, Idle("gui"), NEW f \in Frames, f.op = "box", f.back = 0, ~f.wait,
         stack' = [stack EXCEPT !["gui"] = <<f>>], inbox' = inbox, UNCHANGED endVars
  PROVE  GuiBoxed(f)
<1>1. Gui = <<>> /\ "gui" \notin down
  BY DEF Idle, Gui
<1>2. <<f>> \in Seq(Frames) /\ DOMAIN <<f>> = {1} /\ <<f>>[1] = f /\ Len(<<f>>) = 1
  OBVIOUS
<1>3. Gui' = <<f>> /\ Srv' = Srv /\ Req' = Req /\ Box' = Box
  BY DEF StackTypes, Srv, Gui, Req, Box, Threads
<1>4. StackTypes'
  BY <1>2 DEF StackTypes
<1>5. Resting
  BY <1>1 DEF Resting
<1>6. /\ Req = <<>> /\ \A i \in DOMAIN Srv : Srv[i].back = 0
      /\ Calls = ToSet(Box)
  BY <1>5, NoRequest
<1>7. DOMAIN Gui' = {1} /\ Gui'[1] = f
  BY <1>2, <1>3
<1>8. \A i \in DOMAIN Gui' : Gui'[i].op \notin Handlers
  BY <1>7 DEF Handlers
<1>9. Calls' = Calls
  BY <1>3, <1>6, <1>8 DEF Calls, ToSet
<1>10. SrvPlaces'
  BY <1>3 DEF Nest, SrvPlaces
<1>11. GuiPlaces'
  BY <1>7 DEF GuiPlaces
<1>12. Pending'
  BY <1>3, <1>6, <1>7 DEF Pending
<1>13. Calling'
  <2>1. \A i, j \in DOMAIN Box : i < j => Box[i].back < Box[j].back
    BY DEF Nest, Calling
  <2>2. \A k \in Calls : k.op \in Handlers /\ ~k.wait /\ k.back \in DOMAIN Srv /\ Srv[k.back].wait
    BY DEF Nest, Calling
  <2>. QED BY <1>3, <1>8, <1>9, <2>1, <2>2 DEF Calling
<1>14. Ends'
  BY <1>1, <1>3 DEF Nest, Ends, endVars
<1>. QED BY <1>1, <1>3, <1>4, <1>9, <1>10, <1>11, <1>12, <1>13, <1>14 DEF GuiBoxed, Nest

\* The GUI thread ends: nobody is called any more, nobody waits.
GuiEnded ==
  /\ StackTypes' /\ Nest'
  /\ Gui' = <<>> /\ Calls' = {} /\ Req' = <<>> /\ DOMAIN Srv' = DOMAIN Srv
  /\ \A i \in DOMAIN Srv : /\ Srv'[i].op = Srv[i].op /\ Srv'[i].c = Srv[i].c
                           /\ Srv'[i].rest = Srv[i].rest
  /\ \A i \in DOMAIN Srv : Srv[i].back = 0

\* What was sent to the windows comes back unanswered.
LEMMA GuiEnding ==
  ASSUME StackTypes, Nest, GuiEnds
  PROVE  GuiEnded
<1>1. Gui = <<>> /\ "gui" \in quit /\ "gui" \notin down
  BY DEF GuiEnds, Idle, Gui
<1>2. Resting
  BY <1>1 DEF Resting
<1>3. Req = <<>> /\ \A i \in DOMAIN Srv : Srv[i].back = 0
  BY <1>2, NoRequest
<1>4. Srv \in Seq(Frames) /\ DOMAIN Srv = 1 .. Len(Srv) /\ Len(Srv) \in Nat
  BY Stacks
<1>. DEFINE s == [i \in DOMAIN Srv |-> Waiting(Srv[i], FALSE)]
<1>5. stack' = [stack EXCEPT !["srv"] = s] /\ inbox' = [inbox EXCEPT !["gui"] = <<>>]
  BY DEF GuiEnds, Srv, Waiting
<1>6. ASSUME NEW i \in DOMAIN Srv
      PROVE  /\ s[i] \in Frames /\ s[i].op = Srv[i].op /\ s[i].c = Srv[i].c
             /\ s[i].rest = Srv[i].rest /\ s[i].back = Srv[i].back /\ s[i].wait = FALSE
  <2>. DEFINE g == Srv[i]
  <2>1. g \in Frames /\ FALSE \in BOOLEAN
    BY <1>4
  <2>. DEFINE h == Waiting(g, FALSE)
  <2>2. s[i] = h
    OBVIOUS
  <2>. HIDE DEF g, s
  <2>3. /\ h \in Frames /\ h.op = g.op /\ h.c = g.c
        /\ h.rest = g.rest /\ h.back = g.back /\ h.wait = FALSE
    BY <2>1, WaitingKept
  <2>. HIDE DEF h
  <2>4. /\ s[i] \in Frames /\ s[i].op = g.op /\ s[i].c = g.c
        /\ s[i].rest = g.rest /\ s[i].back = g.back /\ s[i].wait = FALSE
    BY <2>2, <2>3
  <2>. QED BY <2>4 DEF g
<1>7. DOMAIN s = DOMAIN Srv
  OBVIOUS
<1>. HIDE DEF s
<1>8. s \in Seq(Frames) /\ Len(s) = Len(Srv)
  <2>1. s \in [1 .. Len(Srv) -> Frames]
    <3>1. s = [i \in DOMAIN Srv |-> s[i]]
      BY DEF s
    <3>. QED BY <1>4, <1>6, <3>1
  <2>. QED BY <1>4, <2>1
<1>9. Srv' = s /\ Gui' = Gui /\ Req' = Req /\ Box' = <<>>
  BY <1>5 DEF StackTypes, Srv, Gui, Req, Box, Threads
<1>10. StackTypes'
  <2>1. <<>> \in Seq(Frames)
    OBVIOUS
  <2>. QED BY <1>5, <1>8, <2>1 DEF StackTypes
<1>11. Calls' = {}
  <2>1. Gui' = <<>> /\ Box' = <<>>
    BY <1>1, <1>9
  <2>. QED BY <2>1 DEF Calls, ToSet
<1>a. /\ DOMAIN Srv' = DOMAIN Srv /\ Len(Srv') = Len(Srv)
      /\ \A i \in DOMAIN Srv : Srv'[i].op = Srv[i].op /\ Srv'[i].back = Srv[i].back
  BY <1>6, <1>7, <1>8, <1>9
<1>12. SrvPlaces'
  BY <1>a DEF Nest, SrvPlaces
<1>13. GuiPlaces' /\ Pending'
  <2>1. Gui' = <<>> /\ Req' = <<>>
    BY <1>1, <1>3, <1>9
  <2>2. \A i \in DOMAIN Srv' : Srv'[i].back = 0
    BY <1>3, <1>a
  <2>. QED BY <2>1, <2>2 DEF GuiPlaces, Pending
<1>14. Calling'
  BY <1>1, <1>9, <1>11 DEF Calling
<1>15. Ends'
  <2>1. down' = down \cup {"gui"} /\ quit' = quit \cup {"srv"}
    BY DEF GuiEnds
  <2>2. "srv" \in down' => Srv' = <<>>
    <3>1. Srv = <<>> => s = <<>>
      BY <1>8
    <3>. QED BY <1>9, <2>1, <3>1 DEF Nest, Ends
  <2>3. Gui' = <<>> /\ Box' = <<>> /\ \A i \in DOMAIN Srv' : ~Srv'[i].wait
    BY <1>1, <1>6, <1>7, <1>9
  <2>. QED BY <2>1, <2>2, <2>3 DEF Ends
<1>. QED BY <1>1, <1>3, <1>6, <1>7, <1>9, <1>10, <1>11, <1>12, <1>13, <1>14, <1>15
         DEF GuiEnded, Nest

\* Nothing on the stacks and under way changes, and no thread ends that is at
\* work.
LEMMA StacksKept ==
  ASSUME StackTypes, Nest, UNCHANGED threadVars,
         \/ down' = down /\ ("srv" \in quit' => "srv" \in quit)
         \/ down' = down \cup {"srv"} /\ quit' = quit /\ Srv = <<>>
  PROVE  /\ StackTypes' /\ Nest' /\ Srv' = Srv /\ Gui' = Gui /\ Req' = Req /\ Calls' = Calls
<1>1. /\ stack' = stack /\ inbox' = inbox
  BY DEF threadVars
<1>2. Srv' = Srv /\ Gui' = Gui /\ Req' = Req /\ Box' = Box
  BY <1>1 DEF Srv, Gui, Req, Box
<1>3. Calls' = Calls
  BY <1>2 DEF Calls
<1>4. StackTypes'
  BY <1>1 DEF StackTypes
<1>5. SrvPlaces' /\ GuiPlaces'
  BY <1>2 DEF Nest, SrvPlaces, GuiPlaces
<1>6. Pending'
  <2>1. Pending
    BY DEF Nest
  <2>. QED BY <1>2, <2>1 DEF Pending, Awaited
<1>7. Calling'
  <2>1. Calling
    BY DEF Nest
  <2>. QED BY <1>2, <1>3, <2>1 DEF Calling
<1>8. Ends'
  <2>1. "gui" \in down' => "gui" \in down
    OBVIOUS
  <2>2. "srv" \in down' => Srv = <<>>
    BY DEF Nest, Ends
  <2>3. "srv" \in quit' => "gui" \in down'
    BY DEF Nest, Ends
  <2>. QED BY <1>2, <2>1, <2>2, <2>3 DEF Nest, Ends
<1>. QED BY <1>2, <1>3, <1>4, <1>5, <1>6, <1>7, <1>8 DEF Nest

-----------------------------------------------------------------------------
(* What stays true of clients, records and numbers when a step only moves *)
(* frames and messages. *)

clientData == <<phase, at, cClients, viewer>>
listData   == <<recs, shown, dlg>>

\* The list window is still shown next, and asks for nothing new before.
ListedKept ==
  /\ At("gui", "listed") => At("gui", "listed")'
  /\ dlg = "creating" /\ Req = <<>> => Req' = <<>>

\* The invariant of the data where a step changes no client, list or number.
LEMMA DataKept ==
  ASSUME Data, UNCHANGED clientData, UNCHANGED listData, down' = down, DataTypes', Lists', Names',
         Gone' = Gone, Nums' = Nums, ListedKept
  PROVE  Data'
<1>1. /\ phase' = phase /\ at' = at /\ cClients' = cClients /\ viewer' = viewer
      /\ recs' = recs /\ shown' = shown /\ dlg' = dlg
  BY DEF clientData, listData
<1>2. Listed' = Listed /\ Going' = Going /\ Allocated' = Allocated
  BY <1>1 DEF Listed, Going, Allocated
<1>3. Counter'
  BY <1>1, <1>2 DEF Data, Counter
<1>4. Numbers'
  BY <1>1 DEF Data, Numbers, Before
<1>5. ASSUME NEW s \in Slots, recs[s].live PROVE Recorded(s)'
  <2>1. Recorded(s)
    BY <1>5 DEF Data, Records
  <2>2. Leaving(recs[s].c) => Leaving(recs[s].c)'
    <3>1. ASSUME NEW c, Leaving(c) PROVE c \in Gone' \/ \E m \in Calls' : m.op = "num" /\ ~m.on /\ m.c = c
      <4>1. CASE c \in Gone
        BY <4>1
      <4>2. CASE \E m \in Calls : m.op = "num" /\ ~m.on /\ m.c = c
        <5>1. PICK m \in Calls : m.op = "num" /\ ~m.on /\ m.c = c
          BY <4>2
        <5>2. m \in Nums
          BY <5>1 DEF Nums
        <5>3. m \in Nums'
          BY <5>2
        <5>4. m \in Calls'
          BY <5>3 DEF Nums
        <5>. QED BY <5>1, <5>4
      <4>. QED BY <3>1, <4>1, <4>2 DEF Leaving
    <3>. QED BY <1>1, <3>1 DEF Leaving
  <2>. QED BY <1>1, <1>2, <2>1, <2>2 DEF Recorded, ListedKept
<1>6. Records'
  BY <1>1, <1>5 DEF Data, Records
<1>. QED BY <1>3, <1>4, <1>6 DEF Data

\* The main thread has sent m, which tells of no number.
LEMMA SrvSentKeeps ==
  ASSUME StackTypes, Nest, Data, NEW f \in Frames, NEW m \in Frames, NEW n \in Nat \ {0},
         SrvSent(f, m, n), UNCHANGED clientData, UNCHANGED listData, down' = down, DataTypes',
         n \in DOMAIN Srv => Srv[n].op \notin {"gone", "free"},
         \A i \in DOMAIN Srv : i \in 1 .. n,
         f.op \notin {"gone", "free"}, f.rest \subseteq Listed, f.op = "list" => dlg # "none",
         f.op # "listing",
         f.op \in {"opening", "showing"} => f.c \in Clients,
         m.op # "num", m.op = "listclient" => m.c \in Listed /\ m.a = at[m.c] /\ f.op = "list",
         m.op = "system" => m.w \in Wins
  PROVE  Data'
<1>. DEFINE q == Addressed(m, n)
<1>0. /\ phase' = phase /\ at' = at /\ dlg' = dlg /\ Listed' = Listed /\ Going' = Going
  BY DEF clientData, listData, Listed, Going
<1>1. /\ q.op = m.op /\ q.c = m.c /\ q.a = m.a /\ q.w = m.w /\ q.on = m.on /\ q.back = n
  BY AddressedKept
<1>2. /\ Gui' = Gui /\ Req' = Req /\ DOMAIN Srv' = 1 .. n
      /\ \A i \in 1 .. n - 1 : i \in DOMAIN Srv /\ Srv'[i] = Srv[i]
      /\ Srv'[n].op = f.op /\ Srv'[n].c = f.c /\ Srv'[n].rest = f.rest
      /\ Calls' = IF "gui" \in down THEN {} ELSE Calls \cup {q}
      /\ \A k \in Calls : k.back \in 1 .. n - 1
      /\ "gui" \in down => Calls = {}
  BY DEF SrvSent
<1>. HIDE DEF q
<1>3. \A i \in DOMAIN Srv' : i \in 1 .. n - 1 \/ i = n
  BY <1>2
<1>a. \A i \in DOMAIN Srv : i \in 1 .. n - 1 \/ i = n
  OBVIOUS
<1>b. n \in DOMAIN Srv' /\ \A i \in 1 .. n - 1 : i \in DOMAIN Srv'
  BY <1>2
<1>4. Gone' = Gone /\ Freed' = Freed
  BY <1>2, <1>3, <1>a, <1>b DEF Gone, Freed
<1>5. Nums' = Nums
  BY <1>1, <1>2 DEF Nums
<1>6. Lists'
  <2>1. \A i \in DOMAIN Srv' : Srv'[i].rest \subseteq Listed
    BY <1>2, <1>3 DEF Data, Lists
  <2>2. \A i \in DOMAIN Srv' : Srv'[i].op \in {"listing", "list"} => dlg # "none"
    BY <1>2, <1>3 DEF Data, Lists
  <2>. QED BY <1>0, <1>2, <2>1, <2>2 DEF Data, Lists
<1>7. Names'
  <2>1. ASSUME NEW k \in Calls' PROVE Named(k)'
    <3>1. CASE k \in Calls
      <4>1. Named(k)
        BY <3>1 DEF Data, Names
      <4>2. Srv'[k.back] = Srv[k.back]
        BY <1>2, <3>1
      <4>. QED BY <1>0, <4>1, <4>2 DEF Named
    <3>2. CASE k = q
      BY <1>0, <1>1, <1>2, <3>2 DEF Named, Listed
    <3>. QED BY <1>2, <2>1, <3>1, <3>2
  <2>2. \A i \in DOMAIN Srv' : Srv'[i].op \in {"gone", "free", "opening", "showing"} => Srv'[i].c \in Clients
    BY <1>2, <1>3 DEF Data, Names
  <2>. QED BY <1>0, <1>2, <1>4, <2>1, <2>2 DEF Data, Names
<1>8. ListedKept
  BY <1>2 DEF ListedKept, At, Top, Gui
<1>. QED BY <1>4, <1>5, <1>6, <1>7, <1>8, DataKept

\* A handler of the main thread has ended that did not let a client go.
LEMMA SrvPoppedKeeps ==
  ASSUME StackTypes, Nest, Data, SrvPopped, Srv # <<>>,
         UNCHANGED clientData, UNCHANGED listData, down' = down,
         DataTypes', Top("srv").op \notin {"gone", "free"}
  PROVE  Data'
<1>0. /\ phase' = phase /\ at' = at /\ dlg' = dlg /\ Listed' = Listed /\ Going' = Going
  BY DEF clientData, listData, Listed, Going
<1>1. /\ DOMAIN Srv' = 1 .. Len(Srv) - 1
      /\ \A i \in DOMAIN Srv' : i \in DOMAIN Srv /\ Srv'[i] = Srv[i]
      /\ \A i \in DOMAIN Srv : i \in DOMAIN Srv' \/ (i = Len(Srv) /\ ~Srv[i].wait)
      /\ Req' = Req /\ Calls' = Calls /\ DOMAIN Gui' = DOMAIN Gui
      /\ \A i \in DOMAIN Gui : /\ Gui'[i].op = Gui[i].op /\ Gui'[i].s = Gui[i].s
                               /\ Gui'[i].w = Gui[i].w /\ (Gui'[i].wait => Gui[i].wait)
      /\ StackTypes'
  BY DEF SrvPopped
<1>2. Srv[Len(Srv)].op \notin {"gone", "free"}
  <2>1. Srv \in Seq(Frames)
    BY Stacks
  <2>2. Last(Srv) = Srv[Len(Srv)]
    BY <2>1, FrontFacts
  <2>. QED BY <2>2 DEF Top, Srv
<1>4. Gone' = Gone /\ Freed' = Freed
  BY <1>1, <1>2 DEF Gone, Freed
<1>5. Nums' = Nums
  BY <1>1 DEF Nums
<1>6. Lists'
  BY <1>0, <1>1 DEF Data, Lists
<1>7. Names'
  <2>1. ASSUME NEW k \in Calls' PROVE Named(k)'
    <3>1. Named(k)
      BY <1>1 DEF Data, Names
    <3>2. k.back \in DOMAIN Srv /\ Srv[k.back].wait
      BY <1>1 DEF Nest, Calling
    <3>3. Srv'[k.back] = Srv[k.back]
      BY <1>1, <3>2
    <3>. QED BY <1>0, <3>1, <3>3 DEF Named
  <2>2. \A i \in DOMAIN Srv' : Srv'[i].op \in {"gone", "free", "opening", "showing"} => Srv'[i].c \in Clients
    BY <1>1 DEF Data, Names
  <2>3. \A i \in DOMAIN Gui' : /\ Gui'[i].op = "box" => Gui'[i].s \in Slots
                               /\ Gui'[i].op = "closing" => Gui'[i].w \in Wins
    BY <1>1 DEF Data, Names
  <2>. QED BY <1>0, <1>4, <2>1, <2>2, <2>3 DEF Data, Names
<1>8. ListedKept
  <2>1. ASSUME At("gui", "listed") PROVE At("gui", "listed")'
    <3>0. "gui" \in Threads /\ "listed" \in Ops
      BY DEF Threads, Ops
    <3>1. /\ Gui # <<>> /\ Len(Gui) \in DOMAIN Gui /\ Gui[Len(Gui)].op = "listed"
          /\ ~Gui[Len(Gui)].wait /\ Gui \in Seq(Frames)
      BY <2>1, <3>0, AtTop DEF Gui
    <3>2. Gui' \in Seq(Frames)
      BY <1>1 DEF StackTypes, Gui, Threads
    <3>3. Gui' # <<>> /\ Len(Gui') = Len(Gui)
      BY <1>1, <3>1, <3>2
    <3>4. Last(Gui') = Gui'[Len(Gui)]
      BY <3>2, <3>3, FrontFacts
    <3>5. Gui'[Len(Gui)].op = "listed" /\ ~Gui'[Len(Gui)].wait
      BY <1>1, <3>1
    <3>6. Top("gui")' = Last(Gui')
      BY <3>3 DEF Top, Gui
    <3>. QED BY <3>4, <3>5, <3>6 DEF At
  <2>. QED BY <1>1, <2>1 DEF ListedKept
<1>. QED BY <1>4, <1>5, <1>6, <1>7, <1>8, DataKept

\* What the GUI thread has taken from its stack concerns no client, and no
\* frame of the main thread.
LEMMA GuiPoppedKeeps ==
  ASSUME StackTypes, Nest, Data, NEW t \in Frames, GuiPopped(t), UNCHANGED clientData,
         Gui # <<>>, t = Top("gui"),
         \/ dlg' = dlg /\ t.op # "listed"
         \/ dlg' = "open"
  PROVE  /\ Gone' = Gone /\ Freed' = Freed /\ Nums' = Nums \ {t} /\ Names' /\ Lists'
<1>0. /\ phase' = phase /\ at' = at /\ Listed' = Listed /\ Going' = Going
  BY DEF clientData, Listed, Going
<1>1. /\ DOMAIN Gui' = 1 .. Len(Gui) - 1
      /\ \A i \in DOMAIN Gui' : i \in DOMAIN Gui /\ Gui'[i] = Gui[i]
      /\ DOMAIN Srv' = DOMAIN Srv
      /\ \A i \in DOMAIN Srv : /\ Srv'[i].op = Srv[i].op /\ Srv'[i].c = Srv[i].c
                               /\ Srv'[i].rest = Srv[i].rest
      /\ Req' = Req /\ Calls' = Calls \ {t}
  BY DEF GuiPopped
<1>2. Gone' = Gone /\ Freed' = Freed
  BY <1>1 DEF Gone, Freed
<1>3. Nums' = Nums \ {t}
  BY <1>1 DEF Nums
<1>4. Names'
  <2>1. ASSUME NEW k \in Calls' PROVE Named(k)'
    <3>1. k \in Calls
      BY <1>1
    <3>2. Named(k)
      BY <3>1 DEF Data, Names
    <3>3. k.back \in DOMAIN Srv
      BY <3>1 DEF Nest, Calling
    <3>. QED BY <1>0, <1>1, <3>2, <3>3 DEF Named
  <2>2. \A i \in DOMAIN Srv' : Srv'[i].op \in {"gone", "free", "opening", "showing"} => Srv'[i].c \in Clients
    BY <1>1 DEF Data, Names
  <2>3. \A i \in DOMAIN Gui' : /\ Gui'[i].op = "box" => Gui'[i].s \in Slots
                               /\ Gui'[i].op = "closing" => Gui'[i].w \in Wins
    BY <1>1 DEF Data, Names
  <2>. QED BY <1>0, <1>2, <2>1, <2>2, <2>3 DEF Data, Names
<1>5. Lists'
  <2>1. /\ \A i \in DOMAIN Srv' : Srv'[i].rest \subseteq Listed
        /\ \A i \in DOMAIN Srv' : Srv'[i].op \in {"listing", "list"} => dlg' # "none"
        /\ \A i \in DOMAIN Req : Req[i].op = "listing" => dlg' # "none"
    BY <1>1 DEF Data, Lists
  <2>2. ASSUME dlg' = "creating" PROVE \E i \in DOMAIN Gui' : Gui'[i].op = "listed"
    <3>1. dlg = "creating" /\ t.op # "listed"
      BY <2>2
    <3>2. PICK i \in DOMAIN Gui : Gui[i].op = "listed"
      BY <3>1 DEF Data, Lists
    <3>3. Gui \in Seq(Frames) /\ DOMAIN Gui = 1 .. Len(Gui) /\ Len(Gui) \in Nat
      BY Stacks
    <3>4. t = Gui[Len(Gui)]
      <4>1. Last(Gui) = Gui[Len(Gui)]
        BY <3>3, FrontFacts
      <4>. QED BY <4>1 DEF Top, Gui
    <3>5. i # Len(Gui)
      BY <3>1, <3>2, <3>4
    <3>6. i \in DOMAIN Gui'
      BY <1>1, <3>3, <3>5
    <3>. QED BY <1>1, <3>2, <3>6
  <2>. QED BY <1>0, <1>1, <2>1, <2>2 DEF Lists
<1>. QED BY <1>2, <1>3, <1>4, <1>5

\* A frame of the GUI thread has ended that concerns neither the list nor the
\* number of clients.
LEMMA GuiPoppedStill ==
  ASSUME StackTypes, Nest, Data, NEW t \in Frames, GuiPopped(t), UNCHANGED clientData,
         UNCHANGED listData, down' = down, DataTypes',
         Gui # <<>>, t = Top("gui"), t.op \notin {"num", "listed"}
  PROVE  Data'
<1>1. dlg' = dlg
  BY DEF listData
<1>2. /\ Gone' = Gone /\ Freed' = Freed /\ Nums' = Nums \ {t} /\ Names' /\ Lists'
  BY <1>1, GuiPoppedKeeps
<1>3. Nums' = Nums
  BY <1>2 DEF Nums
<1>4. Req' = Req
  BY DEF GuiPopped
<1>5. ~At("gui", "listed")
  BY DEF At
<1>6. ListedKept
  BY <1>4, <1>5 DEF ListedKept
<1>. QED BY <1>2, <1>3, <1>6, DataKept

\* The GUI thread has sent a request for a command.
LEMMA GuiSentKeeps ==
  ASSUME StackTypes, Nest, Data, Resting, NEW f \in Frames, NEW m \in Frames, GuiSent(f, m),
         UNCHANGED clientData, recs' = recs, shown' = shown, down' = down, DataTypes',
         m.op = "listing" => dlg' # "none",
         f.op \in Commands, f.op = "closing" => f.w \in Wins,
         \/ dlg' = dlg
         \/ dlg = "none" /\ dlg' = "creating" /\ f.op = "listed"
  PROVE  Data'
<1>0. /\ phase' = phase /\ at' = at /\ cClients' = cClients /\ viewer' = viewer
      /\ Listed' = Listed /\ Going' = Going
  BY DEF clientData, Listed, Going
<1>1. /\ Srv' = Srv /\ Calls' = Calls
      /\ \A i \in DOMAIN Req' : Req'[i].op = m.op
      /\ \A i \in DOMAIN Gui' : \/ i \in DOMAIN Gui /\ Gui'[i] = Gui[i]
                                \/ Gui'[i].op = f.op /\ Gui'[i].w = f.w
      /\ \E i \in DOMAIN Gui' : Gui'[i].op = f.op
  BY DEF GuiSent
<1>2. dlg # "creating"
  BY DEF Resting, Data, Lists
<1>3. Gone' = Gone /\ Freed' = Freed /\ Nums' = Nums
  BY <1>1 DEF Gone, Freed, Nums
<1>4. Names'
  <2>1. ASSUME NEW k \in Calls' PROVE Named(k)'
    <3>1. Named(k)
      BY <1>1 DEF Data, Names
    <3>. QED BY <1>0, <1>1, <3>1 DEF Named
  <2>2. \A i \in DOMAIN Gui' : /\ Gui'[i].op = "box" => Gui'[i].s \in Slots
                               /\ Gui'[i].op = "closing" => Gui'[i].w \in Wins
    BY <1>1 DEF Data, Names, Commands
  <2>. QED BY <1>0, <1>1, <1>3, <2>1, <2>2 DEF Data, Names
<1>5. Lists'
  <2>1. dlg' = "creating" => \E i \in DOMAIN Gui' : Gui'[i].op = "listed"
    BY <1>1, <1>2
  <2>2. dlg # "none" => dlg' # "none"
    OBVIOUS
  <2>. QED BY <1>0, <1>1, <2>1, <2>2 DEF Data, Lists
<1>6. CASE dlg' = dlg
  <2>1. ListedKept
    <3>1. ~At("gui", "listed")
      <4>1. SUFFICES ASSUME At("gui", "listed") PROVE FALSE
        OBVIOUS
      <4>2. "gui" \in Threads /\ "listed" \in Ops
        BY DEF Threads, Ops
      <4>3. Len(Gui) \in DOMAIN Gui /\ Gui[Len(Gui)].op = "listed"
        BY <4>1, <4>2, AtTop DEF Gui
      <4>. QED BY <4>3 DEF Resting
    <3>. QED BY <1>2, <3>1 DEF ListedKept
  <2>2. UNCHANGED listData
    BY <1>6 DEF listData
  <2>. QED BY <1>3, <1>4, <1>5, <2>1, <2>2, DataKept
<1>7. CASE dlg = "none"
  <2>1. \A s \in Slots : ~recs[s].live
    BY <1>7 DEF Data, Records, Recorded
  <2>2. Records'
    BY <2>1 DEF Records
  <2>3. Counter'
    BY <1>0, <1>3 DEF Data, Counter
  <2>4. Numbers'
    BY <1>0, <1>3 DEF Data, Numbers, Before
  <2>. QED BY <1>4, <1>5, <2>2, <2>3, <2>4 DEF Data
<1>. QED BY <1>6, <1>7

\* A thread has taken what was sent to it, or a message box has come up.
LEMMA TookKeeps ==
  ASSUME StackTypes, Nest, Data, UNCHANGED clientData, UNCHANGED listData, down' = down, DataTypes',
         \/ SrvTook
         \/ GuiTook
         \/ \E f \in Frames : GuiBoxed(f) /\ f.op = "box" /\ f.s \in Slots
  PROVE  Data'
<1>0. /\ phase' = phase /\ at' = at /\ dlg' = dlg /\ Listed' = Listed /\ Going' = Going
  BY DEF clientData, listData, Listed, Going
<1>1. CASE SrvTook
  <2>1. /\ Gui' = Gui /\ Calls' = Calls /\ Req' = <<>>
        /\ \A i \in DOMAIN Srv : i \in DOMAIN Srv' /\ Srv'[i] = Srv[i]
        /\ \A i \in DOMAIN Srv' : \/ i \in DOMAIN Srv
                                  \/ 1 \in DOMAIN Req /\ Srv'[i] = Req[1]
    BY <1>1 DEF SrvTook
  <2>2. 1 \in DOMAIN Req => Req[1].op \in Orders /\ Req[1].rest = {}
    BY DEF Nest, Pending
  <2>3. Gone' = Gone /\ Freed' = Freed
    BY <2>1, <2>2 DEF Gone, Freed, Orders, Requests
  <2>4. Nums' = Nums
    BY <2>1 DEF Nums
  <2>5. Names'
    <3>1. ASSUME NEW k \in Calls' PROVE Named(k)'
      <4>1. Named(k)
        BY <2>1 DEF Data, Names
      <4>2. k.back \in DOMAIN Srv
        BY <2>1 DEF Nest, Calling
      <4>. QED BY <1>0, <2>1, <4>1, <4>2 DEF Named
    <3>2. \A i \in DOMAIN Srv' : Srv'[i].op \in {"gone", "free", "opening", "showing"} => Srv'[i].c \in Clients
      BY <2>1, <2>2 DEF Data, Names, Orders, Requests
    <3>. QED BY <1>0, <2>1, <2>3, <3>1, <3>2 DEF Data, Names
  <2>6. Lists'
    <3>1. 1 \in DOMAIN Req /\ Req[1].op \in {"listing", "list"} => dlg # "none"
      BY <2>2 DEF Data, Lists, Orders
    <3>2. \A i \in DOMAIN Srv' : Srv'[i].rest \subseteq Listed
      BY <2>1, <2>2 DEF Data, Lists
    <3>3. \A i \in DOMAIN Srv' : Srv'[i].op \in {"listing", "list"} => dlg # "none"
      BY <2>1, <3>1 DEF Data, Lists
    <3>. QED BY <1>0, <2>1, <3>2, <3>3 DEF Data, Lists
  <2>7. ListedKept
    BY <2>1 DEF ListedKept, At, Top, Gui
  <2>. QED BY <2>3, <2>4, <2>5, <2>6, <2>7, DataKept
<1>2. CASE GuiTook
  <2>1. /\ Srv' = Srv /\ Calls' = Calls /\ Req' = Req
        /\ \A i \in DOMAIN Gui : i \in DOMAIN Gui' /\ Gui'[i] = Gui[i]
        /\ \A i \in DOMAIN Gui' : i \in DOMAIN Gui \/ Gui'[i].op \in Handlers
        /\ ~At("gui", "listed")
    BY <1>2 DEF GuiTook
  <2>2. Gone' = Gone /\ Freed' = Freed /\ Nums' = Nums
    BY <2>1 DEF Gone, Freed, Nums
  <2>3. Names'
    <3>1. ASSUME NEW k \in Calls' PROVE Named(k)'
      <4>1. Named(k)
        BY <2>1 DEF Data, Names
      <4>. QED BY <1>0, <2>1, <4>1 DEF Named
    <3>2. \A i \in DOMAIN Gui' : /\ Gui'[i].op = "box" => Gui'[i].s \in Slots
                                 /\ Gui'[i].op = "closing" => Gui'[i].w \in Wins
      BY <2>1 DEF Data, Names, Handlers
    <3>. QED BY <1>0, <2>1, <2>2, <3>1, <3>2 DEF Data, Names
  <2>4. Lists'
    BY <1>0, <2>1 DEF Data, Lists
  <2>5. ListedKept
    BY <2>1 DEF ListedKept
  <2>. QED BY <2>2, <2>3, <2>4, <2>5, DataKept
<1>3. ASSUME NEW f \in Frames, GuiBoxed(f), f.op = "box", f.s \in Slots PROVE Data'
  <2>1. Gui = <<>> /\ Gui' = <<f>> /\ Srv' = Srv /\ Req' = Req /\ Calls' = Calls
    BY <1>3 DEF GuiBoxed
  <2>2. Gone' = Gone /\ Freed' = Freed /\ Nums' = Nums
    BY <2>1 DEF Gone, Freed, Nums
  <2>3. Names'
    <3>1. ASSUME NEW k \in Calls' PROVE Named(k)'
      <4>1. Named(k)
        BY <2>1 DEF Data, Names
      <4>. QED BY <1>0, <2>1, <4>1 DEF Named
    <3>2. DOMAIN <<f>> = {1} /\ <<f>>[1] = f
      OBVIOUS
    <3>3. \A i \in DOMAIN Gui' : /\ Gui'[i].op = "box" => Gui'[i].s \in Slots
                                 /\ Gui'[i].op = "closing" => Gui'[i].w \in Wins
      BY <1>3, <2>1, <3>2
    <3>. QED BY <1>0, <2>1, <2>2, <3>1, <3>3 DEF Data, Names
  <2>4. Lists'
    <3>1. dlg # "creating"
      BY <2>1 DEF Data, Lists
    <3>. QED BY <1>0, <2>1, <3>1 DEF Data, Lists
  <2>5. ListedKept
    <3>1. ~At("gui", "listed")
      BY <2>1 DEF At, Top, Gui, Blank
    <3>. QED BY <2>1, <3>1 DEF ListedKept
  <2>. QED BY <2>2, <2>3, <2>4, <2>5, DataKept
<1>. QED BY <1>1, <1>2, <1>3

-----------------------------------------------------------------------------
(* Steps of the main thread that let no client come or go. *)

\* The data do not change but for chat windows.
ChatOnly == UNCHANGED clientData /\ UNCHANGED listData /\ UNCHANGED endVars /\ DataTypes'

\* A step that changes nothing but stacks and messages.
LEMMA Unchanged ==
  ASSUME DataTypes, UNCHANGED <<clientVars, guiVars, endVars>>
  PROVE  ChatOnly
<1>1. /\ phase' = phase /\ at' = at /\ hwndChat' = hwndChat /\ cClients' = cClients
      /\ viewer' = viewer /\ dlg' = dlg /\ recs' = recs /\ win' = win /\ shown' = shown
      /\ quit' = quit /\ down' = down
  BY DEF clientVars, guiVars, endVars
<1>2. DataTypes'
  BY <1>1 DEF DataTypes
<1>. QED BY <1>1, <1>2 DEF ChatOnly, clientData, listData, endVars

\* The end of a handler that let no client go.
LEMMA SrvReturnKeeps ==
  ASSUME IInv, NEW op \in Ops, op \notin {"gone", "free"}, At("srv", op), Return("srv"), ChatOnly
  PROVE  IInv'
<1>1. StackTypes /\ Nest /\ Data
  BY DEF IInv
<1>2. Srv # <<>> /\ Top("srv").op = op /\ ~Top("srv").wait
  BY <1>1, AtTop DEF Srv, Threads
<1>3. UNCHANGED endVars /\ UNCHANGED clientData /\ UNCHANGED listData /\ DataTypes' /\ down' = down
  BY DEF ChatOnly, endVars
<1>4. SrvPopped
  BY <1>1, <1>2, <1>3, SrvPops
<1>5. Data'
  BY <1>1, <1>2, <1>3, <1>4, SrvPoppedKeeps
<1>. QED BY <1>4, <1>5 DEF IInv, SrvPopped

\* A message to the GUI that tells of no number.
Telling(m) ==
  /\ m.op \in Handlers \ {"num"} /\ ~m.wait
  /\ m.op = "listclient" => m.c \in Listed /\ m.a = at[m.c]
  /\ m.op = "system" => m.w \in Wins
\* The place that goes on after it.
Sending(f) ==
  /\ f.op \in {"joined", "opening", "showing", "list"} /\ f.rest \subseteq Listed
  /\ f.op = "list" => dlg # "none"
  /\ f.op \in {"opening", "showing"} => f.c \in Clients

\* The beginning of a handler that lets no client go.
LEMMA SrvStartKeeps ==
  ASSUME IInv, Idle("srv"), NEW f \in Frames, NEW m \in Frames, Sending(f), Telling(m),
         m.op = "listclient" => f.op = "list",
         f.op \in Own, f.back = 0, SendFrom("srv", <<>>, f, m), ChatOnly
  PROVE  IInv'
<1>1. StackTypes /\ Nest /\ Data
  BY DEF IInv
<1>2. UNCHANGED endVars /\ UNCHANGED clientData /\ UNCHANGED listData /\ DataTypes' /\ down' = down
  BY DEF ChatOnly, endVars
<1>3. m.op \in Handlers /\ ~m.wait
  BY DEF Telling
<1>4. SrvSent(f, m, 1)
  BY <1>1, <1>2, <1>3, SrvStart
<1>5. \A i \in DOMAIN Srv : FALSE
  BY DEF Idle, Srv
<1>6. Data'
  <2>. DEFINE n == 1
  <2>1. /\ n \in Nat \ {0} /\ SrvSent(f, m, n) /\ (n \in DOMAIN Srv => Srv[n].op \notin {"gone", "free"})
        /\ \A i \in DOMAIN Srv : i \in 1 .. n
    BY <1>4, <1>5
  <2>. HIDE DEF n
  <2>2. f.op \notin {"gone", "free"} /\ f.op # "listing" /\ f.rest \subseteq Listed
        /\ (f.op = "list" => dlg # "none") /\ (f.op \in {"opening", "showing"} => f.c \in Clients)
    BY DEF Sending
  <2>3. /\ m.op # "num" /\ (m.op = "listclient" => m.c \in Listed /\ m.a = at[m.c] /\ f.op = "list")
        /\ (m.op = "system" => m.w \in Wins)
    BY DEF Telling
  <2>. QED BY <1>1, <1>2, <2>1, <2>2, <2>3, SrvSentKeeps
<1>. QED BY <1>4, <1>6 DEF IInv, SrvSent

\* The same where a handler goes on.
LEMMA SrvGoesOnKeeps ==
  ASSUME IInv, NEW op \in Ops, op \notin {"gone", "free"}, At("srv", op),
         NEW f \in Frames, NEW m \in Frames, Sending(f), Telling(m),
         m.op = "listclient" => f.op = "list",
         f.back = Top("srv").back, IF f.back = 0 THEN f.op \in Own ELSE f.op \in Requests,
         SendFrom("srv", Front(Srv), f, m), ChatOnly
  PROVE  IInv'
<1>1. StackTypes /\ Nest /\ Data
  BY DEF IInv
<1>2. UNCHANGED endVars /\ UNCHANGED clientData /\ UNCHANGED listData /\ DataTypes' /\ down' = down
  BY DEF ChatOnly, endVars
<1>3. m.op \in Handlers /\ ~m.wait
  BY DEF Telling
<1>4. SrvSent(f, m, Len(Srv))
  BY <1>1, <1>2, <1>3, SrvGoesOn
<1>5. /\ Len(Srv) \in Nat \ {0} /\ Srv[Len(Srv)].op = op
      /\ \A i \in DOMAIN Srv : i \in 1 .. Len(Srv)
  <2>1. "srv" \in Threads
    BY DEF Threads
  <2>2. Len(Srv) \in Nat \ {0} /\ Top("srv") = Srv[Len(Srv)] /\ Top("srv").op = op
    BY <1>1, <2>1, AtTop DEF Srv
  <2>. QED BY <1>1, <2>2, Stacks
<1>6. Data'
  <2>. DEFINE n == Len(Srv)
  <2>1. /\ n \in Nat \ {0} /\ SrvSent(f, m, n) /\ (n \in DOMAIN Srv => Srv[n].op \notin {"gone", "free"})
        /\ \A i \in DOMAIN Srv : i \in 1 .. n
    BY <1>4, <1>5
  <2>. HIDE DEF n
  <2>2. f.op \notin {"gone", "free"} /\ f.op # "listing" /\ f.rest \subseteq Listed
        /\ (f.op = "list" => dlg # "none") /\ (f.op \in {"opening", "showing"} => f.c \in Clients)
    BY DEF Sending
  <2>3. /\ m.op # "num" /\ (m.op = "listclient" => m.c \in Listed /\ m.a = at[m.c] /\ f.op = "list")
        /\ (m.op = "system" => m.w \in Wins)
    BY DEF Telling
  <2>. QED BY <1>1, <1>2, <2>1, <2>2, <2>3, SrvSentKeeps
<1>. QED BY <1>4, <1>6 DEF IInv, SrvSent

\* The message that allows or forbids input.
LEMMA SystemTyped ==
  ASSUME DataTypes, NEW c \in Clients, NEW w \in Wins, NEW allow \in BOOLEAN
  PROVE  System(c, w, allow) \in Frames /\ Telling(System(c, w, allow))
         /\ System(c, w, allow).op = "system"
<1>. DEFINE g == F("system", c)
            h == [g EXCEPT !.w = w, !.on = allow]
<1>1. "system" \in Ops
  BY DEF Ops
<1>2. g \in Frames /\ g.op = "system" /\ ~g.wait
  BY <1>1, ClientFrame
<1>3. System(c, w, allow) = h
  BY DEF System
<1>. HIDE DEF g
<1>4. h \in Frames /\ h.op = "system" /\ ~h.wait /\ h.w = w
  BY <1>2 DEF Frames
<1>. HIDE DEF h
<1>. QED BY <1>3, <1>4 DEF Telling, Handlers

\* _cbSetTextChat begins.
LEMMA TextChatSteps ==
  ASSUME IInv, TextChatOpen \/ TextChatLeft
  PROVE  IInv'
<1>1. DataTypes /\ UNCHANGED <<clientVars, guiVars, endVars>> /\ Idle("srv")
  BY DEF IInv, Data, TextChatOpen, TextChatLeft
<1>2. ChatOnly
  BY <1>1, Unchanged
<1>3. stack["srv"] = <<>>
  BY <1>1 DEF Idle
<1>4. ASSUME NEW op \in {"opening", "showing", "joined"}, NEW c \in Listed, NEW m \in Frames,
             Telling(m), m.op # "listclient", Start("srv", F(op, c), m)
      PROVE  IInv'
  <2>. DEFINE f == F(op, c)
  <2>1. op \in Ops /\ c \in Clients
    BY DEF Ops, Listed
  <2>2. f \in Frames /\ f.op = op /\ f.c = c /\ f.rest = {} /\ f.back = 0
    BY <1>1, <2>1, ClientFrame
  <2>3. SendFrom("srv", <<>>, f, m)
    BY <1>3, <1>4 DEF Start
  <2>. HIDE DEF f
  <2>4. Sending(f) /\ f.op \in Own
    BY <2>1, <2>2 DEF Sending, Own
  <2>. QED BY <1>1, <1>2, <1>4, <2>2, <2>3, <2>4, SrvStartKeeps
<1>5. \A c \in Listed : c \in Clients /\ hwndChat[c] \in Wins \cup {None}
  BY <1>1 DEF Listed, DataTypes
<1>6. CASE TextChatOpen
  <2>1. PICK c \in Listed : IF hwndChat[c] = None
                            THEN Start("srv", F("opening", c), F("chatopen", c))
                            ELSE Start("srv", F("showing", c), System(c, hwndChat[c], TRUE))
    BY <1>6 DEF TextChatOpen
  <2>2. CASE hwndChat[c] = None
    <3>. DEFINE m == F("chatopen", c)
    <3>1. "chatopen" \in Ops /\ c \in Clients
      BY <1>5 DEF Ops
    <3>2. m \in Frames /\ m.op = "chatopen" /\ ~m.wait
      BY <1>1, <3>1, ClientFrame
    <3>3. Start("srv", F("opening", c), m)
      BY <2>1, <2>2
    <3>. HIDE DEF m
    <3>4. Telling(m)
      BY <3>2 DEF Telling, Handlers
    <3>. QED BY <1>4, <3>2, <3>3, <3>4
  <2>3. CASE hwndChat[c] # None
    <3>. DEFINE m == System(c, hwndChat[c], TRUE)
    <3>1. c \in Clients /\ hwndChat[c] \in Wins /\ TRUE \in BOOLEAN
      BY <1>5, <2>3
    <3>2. m \in Frames /\ Telling(m) /\ m.op # "listclient"
      BY <1>1, <3>1, SystemTyped
    <3>3. Start("srv", F("showing", c), m)
      BY <2>1, <2>3
    <3>. HIDE DEF m
    <3>. QED BY <1>4, <3>2, <3>3
  <2>. QED BY <2>2, <2>3
<1>7. CASE TextChatLeft
  <2>1. PICK c \in Listed : /\ hwndChat[c] # None
                            /\ Start("srv", F("joined", c), System(c, hwndChat[c], FALSE))
    BY <1>7 DEF TextChatLeft
  <2>. DEFINE m == System(c, hwndChat[c], FALSE)
  <2>2. c \in Clients /\ hwndChat[c] \in Wins /\ FALSE \in BOOLEAN
    BY <1>5, <2>1
  <2>3. m \in Frames /\ Telling(m) /\ m.op # "listclient"
    BY <1>1, <2>2, SystemTyped
  <2>4. Start("srv", F("joined", c), m)
    BY <2>1
  <2>. HIDE DEF m
  <2>. QED BY <1>4, <2>3, <2>4
<1>. QED BY <1>6, <1>7

\* A request is done, or what follows the message about a new client.
LEMMA ReturnSteps ==
  ASSUME IInv, AttachFails \/ Joined \/ ChatAsk
  PROVE  IInv'
<1>1. ChatOnly /\ Return("srv")
  <2>1. DataTypes /\ UNCHANGED <<clientVars, guiVars, endVars>> /\ Return("srv")
    BY DEF IInv, Data, AttachFails, Joined, ChatAsk
  <2>. QED BY <2>1, Unchanged
<1>2. PICK op \in {"attach", "joined", "ask"} : At("srv", op)
  BY DEF AttachFails, Joined, ChatAsk
<1>3. op \in Ops /\ op \notin {"gone", "free"}
  BY DEF Ops
<1>. QED BY <1>1, <1>2, <1>3, SrvReturnKeeps

\* The chat window is shown.
LEMMA ShowChatStep ==
  ASSUME IInv, ShowChat
  PROVE  IInv'
<1>1. At("srv", "showing") /\ Return("srv") /\ "showing" \in Ops
  BY DEF ShowChat, Ops
<1>2. StackTypes /\ Names /\ DataTypes
  BY DEF IInv, Data
<1>3. Top("srv").c \in Clients
  <2>1. "srv" \in Threads
    BY DEF Threads
  <2>2. Len(Srv) \in DOMAIN Srv /\ Top("srv") = Srv[Len(Srv)] /\ Top("srv").op = "showing"
    BY <1>1, <1>2, <2>1, AtTop DEF Srv
  <2>. QED BY <1>2, <2>2 DEF Names
<1>4. ChatOnly
  <2>. DEFINE w == hwndChat[Top("srv").c]
  <2>1. /\ phase' = phase /\ at' = at /\ hwndChat' = hwndChat /\ cClients' = cClients
        /\ viewer' = viewer /\ dlg' = dlg /\ recs' = recs /\ shown' = shown
        /\ quit' = quit /\ down' = down
        /\ win' = IF w = None THEN win ELSE [win EXCEPT ![w].visible = @ \/ win[w] # Closed]
    BY DEF ShowChat, clientVars, endVars
  <2>2. w \in Wins \cup {None}
    BY <1>2, <1>3 DEF DataTypes
  <2>. HIDE DEF w
  <2>3. win \in [Wins -> [a : Addrs \cup {None}, c : Clients \cup {0}, on : BOOLEAN, visible : BOOLEAN]]
    BY <1>2 DEF DataTypes
  <2>4. win' \in [Wins -> [a : Addrs \cup {None}, c : Clients \cup {0}, on : BOOLEAN, visible : BOOLEAN]]
    <3>1. CASE w = None
      BY <2>1, <2>3, <3>1
    <3>2. CASE w # None
      <4>. DEFINE v == win[w].visible \/ win[w] # Closed
                  u == [win[w] EXCEPT !.visible = v]
      <4>1. w \in Wins /\ win' = [win EXCEPT ![w] = u]
        BY <2>1, <2>2, <2>3, <3>2
      <4>2. v \in BOOLEAN
        OBVIOUS
      <4>. HIDE DEF v
      <4>3. u \in [a : Addrs \cup {None}, c : Clients \cup {0}, on : BOOLEAN, visible : BOOLEAN]
        BY <2>3, <4>1, <4>2
      <4>. HIDE DEF u
      <4>. QED BY <2>3, <4>1, <4>3
    <3>. QED BY <3>1, <3>2
  <2>5. DataTypes'
    BY <1>2, <2>1, <2>4 DEF DataTypes
  <2>. QED BY <2>1, <2>5 DEF ChatOnly, clientData, listData, endVars
<1>. QED BY <1>1, <1>4, SrvReturnKeeps

\* The client has no chat window any more.
LEMMA SetChatWindowStep ==
  ASSUME IInv, SetChatWindow
  PROVE  IInv'
<1>1. At("srv", "chatwindow") /\ Return("srv") /\ "chatwindow" \in Ops
  BY DEF SetChatWindow, Ops
<1>2. DataTypes
  BY DEF IInv, Data
<1>3. ChatOnly
  <2>1. /\ phase' = phase /\ at' = at /\ cClients' = cClients
        /\ viewer' = viewer /\ dlg' = dlg /\ recs' = recs /\ shown' = shown /\ win' = win
        /\ quit' = quit /\ down' = down
        /\ hwndChat' = [c \in Clients |-> IF c \in ClientAt(Top("srv").a) THEN None ELSE hwndChat[c]]
    BY DEF SetChatWindow, guiVars, endVars
  <2>2. hwndChat' \in [Clients -> Wins \cup {None}]
    BY <1>2, <2>1 DEF DataTypes
  <2>3. DataTypes'
    BY <1>2, <2>1, <2>2 DEF DataTypes
  <2>. QED BY <2>1, <2>3 DEF ChatOnly, clientData, listData, endVars
<1>. QED BY <1>1, <1>3, SrvReturnKeeps

\* The chat window has been made, or there was no memory for it.
LEMMA ChatOpenedStep ==
  ASSUME IInv, ChatOpened
  PROVE  IInv'
<1>. DEFINE f == Top("srv")
            c == f.c
            w == f.w
<1>0. "opening" \in Ops /\ "showing" \in Ops /\ "srv" \in Threads
  BY DEF Ops, Threads
<1>1. StackTypes /\ Nest /\ Names /\ DataTypes /\ At("srv", "opening")
  BY DEF IInv, Data, ChatOpened
<1>2. /\ Len(Srv) \in DOMAIN Srv /\ f = Srv[Len(Srv)] /\ f.op = "opening" /\ f \in Frames
  BY <1>0, <1>1, AtTop DEF Srv
<1>3. c \in Clients /\ w \in Wins \cup {None}
  BY <1>1, <1>2 DEF Names, Frames
<1>4. f.back = 0
  BY <1>1, <1>2 DEF Nest, SrvPlaces, Requests
<1>5. /\ hwndChat' = [hwndChat EXCEPT ![c] = w]
      /\ IF w = None THEN Return("srv") ELSE Send("srv", F("showing", c), System(c, w, TRUE))
      /\ phase' = phase /\ at' = at /\ cClients' = cClients
      /\ viewer' = viewer /\ dlg' = dlg /\ recs' = recs /\ shown' = shown /\ win' = win
      /\ quit' = quit /\ down' = down
  BY DEF ChatOpened, guiVars, endVars
<1>6. ChatOnly
  <2>1. hwndChat' \in [Clients -> Wins \cup {None}]
    BY <1>1, <1>3, <1>5 DEF DataTypes
  <2>2. DataTypes'
    BY <1>1, <1>5, <2>1 DEF DataTypes
  <2>. QED BY <1>5, <2>2 DEF ChatOnly, clientData, listData, endVars
<1>7. CASE w = None
  BY <1>0, <1>1, <1>5, <1>6, <1>7, SrvReturnKeeps
<1>8. CASE w # None
  <2>. DEFINE b == Top("srv").back
              h == F("showing", c)
              g == Addressed(h, b)
              m == System(c, w, TRUE)
  <2>1. w \in Wins /\ TRUE \in BOOLEAN /\ b \in Nat /\ b = 0
    BY <1>2, <1>3, <1>4, <1>8 DEF Frames
  <2>2. m \in Frames /\ Telling(m) /\ m.op # "listclient"
    BY <1>1, <1>3, <2>1, SystemTyped
  <2>3. h \in Frames /\ h.op = "showing" /\ h.c = c /\ h.rest = {}
    BY <1>0, <1>1, <1>3, ClientFrame
  <2>4. SendFrom("srv", Front(Srv), g, m)
    BY <1>5, <1>8 DEF Send, Srv, Addressed
  <2>. HIDE DEF b, h, m
  <2>5. g \in Frames /\ g.back = b /\ g.op = "showing" /\ g.c = c /\ g.rest = {}
    BY <2>1, <2>3, AddressedKept
  <2>. HIDE DEF g, c
  <2>6. Sending(g) /\ g.op \in Own
    BY <1>3, <2>5 DEF Sending, Own
  <2>7. g.back = Top("srv").back /\ g.back = 0
    BY <2>1, <2>5 DEF b
  <2>. QED BY <1>0, <1>1, <1>6, <2>2, <2>4, <2>5, <2>6, <2>7, SrvGoesOnKeeps
<1>. QED BY <1>7, <1>8

\* The next client is listed: it is in the library's list.
LEMMA ListNextKeeps ==
  ASSUME IInv, NEW op \in {"listing", "list"}, At("srv", op), NEW rest, rest \subseteq Listed,
         ListNext(rest)
  PROVE  IInv'
<1>0. /\ op \in Ops /\ op \notin {"gone", "free"} /\ op \notin Own
      /\ "listclient" \in Ops /\ "list" \in Ops /\ "srv" \in Threads
  BY DEF Ops, Threads, Own
<1>1. StackTypes /\ Nest /\ Lists /\ DataTypes
  BY DEF IInv, Data
<1>2. ChatOnly
  <2>1. UNCHANGED <<clientVars, guiVars, endVars>>
    BY DEF ListNext
  <2>. QED BY <1>1, <2>1, Unchanged
<1>3. CASE rest = {}
  <2>1. Return("srv")
    BY <1>3 DEF ListNext
  <2>. QED BY <1>0, <1>2, <2>1, SrvReturnKeeps
<1>4. CASE rest # {}
  <2>. DEFINE c == CHOOSE d \in rest : \A e \in rest : e <= d
              b == Top("srv").back
              k == F("list", 0)
              h == [k EXCEPT !.rest = rest \ {c}]
              g == Addressed(h, b)
              m == F("listclient", c)
  <2>1. c \in rest
    <3>1. rest \in SUBSET (1 .. MaxClients) /\ MaxClients \in Nat
      BY BoundsAssumption DEF Listed, Clients
    <3>2. \E d \in rest : \A e \in rest : e <= d
      BY <1>4, <3>1, GreatestNumber
    <3>. QED BY <3>2
  <2>2. SendFrom("srv", Front(Srv), g, m)
    <3>1. Send("srv", h, m)
      BY <1>4 DEF ListNext
    <3>. QED BY <3>1 DEF Send, Srv, Addressed
  <2>3. /\ Len(Srv) \in DOMAIN Srv /\ Top("srv") = Srv[Len(Srv)] /\ Top("srv").op = op
        /\ Top("srv") \in Frames
    BY <1>0, <1>1, AtTop DEF Srv
  <2>4. b # 0 /\ b \in Nat
    BY <1>0, <1>1, <2>3 DEF Nest, SrvPlaces, Frames
  <2>5. dlg # "none"
    BY <1>1, <2>3 DEF Lists
  <2>. HIDE DEF c, b
  <2>6. c \in Clients /\ c \in Listed
    BY <2>1 DEF Listed
  <2>7. /\ m \in Frames /\ m.op = "listclient" /\ m.c = c /\ m.a = at[c] /\ ~m.wait
    BY <1>0, <1>1, <2>6, ClientFrame
  <2>. HIDE DEF m
  <2>8. Telling(m)
    BY <2>6, <2>7 DEF Telling, Handlers
  <2>9. k \in Frames /\ k.op = "list"
    BY <1>0, PlainFrame
  <2>. HIDE DEF k
  <2>10. h \in Frames /\ h.op = "list" /\ h.rest = rest \ {c}
    <3>1. rest \ {c} \in SUBSET Clients
      BY DEF Listed
    <3>. DEFINE r == rest \ {c}
    <3>. HIDE DEF r
    <3>2. [k EXCEPT !.rest = r] \in Frames /\ [k EXCEPT !.rest = r].op = "list" /\ [k EXCEPT !.rest = r].rest = r
      BY <2>9, <3>1 DEF Frames, r
    <3>. QED BY <3>2 DEF r
  <2>. HIDE DEF h
  <2>11. g \in Frames /\ g.back = b /\ g.op = "list" /\ g.rest = rest \ {c}
    BY <2>4, <2>10, AddressedKept
  <2>. HIDE DEF g
  <2>12. Sending(g) /\ g.op \in Requests
    BY <2>5, <2>11 DEF Sending, Requests
  <2>13. g.back = Top("srv").back /\ g.back # 0
    BY <2>4, <2>11 DEF b
  <2>. QED BY <1>0, <1>2, <2>2, <2>7, <2>8, <2>11, <2>12, <2>13, SrvGoesOnKeeps
<1>. QED BY <1>3, <1>4

\* rfbsForEachClient begins and goes on.
LEMMA ListSteps ==
  ASSUME IInv, StartList \/ ListClients
  PROVE  IInv'
<1>1. CASE StartList
  BY <1>1, ListNextKeeps DEF StartList
<1>2. CASE ListClients
  <2>1. At("srv", "list") /\ ListNext(Top("srv").rest)
    BY <1>2 DEF ListClients
  <2>2. Top("srv").rest \subseteq Listed
    <3>1. "list" \in Ops /\ "srv" \in Threads /\ StackTypes /\ Lists
      BY DEF Ops, Threads, IInv, Data
    <3>2. Len(Srv) \in DOMAIN Srv /\ Top("srv") = Srv[Len(Srv)]
      BY <2>1, <3>1, AtTop DEF Srv
    <3>. QED BY <3>1, <3>2 DEF Lists
  <2>. DEFINE rest == Top("srv").rest
  <2>3. rest \subseteq Listed /\ ListNext(rest)
    BY <2>1, <2>2
  <2>. HIDE DEF rest
  <2>. QED BY <2>1, <2>3, ListNextKeeps
<1>. QED BY <1>1, <1>2

-----------------------------------------------------------------------------
(* Clients come and go. *)

\* The message that goes to the GUI leads from the old counter to the
\* new one.
NewNumber(q, n) ==
  /\ Nums' = Nums \cup {q} /\ q.back = n /\ Before(q) = cClients /\ q.n = cClients'
  /\ (q.on => q.n # 0) /\ n \in 1 .. 2
  /\ \A k \in Nums : k.back \in 1 .. n - 1

\* The chain of numbers under way gets one more at its end.
LEMMA NumbersAdded ==
  ASSUME Numbers, shown' = shown, down' = down, NEW q, NEW n,
         "gui" \notin down => NewNumber(q, n)
  PROVE  Numbers'
<1>1. SUFFICES ASSUME "gui" \notin down PROVE Numbers'
  BY DEF Numbers
<1>2. /\ Nums' = Nums \cup {q} /\ q.back = n /\ Before(q) = cClients /\ q.n = cClients'
      /\ (q.on => q.n # 0) /\ n \in 1 .. 2
      /\ \A k \in Nums : k.back \in 1 .. n - 1
  BY <1>1 DEF NewNumber
<1>3. /\ shown.online = (shown.n # 0)
      /\ Nums = {} => shown.n = cClients
      /\ \A m \in Nums :
           /\ m.on => m.n # 0
           /\ (\A k \in Nums : m.back <= k.back) => Before(m) = shown.n
           /\ (\A k \in Nums : k.back <= m.back) => m.n = cClients
           /\ \A k \in Nums : k.back < m.back => Before(m) = k.n
  BY <1>1 DEF Numbers
<1>4. \A k \in Nums : k.back = 1 /\ n = 2
  <2>1. ASSUME NEW k \in Nums PROVE k.back = 1 /\ n = 2
    <3>1. k.back \in 1 .. n - 1 /\ n \in 1 .. 2
      BY <1>2
    <3>. QED BY <3>1
  <2>. QED BY <2>1
<1>5. \A k \in Nums : k.n = cClients
  BY <1>3, <1>4
<1>6. ASSUME NEW m \in Nums'
      PROVE  /\ m.on => m.n # 0
             /\ (\A k \in Nums' : m.back <= k.back) => Before(m) = shown.n
             /\ (\A k \in Nums' : k.back <= m.back) => m.n = cClients'
             /\ \A k \in Nums' : k.back < m.back => Before(m) = k.n
  <2>1. CASE m = q
    <3>1. (\A k \in Nums' : m.back <= k.back) => Nums = {}
      BY <1>2, <1>4, <2>1
    <3>2. \A k \in Nums' : k.back < m.back => Before(m) = k.n
      BY <1>2, <1>5, <2>1
    <3>. QED BY <1>2, <1>3, <2>1, <3>1, <3>2
  <2>2. CASE m \in Nums
    <3>1. m.back = 1 /\ n = 2
      BY <1>4, <2>2
    <3>2. ~(\A k \in Nums' : k.back <= m.back)
      <4>1. q \in Nums' /\ q.back = 2
        BY <1>2, <3>1
      <4>2. ~(q.back <= m.back)
        BY <3>1, <4>1
      <4>. QED BY <4>1, <4>2
    <3>3. (\A k \in Nums' : m.back <= k.back) => \A k \in Nums : m.back <= k.back
      BY <1>2
    <3>4. \A k \in Nums' : k.back < m.back => Before(m) = k.n
      <4>1. \A k \in Nums' : k.back = 1 \/ k.back = 2
        BY <1>2, <1>4, <3>1
      <4>. QED BY <3>1, <4>1
    <3>. QED BY <1>3, <2>2, <3>2, <3>3, <3>4
  <2>. QED BY <1>2, <2>1, <2>2
<1>7. Nums' # {}
  BY <1>2
<1>8. \A m : Before(m)' = Before(m)
  BY DEF Before
<1>. QED BY <1>3, <1>6, <1>7 DEF Numbers, Before

\* There are at most MaxClients clients in any set of them.
LEMMA ListedFinite ==
  /\ IsFiniteSet(Clients) /\ Cardinality(Clients) = MaxClients
  /\ \A S \in SUBSET Clients : /\ IsFiniteSet(S) /\ Cardinality(S) \in Nat
                               /\ Cardinality(S) <= MaxClients
<1>1. IsFiniteSet(Clients) /\ Cardinality(Clients) = MaxClients
  <2>1. 1 \in Int /\ MaxClients \in Int /\ MaxClients >= 0
    BY BoundsAssumption
  <2>2. IsFiniteSet(1 .. MaxClients)
    BY <2>1, FS_Interval
  <2>3. Cardinality(1 .. MaxClients) = IF 1 > MaxClients THEN 0 ELSE MaxClients - 1 + 1
    BY <2>1, FS_Interval
  <2>4. Cardinality(1 .. MaxClients) = MaxClients
    BY <2>1, <2>3
  <2>. QED BY <2>2, <2>4 DEF Clients
<1>2. ASSUME NEW S \in SUBSET Clients
      PROVE  IsFiniteSet(S) /\ Cardinality(S) \in Nat /\ Cardinality(S) <= MaxClients
  <2>1. IsFiniteSet(S) /\ Cardinality(S) <= Cardinality(Clients)
    BY <1>1, FS_Subset
  <2>2. Cardinality(S) \in Nat
    BY <2>1, FS_CardinalityType
  <2>. QED BY <1>1, <2>1, <2>2
<1>. QED BY <1>1, <1>2

\* The client that comes.
LEMMA OneMore ==
  ASSUME Data, NEW c \in Clients, phase[c] = "new"
  PROVE  /\ c \notin Listed \cup Gone /\ Listed \cup Gone \in SUBSET Clients
         /\ Cardinality(Listed \cup Gone \cup {c}) = cClients + 1
         /\ cClients + 1 \in 1 .. MaxClients
<1>. DEFINE X == Listed \cup Gone
<1>1. Gone \subseteq Going
  BY DEF Data, Names
<1>2. X \in SUBSET Clients /\ c \notin X /\ X \cup {c} \in SUBSET Clients
  BY <1>1 DEF Listed, Going
<1>3. cClients = Cardinality(X)
  BY DEF Data, Counter
<1>. HIDE DEF X
<1>4. IsFiniteSet(X) /\ Cardinality(X) \in Nat
  BY <1>2, ListedFinite
<1>5. Cardinality(X \cup {c}) = Cardinality(X) + 1
  BY <1>2, <1>4, FS_AddElement
<1>6. Cardinality(X \cup {c}) <= MaxClients
  BY <1>2, ListedFinite
<1>7. cClients + 1 \in 1 .. MaxClients
  BY <1>3, <1>4, <1>5, <1>6, BoundsAssumption
<1>. QED BY <1>2, <1>3, <1>5, <1>7 DEF X

NumberFrame(m, n, c, a) ==
  /\ m \in Frames /\ m.op = "num" /\ m.c = c /\ m.a = a /\ m.n = n /\ ~m.wait

\* The message that tells a number.
LEMMA NumberTyped ==
  ASSUME DataTypes, NEW c \in Clients, NEW n \in 0 .. MaxClients, NEW on \in BOOLEAN
  PROVE  NumberFrame(NumMessage(n, on, c), n, c, at[c]) /\ NumMessage(n, on, c).on = on
<1>. DEFINE g == F("num", c)
            h == [g EXCEPT !.n = n, !.on = on]
<1>1. "num" \in Ops
  BY DEF Ops
<1>2. g \in Frames /\ g.op = "num" /\ g.c = c /\ g.a = at[c] /\ ~g.wait
  BY <1>1, ClientFrame
<1>3. NumMessage(n, on, c) = h
  BY DEF NumMessage
<1>. HIDE DEF g
<1>4. /\ h \in Frames /\ h.op = "num" /\ h.c = c /\ h.a = at[c] /\ h.n = n /\ ~h.wait /\ h.on = on
  BY <1>2 DEF Frames
<1>. HIDE DEF h
<1>. QED BY <1>3, <1>4 DEF NumberFrame

\* The data of the server with one more client.
LEMMA NewClient ==
  ASSUME StackTypes, Nest, Data, NEW c \in Clients, NEW a \in Addrs, phase[c] = "new",
         phase' = [phase EXCEPT ![c] = "listed"], at' = [at EXCEPT ![c] = a],
         NumChanged(cClients + 1), UNCHANGED <<hwndChat, guiVars, endVars>>,
         NEW f \in Frames, f.op = "joined", f.rest = {},
         NEW m \in Frames, NumberFrame(m, cClients + 1, c, a), m.on,
         NEW n \in 1 .. 2, SrvSent(f, m, n), \A i \in DOMAIN Srv : i \in 1 .. n,
         n \in DOMAIN Srv => Srv[n].op = "attach"
  PROVE  Data'
<1>. DEFINE q == Addressed(m, n)
<1>0. /\ hwndChat' = hwndChat /\ dlg' = dlg /\ recs' = recs /\ win' = win /\ shown' = shown
      /\ quit' = quit /\ down' = down /\ cClients' = cClients + 1
      /\ viewer' = (cClients + 1 # 0) /\ DataTypes /\ cClients + 1 \in 1 .. MaxClients
  BY OneMore DEF guiVars, endVars, NumChanged, Data
<1>1. /\ q.op = "num" /\ q.c = c /\ q.a = a /\ q.on /\ q.n = cClients + 1 /\ q.back = n
  BY AddressedKept DEF NumberFrame
<1>2. /\ Gui' = Gui /\ Req' = Req /\ DOMAIN Srv' = 1 .. n
      /\ \A i \in 1 .. n - 1 : i \in DOMAIN Srv /\ Srv'[i] = Srv[i]
      /\ Srv'[n].op = f.op /\ Srv'[n].c = f.c /\ Srv'[n].rest = f.rest
      /\ Calls' = IF "gui" \in down THEN {} ELSE Calls \cup {q}
      /\ \A k \in Calls : k.back \in 1 .. n - 1
      /\ "gui" \in down => Calls = {}
  BY DEF SrvSent
<1>. HIDE DEF q
<1>3. \A i \in DOMAIN Srv' : i \in 1 .. n - 1 \/ i = n
  BY <1>2
<1>a. \A i \in DOMAIN Srv : i \in 1 .. n - 1 \/ i = n
  OBVIOUS
<1>b. n \in DOMAIN Srv' /\ \A i \in 1 .. n - 1 : i \in DOMAIN Srv'
  BY <1>2
<1>4. Gone' = Gone /\ Freed' = Freed
  BY <1>2, <1>3, <1>a, <1>b DEF Gone, Freed
<1>5. /\ phase \in [Clients -> {"new", "listed", "going", "freed"}]
      /\ at \in [Clients -> Addrs \cup {None}]
  BY <1>0 DEF DataTypes
<1>6. /\ Listed' = Listed \cup {c} /\ Going' = Going /\ Allocated' = Allocated \cup {c}
      /\ c \notin Allocated /\ phase'[c] = "listed" /\ at'[c] = a
      /\ \A d \in Clients \ {c} : phase'[d] = phase[d] /\ at'[d] = at[d]
  BY <1>5 DEF Listed, Going, Allocated
<1>7. DataTypes'
  BY <1>0, <1>5 DEF DataTypes
<1>8. Lists'
  <2>1. \A i \in DOMAIN Srv' : Srv'[i].rest \subseteq Listed'
    BY <1>2, <1>3, <1>6 DEF Data, Lists
  <2>2. \A i \in DOMAIN Srv' : Srv'[i].op \in {"listing", "list"} => dlg # "none"
    BY <1>2, <1>3 DEF Data, Lists
  <2>. QED BY <1>0, <1>2, <2>1, <2>2 DEF Data, Lists
<1>9. Names'
  <2>1. ASSUME NEW k \in Calls' PROVE Named(k)'
    <3>1. CASE k \in Calls
      <4>1. Named(k)
        BY <3>1 DEF Data, Names
      <4>2. k.back \in DOMAIN Srv /\ Srv'[k.back] = Srv[k.back]
        BY <1>2, <3>1
      <4>3. k.op \in {"num", "listclient"} => phase[k.c] \in {"listed", "going"}
        <5>1. k.op = "num" /\ ~k.on => k.c \in Freed
          BY <4>1, <4>2 DEF Named, Freed
        <5>2. \A d \in Freed : phase[d] = "going"
          BY DEF Data, Names, Going
        <5>. QED BY <4>1, <5>1, <5>2 DEF Named
      <4>4. k.op \in {"num", "listclient"} => k.c \in Clients \ {c}
        BY <4>1, <4>3 DEF Named
      <4>. QED BY <1>6, <4>1, <4>2, <4>4 DEF Named
    <3>2. CASE k = q
      BY <1>1, <1>6, <3>2 DEF Named
    <3>. QED BY <1>2, <2>1, <3>1, <3>2
  <2>2. \A i \in DOMAIN Srv' : Srv'[i].op \in {"gone", "free", "opening", "showing"} => Srv'[i].c \in Clients
    BY <1>2, <1>3 DEF Data, Names
  <2>. QED BY <1>2, <1>4, <1>6, <2>1, <2>2 DEF Data, Names
<1>10. Records'
  <2>1. ASSUME NEW s \in Slots, recs[s].live PROVE Recorded(s)'
    <3>1. Recorded(s)
      BY <2>1 DEF Data, Records
    <3>2. recs[s].c \in Allocated /\ recs[s].c \in Clients \ {c} /\ "gui" \notin down
      BY <1>6, <3>1 DEF Recorded, Allocated
    <3>3. Calls \subseteq Calls'
      BY <1>2, <3>2
    <3>4. Leaving(recs[s].c) => Leaving(recs[s].c)'
      BY <1>0, <1>4, <3>3 DEF Leaving
    <3>5. At("gui", "listed")' = At("gui", "listed")
      BY <1>2 DEF At, Top, Gui
    <3>. QED BY <1>0, <1>2, <1>6, <3>1, <3>2, <3>4, <3>5 DEF Recorded
  <2>. QED BY <1>0, <2>1 DEF Data, Records
<1>11. Counter'
  <2>1. Listed' \cup Gone' = Listed \cup Gone \cup {c}
    BY <1>4, <1>6
  <2>2. Cardinality(Listed' \cup Gone') = cClients + 1
    BY <2>1, OneMore
  <2>. QED BY <1>0, <2>2 DEF Counter
<1>12. Numbers'
  <2>1. ASSUME "gui" \notin down PROVE NewNumber(q, n)
    <3>1. Nums' = Nums \cup {q}
      BY <1>1, <1>2, <2>1 DEF Nums
    <3>2. Before(q) = cClients
      BY <1>0, <1>1 DEF Before, DataTypes
    <3>3. q.n # 0 /\ q.n = cClients'
      BY <1>0, <1>1
    <3>4. \A k \in Nums : k.back \in 1 .. n - 1
      BY <1>2 DEF Nums
    <3>. QED BY <1>1, <3>1, <3>2, <3>3, <3>4 DEF NewNumber
  <2>2. Numbers
    BY DEF Data
  <2>. QED BY <1>0, <2>1, <2>2, NumbersAdded
<1>. QED BY <1>7, <1>8, <1>9, <1>10, <1>11, <1>12 DEF Data

\* The frame that waits until the GUI knows of the new client.
LEMMA JoinedTyped ==
  ASSUME NEW b \in Nat
  PROVE  \A f : f = [Blank EXCEPT !.op = "joined", !.back = b] =>
           f \in Frames /\ f.op = "joined" /\ f.rest = {} /\ f.back = b
<1>1. 0 \in 0 .. MaxClients
  BY BoundsAssumption
<1>. QED BY <1>1 DEF Blank, Frames, Ops

\* A client comes, as a connection or as a socket the GUI has connected.
LEMMA ClientNewSteps ==
  ASSUME IInv, Accept \/ Attach
  PROVE  IInv'
<1>0. "attach" \in Ops /\ "srv" \in Threads
  BY DEF Ops, Threads
<1>1. StackTypes /\ Nest /\ Data /\ DataTypes
  BY DEF IInv, Data
<1>2. ASSUME NEW fs, NEW b \in Nat, ClientNew(fs, b), NEW n \in 1 .. 2,
             \A f \in Frames, m \in Frames :
               f.back = b /\ f.op = "joined" /\ m.op \in Handlers /\ ~m.wait
                 /\ SendFrom("srv", fs, f, m) => SrvSent(f, m, n),
             \A i \in DOMAIN Srv : i \in 1 .. n, n \in DOMAIN Srv => Srv[n].op = "attach"
      PROVE  IInv'
  <2>1. PICK c \in Clients, a \in Addrs :
          /\ phase[c] = "new"
          /\ phase' = [phase EXCEPT ![c] = "listed"]
          /\ at' = [at EXCEPT ![c] = a]
          /\ NumChanged(cClients + 1)
          /\ SendFrom("srv", fs, [Blank EXCEPT !.op = "joined", !.back = b],
                      [NumMessage(cClients + 1, TRUE, c) EXCEPT !.a = a])
          /\ UNCHANGED <<hwndChat, guiVars, endVars>>
    BY <1>2 DEF ClientNew
  <2>. DEFINE f == [Blank EXCEPT !.op = "joined", !.back = b]
              g == NumMessage(cClients + 1, TRUE, c)
              m == [g EXCEPT !.a = a]
  <2>2. f \in Frames /\ f.op = "joined" /\ f.rest = {} /\ f.back = b
    BY JoinedTyped
  <2>3. cClients + 1 \in 0 .. MaxClients /\ TRUE \in BOOLEAN
    <3>1. cClients + 1 \in 1 .. MaxClients
      BY <1>1, <2>1, OneMore
    <3>. QED BY <3>1
  <2>4. NumberFrame(g, cClients + 1, c, at[c]) /\ g.on
    BY <1>1, <2>3, NumberTyped
  <2>. DEFINE k == cClients + 1
  <2>. HIDE DEF g, k
  <2>5. NumberFrame(m, k, c, a) /\ m.on /\ m \in Frames
    BY <2>4 DEF NumberFrame, Frames, k
  <2>6. SendFrom("srv", fs, f, m)
    BY <2>1 DEF g
  <2>. HIDE DEF f, m
  <2>7. m.op \in Handlers /\ ~m.wait
    BY <2>5 DEF NumberFrame, Handlers
  <2>8. SrvSent(f, m, n)
    BY <1>2, <2>2, <2>5, <2>6, <2>7
  <2>9. Data'
    <3>1. NumberFrame(m, cClients + 1, c, a)
      BY <2>5 DEF k
    <3>. QED BY <1>1, <1>2, <2>1, <2>2, <2>5, <2>8, <3>1, NewClient
  <2>. QED BY <2>8, <2>9 DEF IInv, SrvSent
<1>3. UNCHANGED endVars
  BY DEF Accept, Attach, ClientNew
<1>4. CASE Accept
  <2>1. Idle("srv") /\ ClientNew(<<>>, 0)
    BY <1>4 DEF Accept
  <2>2. Srv = <<>>
    BY <2>1 DEF Idle, Srv
  <2>3. ASSUME NEW f \in Frames, NEW m \in Frames, f.back = 0, f.op = "joined",
               m.op \in Handlers, ~m.wait, SendFrom("srv", <<>>, f, m)
        PROVE  SrvSent(f, m, 1)
    <3>1. f.op \in Own
      BY <2>3 DEF Own
    <3>. QED BY <1>1, <1>3, <2>1, <2>3, <3>1, SrvStart
  <2>. DEFINE fs == <<>>
              b == 0
              n == 1
  <2>4. b \in Nat /\ n \in 1 .. 2 /\ ClientNew(fs, b)
    BY <2>1
  <2>5. \A f \in Frames, m \in Frames :
               f.back = b /\ f.op = "joined" /\ m.op \in Handlers /\ ~m.wait
                 /\ SendFrom("srv", fs, f, m) => SrvSent(f, m, n)
    BY <2>3
  <2>6. /\ \A i \in DOMAIN Srv : i \in 1 .. n
        /\ n \in DOMAIN Srv => Srv[n].op = "attach"
    BY <2>2
  <2>. HIDE DEF fs, b, n
  <2>. QED BY <1>2, <2>4, <2>5, <2>6
<1>5. CASE Attach
  <2>1. At("srv", "attach") /\ ClientNew(Front(Srv), Top("srv").back)
    BY <1>5 DEF Attach, Srv
  <2>2. /\ Len(Srv) \in DOMAIN Srv /\ Top("srv") = Srv[Len(Srv)] /\ Top("srv").op = "attach"
        /\ Top("srv") \in Frames
    BY <1>0, <1>1, <2>1, AtTop DEF Srv
  <2>. DEFINE fs == Front(Srv)
              b == Top("srv").back
              n == Len(Srv)
  <2>3. b \in Nat /\ b # 0
    BY <1>1, <2>2 DEF Nest, SrvPlaces, Frames, Own
  <2>4. n \in 1 .. 2 /\ \A i \in DOMAIN Srv : i \in 1 .. n
    <3>1. n <= 2 /\ DOMAIN Srv = 1 .. n /\ n \in Nat /\ n \in DOMAIN Srv
      BY <1>1, <2>2, Depth, Stacks
    <3>. QED BY <3>1
  <2>5. ASSUME NEW f \in Frames, NEW m \in Frames, f.back = b, f.op = "joined",
               m.op \in Handlers, ~m.wait, SendFrom("srv", fs, f, m)
        PROVE  SrvSent(f, m, n)
    <3>1. f.op \in Requests
      BY <2>5 DEF Requests
    <3>2. f.back = Top("srv").back /\ (IF f.back = 0 THEN f.op \in Own ELSE f.op \in Requests)
      BY <2>3, <2>5, <3>1
    <3>. QED BY <1>0, <1>1, <1>3, <2>1, <2>5, <3>2, SrvGoesOn
  <2>6. ClientNew(fs, b) /\ (n \in DOMAIN Srv => Srv[n].op = "attach")
    BY <2>1, <2>2
  <2>7. \A f \in Frames, m \in Frames :
               f.back = b /\ f.op = "joined" /\ m.op \in Handlers /\ ~m.wait
                 /\ SendFrom("srv", fs, f, m) => SrvSent(f, m, n)
    BY <2>5
  <2>. HIDE DEF fs, b, n
  <2>. QED BY <1>2, <2>3, <2>4, <2>6, <2>7
<1>. QED BY <1>4, <1>5

\* Who is at the bottom of the main thread and does not wait is alone.
LEMMA Alone ==
  ASSUME StackTypes, Nest, NEW op \in {"gone", "free"}, At("srv", op)
  PROVE  /\ Len(Srv) = 1 /\ DOMAIN Srv = {1} /\ Srv[1] = Top("srv") /\ Top("srv").op = op
         /\ Top("srv").back = 0 /\ Top("srv") \in Frames /\ Calls = {}
<1>0. op \in Ops /\ "srv" \in Threads
  BY DEF Ops, Threads
<1>1. /\ Len(Srv) \in DOMAIN Srv /\ Top("srv") = Srv[Len(Srv)] /\ Top("srv").op = op
      /\ Top("srv") \in Frames /\ ~Top("srv").wait
  BY <1>0, AtTop DEF Srv
<1>2. Top("srv").back = 0 /\ Len(Srv) = 1
  BY <1>1 DEF Nest, SrvPlaces, Requests
<1>3. DOMAIN Srv = {1}
  <2>1. DOMAIN Srv = 1 .. Len(Srv)
    BY Stacks
  <2>. QED BY <1>2, <2>1
<1>4. Calls = {}
  <2>1. \A k \in Calls : k.back \in DOMAIN Srv /\ Srv[k.back].wait
    BY DEF Nest, Calling
  <2>. QED BY <1>1, <1>2, <1>3, <2>1
<1>. QED BY <1>1, <1>2, <1>3, <1>4

\* Nobody goes while the main thread has nothing to do.
LEMMA NobodyGoes ==
  ASSUME Nest, Data, Srv = <<>>
  PROVE  Gone = {} /\ Freed = {} /\ Going = {} /\ Calls = {} /\ Nums = {}
<1>1. \A i \in DOMAIN Srv : FALSE
  OBVIOUS
<1>2. Gone = {} /\ Freed = {}
  BY <1>1 DEF Gone, Freed
<1>3. Calls = {}
  BY <1>1 DEF Nest, Calling
<1>. QED BY <1>2, <1>3 DEF Data, Names, Nums

\* A list window that waits for nothing any more is shown next.
LEMMA ListedNext ==
  ASSUME StackTypes, Nest, Srv = <<>>, Req = <<>>, NEW i \in DOMAIN Gui, Gui[i].op = "listed"
  PROVE  At("gui", "listed")
<1>1. /\ Gui \in Seq(Frames) /\ DOMAIN Gui = 1 .. Len(Gui) /\ Len(Gui) \in Nat
  BY Stacks
<1>2. \A j \in DOMAIN Srv : FALSE
  OBVIOUS
<1>3. Calls = {}
  BY <1>2 DEF Nest, Calling
<1>4. \A j \in DOMAIN Gui : Gui[j].op \notin Handlers
  BY <1>3 DEF Calls, ToSet
<1>5. ~Gui[i].wait
  BY <1>2 DEF Nest, Pending
<1>6. Gui # <<>>
  BY <1>1
<1>7. Len(Gui) \in DOMAIN Gui /\ Last(Gui) = Gui[Len(Gui)]
  BY <1>1, <1>6, FrontFacts
<1>8. i = Len(Gui)
  <2>1. CASE Gui[Len(Gui)].op = "box"
    <3>1. Len(Gui) = 1
      BY <1>7, <2>1 DEF Nest, GuiPlaces, Commands, Handlers
    <3>. QED BY <1>1, <3>1
  <2>2. CASE Gui[Len(Gui)].op \in Commands
    <3>1. Gui[i].op \in Commands
      BY DEF Commands
    <3>. QED BY <1>7, <2>2, <3>1, Depth
  <2>. QED BY <1>4, <1>7, <2>1, <2>2 DEF Nest, GuiPlaces
<1>9. Top("gui") = Gui[i]
  BY <1>6, <1>7, <1>8 DEF Top, Gui
<1>. QED BY <1>5, <1>9 DEF At

\* The client is told of in the windows; its connection is gone.
LEMMA ClientGoes ==
  ASSUME StackTypes, Nest, Data, Srv = <<>>, NEW c \in Listed,
         phase' = [phase EXCEPT ![c] = "going"],
         UNCHANGED <<at, hwndChat, cClients, viewer, guiVars, endVars>>,
         DOMAIN Srv' = {1}, Srv'[1].op = "gone", Srv'[1].c = c, Srv'[1].rest = {},
         Gui' = Gui, Req' = Req, \A k \in Calls' : k.op = "system" /\ k.w \in Wins
  PROVE  Data'
<1>0. /\ at' = at /\ hwndChat' = hwndChat /\ dlg' = dlg /\ recs' = recs /\ win' = win
      /\ shown' = shown /\ quit' = quit /\ down' = down /\ cClients' = cClients
      /\ viewer' = viewer /\ DataTypes
  BY DEF guiVars, endVars, Data
<1>1. Gone = {} /\ Freed = {} /\ Going = {} /\ Nums = {}
  BY NobodyGoes
<1>2. c \in Clients /\ phase[c] = "listed" /\ phase \in [Clients -> {"new", "listed", "going", "freed"}]
  BY <1>0 DEF Listed, DataTypes
<1>3. /\ Listed' = Listed \ {c} /\ Going' = {c} /\ Allocated' = Allocated
  BY <1>1, <1>2 DEF Listed, Going, Allocated
<1>4. Gone' = {c} /\ Freed' = {}
  BY <1>2 DEF Gone, Freed
<1>5. Nums' = {}
  BY DEF Nums
<1>6. DataTypes'
  BY <1>0, <1>2 DEF DataTypes
<1>7. Lists'
  BY <1>0 DEF Data, Lists
<1>8. Names'
  <2>1. \A k \in Calls' : Named(k)'
    BY DEF Named
  <2>2. \A i \in DOMAIN Srv' : Srv'[i].op \in {"gone", "free", "opening", "showing"} => Srv'[i].c \in Clients
    BY <1>2
  <2>. QED BY <1>3, <1>4, <2>1, <2>2 DEF Data, Names
<1>9. Records'
  <2>1. ASSUME NEW s \in Slots, recs[s].live PROVE Recorded(s)'
    <3>1. Recorded(s)
      BY <2>1 DEF Data, Records
    <3>2. dlg = "open" \/ At("gui", "listed")
      <4>1. CASE dlg = "creating"
        <5>1. PICK i \in DOMAIN Gui : Gui[i].op = "listed"
          BY <4>1 DEF Data, Lists
        <5>2. Req = <<>>
          BY <3>1, <4>1 DEF Recorded
        <5>. QED BY <5>1, <5>2, ListedNext
      <4>. QED BY <1>0, <3>1, <4>1 DEF Recorded, DataTypes
    <3>3. At("gui", "listed")' = At("gui", "listed")
      BY DEF At, Top, Gui
    <3>4. recs[s].c \in Going' => Leaving(recs[s].c)'
      BY <1>0, <1>3, <1>4 DEF Leaving
    <3>. QED BY <1>0, <1>3, <3>1, <3>2, <3>3, <3>4 DEF Recorded
  <2>. QED BY <1>0, <2>1 DEF Data, Records
<1>10. Counter'
  <2>1. Listed' \cup Gone' = Listed \cup Gone
    BY <1>1, <1>3, <1>4
  <2>. QED BY <1>0, <2>1 DEF Data, Counter
<1>11. Numbers'
  BY <1>0, <1>1, <1>5 DEF Data, Numbers
<1>. QED BY <1>6, <1>7, <1>8, <1>9, <1>10, <1>11 DEF Data

\* The connection of a client is gone.
LEMMA ConnectionGoneStep ==
  ASSUME IInv, ConnectionGone
  PROVE  IInv'
<1>0. "gone" \in Ops /\ "system" \in Ops
  BY DEF Ops
<1>1. StackTypes /\ Nest /\ Data /\ DataTypes
  BY DEF IInv, Data
<1>2. PICK c \in Listed :
        /\ phase' = [phase EXCEPT ![c] = "going"]
        /\ IF hwndChat[c] # None
           THEN Start("srv", F("gone", c), [F("system", c) EXCEPT !.w = hwndChat[c]])
           ELSE stack' = [stack EXCEPT !["srv"] = <<F("gone", c)>>] /\ UNCHANGED inbox
  BY DEF ConnectionGone
<1>3. UNCHANGED <<at, hwndChat, cClients, viewer, guiVars, endVars>> /\ UNCHANGED endVars
  BY DEF ConnectionGone
<1>4. c \in Clients /\ hwndChat[c] \in Wins \cup {None}
  BY <1>1 DEF Listed, DataTypes
<1>5. Idle("srv") /\ Srv = <<>> /\ stack["srv"] = <<>>
  BY DEF ConnectionGone, Idle, Srv
<1>6. Calls = {}
  BY <1>1, <1>5, NobodyGoes
<1>. DEFINE f == F("gone", c)
<1>7. f \in Frames /\ f.op = "gone" /\ f.c = c /\ f.rest = {} /\ ~f.wait /\ f.back = 0
  BY <1>0, <1>1, <1>4, ClientFrame
<1>8. CASE hwndChat[c] # None
  <2>. DEFINE w == hwndChat[c]
              g == F("system", c)
              m == [g EXCEPT !.w = w]
              q == Addressed(m, 1)
  <2>1. w \in Wins
    BY <1>4, <1>8
  <2>2. g \in Frames /\ g.op = "system" /\ ~g.wait
    BY <1>0, <1>1, <1>4, ClientFrame
  <2>3. SendFrom("srv", <<>>, f, m)
    BY <1>2, <1>5, <1>8 DEF Start
  <2>. HIDE DEF g, w
  <2>4. m \in Frames /\ m.op = "system" /\ ~m.wait /\ m.w = w
    BY <2>1, <2>2 DEF Frames
  <2>. HIDE DEF m, f
  <2>5. m.op \in Handlers /\ f.op \in Own
    BY <1>7, <2>4 DEF Handlers, Own
  <2>6. SrvSent(f, m, 1)
    BY <1>1, <1>3, <1>5, <1>7, <2>3, <2>4, <2>5, SrvStart
  <2>7. 1 \in Nat
    OBVIOUS
  <2>8. q.op = m.op /\ q.w = m.w
    BY <2>4, <2>7, AddressedKept
  <2>. HIDE DEF q
  <2>9. /\ Gui' = Gui /\ Req' = Req /\ DOMAIN Srv' = 1 .. 1
        /\ Srv'[1].op = f.op /\ Srv'[1].c = f.c /\ Srv'[1].rest = f.rest
        /\ Calls' = IF "gui" \in down THEN {} ELSE Calls \cup {q}
    BY <2>6 DEF SrvSent, q
  <2>10. \A k \in Calls' : k.op = "system" /\ k.w \in Wins
    BY <1>6, <2>1, <2>4, <2>8, <2>9
  <2>11. DOMAIN Srv' = {1}
    BY <2>9
  <2>12. Data'
    BY <1>1, <1>2, <1>3, <1>5, <1>7, <2>9, <2>10, <2>11, ClientGoes
  <2>. QED BY <2>6, <2>12 DEF IInv, SrvSent
<1>9. CASE hwndChat[c] = None
  <2>1. stack' = [stack EXCEPT !["srv"] = <<f>>] /\ inbox' = inbox
    BY <1>2, <1>9
  <2>. HIDE DEF f
  <2>2. f.op \in Own
    BY <1>7 DEF Own
  <2>3. SrvBegun(f)
    BY <1>1, <1>3, <1>5, <1>7, <2>1, <2>2, SrvBegins
  <2>4. Srv' = <<f>> /\ Gui' = Gui /\ Req' = Req /\ Calls' = {}
    BY <2>3 DEF SrvBegun
  <2>5. DOMAIN <<f>> = {1} /\ <<f>>[1] = f
    OBVIOUS
  <2>6. DOMAIN Srv' = {1} /\ Srv'[1].op = "gone" /\ Srv'[1].c = c /\ Srv'[1].rest = {}
    BY <1>7, <2>4, <2>5
  <2>7. Data'
    BY <1>1, <1>2, <1>3, <1>5, <2>4, <2>6, ClientGoes
  <2>. QED BY <2>3, <2>7 DEF IInv, SrvBegun
<1>. QED BY <1>8, <1>9

\* The number is lowered and told.
LEMMA CountedDown ==
  ASSUME StackTypes, Nest, Data, At("srv", "gone"), NEW c, c = Top("srv").c,
         UNCHANGED <<phase, at, hwndChat, guiVars, endVars>>, NumChanged(cClients - 1),
         NEW f \in Frames, f.op = "free", f.c = c, f.rest = {},
         NEW m \in Frames, NumberFrame(m, cClients - 1, c, at[c]), ~m.on, cClients - 1 \in 0 .. MaxClients,
         SrvSent(f, m, 1)
  PROVE  Data'
<1>. DEFINE q == Addressed(m, 1)
<1>0. /\ phase' = phase /\ at' = at /\ hwndChat' = hwndChat /\ dlg' = dlg /\ recs' = recs
      /\ win' = win /\ shown' = shown /\ quit' = quit /\ down' = down
      /\ cClients' = cClients - 1 /\ viewer' = (cClients - 1 # 0) /\ DataTypes /\ cClients \in Nat
  BY DEF guiVars, endVars, NumChanged, Data, DataTypes
<1>1. DOMAIN Srv = {1} /\ Srv[1].op = "gone" /\ Srv[1].c = c /\ Calls = {}
  BY Alone
<1>2. 1 \in Nat
  OBVIOUS
<1>3. /\ q.op = "num" /\ q.c = c /\ q.a = at[c] /\ ~q.on /\ q.n = cClients - 1 /\ q.back = 1
  BY <1>2, AddressedKept DEF NumberFrame
<1>. HIDE DEF q
<1>4. /\ Gui' = Gui /\ Req' = Req /\ DOMAIN Srv' = 1 .. 1
      /\ Srv'[1].op = f.op /\ Srv'[1].c = f.c /\ Srv'[1].rest = f.rest
      /\ Calls' = IF "gui" \in down THEN {} ELSE Calls \cup {q}
  BY DEF SrvSent, q
<1>5. DOMAIN Srv' = {1}
  BY <1>4
<1>6. c \in Clients
  BY <1>1 DEF Data, Names
<1>7. Gone = {c} /\ Freed = {} /\ Gone' = {} /\ Freed' = {c}
  BY <1>1, <1>4, <1>5, <1>6 DEF Gone, Freed
<1>8. Going = {c} /\ Going' = {c} /\ Listed' = Listed /\ Allocated' = Allocated /\ c \notin Listed
  BY <1>0, <1>7 DEF Data, Names, Going, Listed, Allocated
<1>9. DataTypes'
  BY <1>0 DEF DataTypes
<1>10. Lists'
  BY <1>0, <1>4, <1>5 DEF Data, Lists
<1>11. Names'
  <2>1. ASSUME NEW k \in Calls' PROVE Named(k)'
    <3>1. k = q
      BY <1>1, <1>4
    <3>. QED BY <1>0, <1>3, <1>4, <1>6, <3>1 DEF Named
  <2>2. \A i \in DOMAIN Srv' : Srv'[i].op \in {"gone", "free", "opening", "showing"} => Srv'[i].c \in Clients
    BY <1>4, <1>5, <1>6
  <2>. QED BY <1>4, <1>7, <1>8, <2>1, <2>2 DEF Data, Names
<1>12. Records'
  <2>1. ASSUME NEW s \in Slots, recs[s].live PROVE Recorded(s)'
    <3>1. Recorded(s)
      BY <2>1 DEF Data, Records
    <3>2. q \in Calls'
      BY <1>4, <3>1 DEF Recorded
    <3>3. recs[s].c \in Going => Leaving(recs[s].c)'
      BY <1>0, <1>3, <1>8, <3>2 DEF Leaving
    <3>4. At("gui", "listed")' = At("gui", "listed")
      BY <1>4 DEF At, Top, Gui
    <3>. QED BY <1>0, <1>4, <1>8, <3>1, <3>3, <3>4 DEF Recorded
  <2>. QED BY <1>0, <2>1 DEF Data, Records
<1>13. Counter'
  <2>1. IsFiniteSet(Listed) /\ Cardinality(Listed) \in Nat
    <3>1. Listed \in SUBSET Clients
      BY DEF Listed
    <3>. QED BY <3>1, ListedFinite
  <2>2. Cardinality(Listed \cup {c}) = Cardinality(Listed) + 1
    BY <1>8, <2>1, FS_AddElement
  <2>3. cClients = Cardinality(Listed \cup {c})
    BY <1>7 DEF Data, Counter
  <2>4. Listed' \cup Gone' = Listed
    BY <1>7, <1>8
  <2>5. Cardinality(Listed) = cClients - 1
    BY <2>1, <2>2, <2>3
  <2>. QED BY <1>0, <2>4, <2>5 DEF Counter
<1>14. Numbers'
  <2>1. ASSUME "gui" \notin down PROVE NewNumber(q, 1)
    <3>1. Nums = {} /\ Nums' = {q}
      BY <1>1, <1>3, <1>4, <2>1 DEF Nums
    <3>2. Before(q) = cClients
      BY <1>0, <1>3 DEF Before
    <3>. QED BY <1>0, <1>3, <3>1, <3>2 DEF NewNumber
  <2>2. Numbers
    BY DEF Data
  <2>. DEFINE n == 1
  <2>3. "gui" \notin down => NewNumber(q, n)
    BY <2>1
  <2>. HIDE DEF n
  <2>. QED BY <1>0, <2>2, <2>3, NumbersAdded
<1>. QED BY <1>9, <1>10, <1>11, <1>12, <1>13, <1>14 DEF Data

\* The number is lowered: there is a client to count, so it is not zero.
LEMMA CountDownStep ==
  ASSUME IInv, CountDown
  PROVE  IInv'
<1>. DEFINE c == Top("srv").c
            f == F("free", c)
            n == cClients - 1
            m == NumMessage(n, FALSE, c)
            g == Addressed(f, Top("srv").back)
<1>0. "free" \in Ops /\ "gone" \in Ops /\ FALSE \in BOOLEAN
  BY DEF Ops
<1>1. StackTypes /\ Nest /\ Data /\ DataTypes /\ At("srv", "gone")
  BY DEF IInv, Data, CountDown
<1>2. /\ Len(Srv) = 1 /\ DOMAIN Srv = {1} /\ Srv[1] = Top("srv") /\ Top("srv").op = "gone"
      /\ Top("srv").back = 0 /\ Calls = {}
  BY <1>1, Alone
<1>3. c \in Clients /\ c \in Gone
  BY <1>1, <1>2 DEF Data, Names, Gone
<1>4. cClients # 0 /\ cClients \in Nat /\ cClients <= MaxClients
  <2>. DEFINE X == Listed \cup Gone
  <2>1. X \in SUBSET Clients /\ c \in X
    BY <1>3 DEF Listed, Gone
  <2>2. cClients = Cardinality(X)
    BY <1>1 DEF Data, Counter
  <2>. HIDE DEF X
  <2>3. IsFiniteSet(X) /\ Cardinality(X) \in Nat /\ Cardinality(X) <= MaxClients
    BY <2>1, ListedFinite
  <2>4. Cardinality(X) # 0
    BY <2>1, <2>3, FS_EmptySet
  <2>. QED BY <2>2, <2>3, <2>4
<1>5. n \in 0 .. MaxClients
  BY <1>4, BoundsAssumption
<1>6. /\ UNCHANGED <<phase, at, hwndChat, guiVars, endVars>> /\ UNCHANGED endVars
      /\ NumChanged(n) /\ SendFrom("srv", Front(Srv), g, m)
  BY <1>4 DEF CountDown, Send, Srv, Addressed
<1>7. NumberFrame(m, n, c, at[c]) /\ m.on = FALSE
  <2>. HIDE DEF n, c
  <2>. QED BY <1>0, <1>1, <1>3, <1>5, NumberTyped
<1>8. f \in Frames /\ f.op = "free" /\ f.c = c /\ f.rest = {}
  BY <1>0, <1>1, <1>3, ClientFrame
<1>. HIDE DEF f, m
<1>9. g \in Frames /\ g.op = "free" /\ g.c = c /\ g.rest = {} /\ g.back = 0 /\ g.back = Top("srv").back
  <2>1. 0 \in Nat
    OBVIOUS
  <2>2. g = Addressed(f, 0)
    BY <1>2
  <2>. QED BY <1>2, <1>8, <2>1, <2>2, AddressedKept
<1>. HIDE DEF g
<1>10. m \in Frames /\ m.op \in Handlers /\ ~m.wait /\ g.op \in Own
  BY <1>7, <1>9 DEF NumberFrame, Handlers, Own
<1>11. SrvSent(g, m, Len(Srv))
  BY <1>0, <1>1, <1>6, <1>9, <1>10, SrvGoesOn
<1>12. SrvSent(g, m, 1)
  BY <1>2, <1>11
<1>13. Data'
  <2>1. NumChanged(cClients - 1) /\ NumberFrame(m, cClients - 1, c, at[c]) /\ cClients - 1 \in 0 .. MaxClients
    BY <1>5, <1>6, <1>7
  <2>2. ~m.on /\ c = Top("srv").c
    BY <1>7
  <2>. HIDE DEF c, n
  <2>. QED BY <1>1, <1>6, <1>9, <1>10, <1>12, <2>1, <2>2, CountedDown
<1>. QED BY <1>12, <1>13 DEF IInv, SrvSent

\* The record of the client is freed; no record of the list names it any more.
LEMMA FreeClientStep ==
  ASSUME IInv, FreeClient
  PROVE  IInv'
<1>. DEFINE c == Top("srv").c
<1>1. StackTypes /\ Nest /\ Data /\ DataTypes /\ At("srv", "free")
  BY DEF IInv, Data, FreeClient
<1>2. /\ Len(Srv) = 1 /\ DOMAIN Srv = {1} /\ Srv[1] = Top("srv") /\ Top("srv").op = "free"
      /\ Calls = {} /\ ~Top("srv").wait
  BY <1>1, Alone DEF At
<1>3. /\ phase' = [phase EXCEPT ![c] = "freed"] /\ at' = [at EXCEPT ![c] = None]
      /\ hwndChat' = [hwndChat EXCEPT ![c] = None]
      /\ dlg' = dlg /\ recs' = recs /\ win' = win /\ shown' = shown /\ quit' = quit
      /\ down' = down /\ cClients' = cClients /\ viewer' = viewer
      /\ Return("srv") /\ UNCHANGED endVars
  BY DEF FreeClient, guiVars, endVars
<1>4. Srv # <<>>
  BY <1>2
<1>5. SrvPopped
  BY <1>1, <1>2, <1>3, <1>4, SrvPops
<1>6. /\ DOMAIN Srv' = {} /\ Req' = Req /\ Calls' = {} /\ DOMAIN Gui' = DOMAIN Gui
      /\ \A i \in DOMAIN Gui : /\ Gui'[i].op = Gui[i].op /\ Gui'[i].s = Gui[i].s
                               /\ Gui'[i].w = Gui[i].w
  BY <1>2, <1>5 DEF SrvPopped
<1>7. c \in Clients
  BY <1>1, <1>2 DEF Data, Names
<1>8. Gone = {} /\ Freed = {c} /\ Gone' = {} /\ Freed' = {}
  BY <1>2, <1>6, <1>7 DEF Gone, Freed
<1>9. /\ phase \in [Clients -> {"new", "listed", "going", "freed"}]
      /\ at \in [Clients -> Addrs \cup {None}] /\ hwndChat \in [Clients -> Wins \cup {None}]
  BY <1>1 DEF DataTypes
<1>. HIDE DEF c
<1>10. Going = {c}
  BY <1>1, <1>8 DEF Data, Names
<1>11. /\ Going' = {} /\ Listed' = Listed /\ Allocated' = Allocated \ {c}
       /\ c \notin Listed /\ Allocated = Listed \cup {c}
       /\ \A d \in Clients \ {c} : at'[d] = at[d]
  BY <1>3, <1>7, <1>9, <1>10 DEF Going, Listed, Allocated
<1>12. DataTypes'
  BY <1>1, <1>3, <1>9 DEF DataTypes
<1>13. Lists'
  BY <1>1, <1>3, <1>6 DEF Data, Lists
<1>14. Names'
  BY <1>1, <1>6, <1>8, <1>11 DEF Data, Names
<1>15. Records'
  <2>1. ASSUME NEW s \in Slots, recs[s].live PROVE Recorded(s)'
    <3>1. Recorded(s)
      BY <1>1, <2>1 DEF Data, Records
    <3>2. recs[s].c \notin Going
      BY <1>2, <1>8, <3>1 DEF Recorded, Leaving
    <3>3. recs[s].c \in Allocated \ {c} /\ recs[s].c \in Clients
      BY <1>10, <3>1, <3>2 DEF Recorded, Allocated
    <3>. QED BY <1>3, <1>6, <1>11, <3>1, <3>3 DEF Recorded
  <2>. QED BY <1>1, <1>3, <2>1 DEF Data, Records
<1>16. Counter'
  BY <1>1, <1>3, <1>8, <1>11 DEF Data, Counter
<1>17. Numbers'
  <2>1. Nums = {} /\ Nums' = {}
    BY <1>2, <1>6 DEF Nums
  <2>. QED BY <1>1, <1>3, <2>1 DEF Data, Numbers
<1>. QED BY <1>5, <1>12, <1>13, <1>14, <1>15, <1>16, <1>17 DEF IInv, Data, SrvPopped

\* rfbsDone lets every client go, after the GUI thread has ended.
LEMMA ServerEndsStep ==
  ASSUME IInv, ServerEnds
  PROVE  IInv'
<1>1. StackTypes /\ Nest /\ Data /\ DataTypes
  BY DEF IInv, Data
<1>2. Srv = <<>> /\ "srv" \in quit
  BY DEF ServerEnds, Idle, Srv
<1>3. /\ phase' = [c \in Clients |-> IF phase[c] = "listed" THEN "freed" ELSE phase[c]]
      /\ at' = [c \in Clients |-> None] /\ hwndChat' = [c \in Clients |-> None]
      /\ cClients' = 0 /\ viewer' = FALSE /\ down' = down \cup {"srv"} /\ quit' = quit
      /\ dlg' = dlg /\ recs' = recs /\ win' = win /\ shown' = shown /\ UNCHANGED threadVars
  BY DEF ServerEnds, guiVars
<1>4. StackTypes' /\ Nest' /\ Srv' = Srv /\ Gui' = Gui /\ Req' = Req /\ Calls' = Calls
  BY <1>1, <1>2, <1>3, StacksKept
<1>5. Gone = {} /\ Freed = {} /\ Going = {} /\ Calls = {}
  BY <1>1, <1>2, NobodyGoes
<1>6. Gone' = {} /\ Freed' = {}
  BY <1>2, <1>4 DEF Gone, Freed
<1>7. phase \in [Clients -> {"new", "listed", "going", "freed"}]
  BY <1>1 DEF DataTypes
<1>8. Going' = {} /\ Listed' = {}
  BY <1>3, <1>5, <1>7 DEF Going, Listed
<1>9. "gui" \in down
  BY <1>1, <1>2 DEF Nest, Ends
<1>10. DataTypes'
  <2>1. down' \subseteq quit' /\ quit' \subseteq Threads
    BY <1>1, <1>2, <1>3 DEF DataTypes
  <2>2. phase' \in [Clients -> {"new", "listed", "going", "freed"}]
    BY <1>3, <1>7
  <2>3. at' \in [Clients -> Addrs \cup {None}] /\ hwndChat' \in [Clients -> Wins \cup {None}]
    BY <1>3
  <2>4. cClients' \in Nat /\ viewer' \in BOOLEAN
    BY <1>3
  <2>. QED BY <1>1, <1>3, <2>1, <2>2, <2>3, <2>4 DEF DataTypes
<1>11. Lists'
  BY <1>1, <1>2, <1>3, <1>4 DEF Data, Lists
<1>12. Names'
  <2>1. \A i \in DOMAIN Srv' : FALSE
    BY <1>2, <1>4
  <2>. QED BY <1>1, <1>4, <1>5, <1>6, <1>8, <2>1 DEF Data, Names
<1>13. Records'
  <2>1. \A s \in Slots : ~recs[s].live
    BY <1>1, <1>9 DEF Data, Records, Recorded
  <2>. QED BY <1>3, <2>1 DEF Records
<1>14. Counter'
  <2>1. Listed' \cup Gone' = {}
    BY <1>6, <1>8
  <2>2. Cardinality(Listed' \cup Gone') = 0
    BY <2>1, FS_EmptySet
  <2>. QED BY <1>3, <2>2 DEF Counter
<1>15. Numbers'
  BY <1>3, <1>9 DEF Numbers
<1>. QED BY <1>4, <1>10, <1>11, <1>12, <1>13, <1>14, <1>15 DEF IInv, Data

-----------------------------------------------------------------------------
(* Steps of the GUI thread. *)

\* The frame on top, with what it says.
LEMMA GuiTop ==
  ASSUME IInv, NEW op \in Ops, At("gui", op)
  PROVE  /\ StackTypes /\ Nest /\ Data /\ DataTypes /\ Gui # <<>>
         /\ Top("gui") \in Frames /\ Top("gui").op = op /\ ~Top("gui").wait
         /\ Len(Gui) \in DOMAIN Gui /\ Top("gui") = Gui[Len(Gui)]
         /\ op \in Handlers => Top("gui") \in Calls /\ Named(Top("gui"))
<1>1. StackTypes /\ Nest /\ Data /\ DataTypes
  BY DEF IInv, Data
<1>2. /\ Len(Gui) \in DOMAIN Gui /\ Top("gui") = Gui[Len(Gui)] /\ Top("gui").op = op
      /\ Top("gui") \in Frames /\ ~Top("gui").wait /\ Gui # <<>>
  <2>1. "gui" \in Threads
    BY DEF Threads
  <2>. QED BY <1>1, <2>1, AtTop DEF Gui
<1>3. op \in Handlers => Top("gui") \in Calls
  BY <1>2 DEF Calls, ToSet
<1>. QED BY <1>1, <1>2, <1>3 DEF Data, Names

\* The end of a frame of the GUI thread that shows neither a number nor the list.
LEMMA GuiReturnKeeps ==
  ASSUME IInv, NEW op \in Ops, op \notin {"num", "listed"}, At("gui", op),
         NEW w \in Wins \cup {None}, Answer("gui", w) \/ Return("gui"), ChatOnly
  PROVE  IInv'
<1>. DEFINE t == Top("gui")
<1>1. /\ StackTypes /\ Nest /\ Data /\ Gui # <<>> /\ t \in Frames /\ t.op = op /\ ~t.wait
  BY GuiTop
<1>2. UNCHANGED endVars /\ UNCHANGED clientData /\ UNCHANGED listData /\ DataTypes' /\ down' = down
  BY DEF ChatOnly, endVars
<1>3. GuiPopped(t)
  <2>1. CASE Answer("gui", w)
    <3>. DEFINE k == t
    <3>1. k = Top("gui")
      OBVIOUS
    <3>2. k \in Frames /\ ~k.wait
      BY <1>1
    <3>. HIDE DEF k
    <3>3. GuiPopped(k)
      BY <1>1, <1>2, <2>1, <3>1, <3>2, GuiPops
    <3>. QED BY <3>3 DEF k
  <2>2. CASE Return("gui")
    BY <1>1, <1>2, <2>2, GuiReturns
  <2>. QED BY <2>1, <2>2
<1>4. Data'
  <2>. DEFINE k == t
  <2>1. k = Top("gui") /\ k \in Frames /\ GuiPopped(k) /\ k.op \notin {"num", "listed"}
    BY <1>1, <1>3
  <2>. HIDE DEF k
  <2>. QED BY <1>1, <1>2, <2>1, GuiPoppedStill
<1>. QED BY <1>3, <1>4 DEF IInv, GuiPopped

WinRecords == [a : Addrs \cup {None}, c : Clients \cup {0}, on : BOOLEAN, visible : BOOLEAN]

\* A step that changes nothing but chat windows.
LEMMA WinOnly ==
  ASSUME DataTypes, UNCHANGED <<clientVars, dlg, recs, shown, endVars>>, win' \in [Wins -> WinRecords]
  PROVE  ChatOnly
<1>1. /\ phase' = phase /\ at' = at /\ hwndChat' = hwndChat /\ cClients' = cClients
      /\ viewer' = viewer /\ dlg' = dlg /\ recs' = recs /\ shown' = shown
      /\ quit' = quit /\ down' = down
  BY DEF clientVars, endVars
<1>2. DataTypes'
  BY <1>1 DEF DataTypes, WinRecords
<1>. QED BY <1>1, <1>2 DEF ChatOnly, clientData, listData, endVars

\* A chat window is made, told and destroyed.
LEMMA ChatSteps ==
  ASSUME IInv, ChatOpen \/ ChatSystem \/ ChatClosed
  PROVE  IInv'
<1>0. {"chatopen", "system", "closing"} \subseteq Ops /\ None \in Wins \cup {None}
  BY DEF Ops
<1>1. DataTypes /\ win \in [Wins -> WinRecords]
  BY DEF IInv, Data, DataTypes, WinRecords
<1>2. UNCHANGED <<clientVars, dlg, recs, shown, endVars>>
  BY DEF ChatOpen, ChatSystem, ChatClosed
<1>a. Closed \in WinRecords
  BY DEF Closed, WinRecords
<1>3. CASE ChatOpen
  <2>. DEFINE f == Top("gui")
              room == {w \in Wins : win[w] = Closed}
  <2>0. At("gui", "chatopen") /\ "chatopen" \in Ops
    BY <1>0, <1>3 DEF ChatOpen
  <2>1. f \in Frames
    BY <2>0, GuiTop
  <2>2. CASE room = {}
    <3>1. Answer("gui", None) /\ win' = win
      BY <1>3, <2>2 DEF ChatOpen
    <3>2. ChatOnly
      BY <1>1, <1>2, <3>1, WinOnly
    <3>. QED BY <1>0, <2>0, <3>1, <3>2, GuiReturnKeeps
  <2>3. CASE room # {}
    <3>. DEFINE u == [a |-> f.a, c |-> f.c, on |-> TRUE, visible |-> FALSE]
    <3>1. PICK w \in room : win' = [win EXCEPT ![w] = u] /\ Answer("gui", w)
      BY <1>3, <2>3 DEF ChatOpen
    <3>2. w \in Wins
      OBVIOUS
    <3>3. u \in WinRecords
      BY <2>1 DEF Frames, WinRecords
    <3>. HIDE DEF u
    <3>4. win' \in [Wins -> WinRecords]
      BY <1>1, <3>1, <3>2, <3>3
    <3>5. ChatOnly
      BY <1>1, <1>2, <3>4, WinOnly
    <3>6. w \in Wins \cup {None} /\ Answer("gui", w)
      BY <3>1, <3>2
    <3>. QED BY <2>0, <3>5, <3>6, GuiReturnKeeps
  <2>. QED BY <2>2, <2>3
<1>4. CASE ChatSystem
  <2>. DEFINE f == Top("gui")
  <2>0. At("gui", "system") /\ "system" \in Ops /\ Return("gui")
    BY <1>0, <1>4 DEF ChatSystem
  <2>1. f \in Frames /\ f.w \in Wins
    <3>1. f \in Frames /\ f.op = "system" /\ Named(f)
      BY <2>0, GuiTop DEF Handlers
    <3>. QED BY <3>1 DEF Named
  <2>. DEFINE w == f.w
              on == f.on
              u == [win[w] EXCEPT !.on = on]
  <2>2. win' = IF win[w] = Closed THEN win ELSE [win EXCEPT ![w] = u]
    BY <1>4 DEF ChatSystem
  <2>3. on \in BOOLEAN /\ w \in Wins
    BY <2>1 DEF Frames
  <2>. HIDE DEF w, on
  <2>4. u \in WinRecords
    BY <1>1, <2>3 DEF WinRecords
  <2>. HIDE DEF u
  <2>5. win' \in [Wins -> WinRecords]
    BY <1>1, <2>2, <2>3, <2>4
  <2>6. ChatOnly
    BY <1>1, <1>2, <2>5, WinOnly
  <2>. QED BY <1>0, <2>0, <2>6, GuiReturnKeeps
<1>5. CASE ChatClosed
  <2>0. At("gui", "closing") /\ "closing" \in Ops /\ Return("gui")
    BY <1>0, <1>5 DEF ChatClosed
  <2>1. win' = [win EXCEPT ![Top("gui").w] = Closed]
    BY <1>5 DEF ChatClosed
  <2>2. win' \in [Wins -> WinRecords]
    BY <1>1, <1>a, <2>1
  <2>3. ChatOnly
    BY <1>1, <1>2, <2>2, WinOnly
  <2>. QED BY <1>0, <2>0, <2>3, GuiReturnKeeps
<1>. QED BY <1>3, <1>4, <1>5

\* A command has its answer.
LEMMA RefreshedStep ==
  ASSUME IInv, Refreshed
  PROVE  IInv'
<1>1. At("gui", "refreshed") /\ Return("gui") /\ "refreshed" \in Ops /\ None \in Wins \cup {None}
  BY DEF Refreshed, Ops
<1>2. DataTypes /\ UNCHANGED <<clientVars, guiVars, endVars>>
  BY DEF Refreshed, IInv, Data
<1>3. ChatOnly
  BY <1>2, Unchanged
<1>. QED BY <1>1, <1>3, GuiReturnKeeps

\* A thread takes what was sent to it.
LEMMA TakeSteps ==
  ASSUME IInv, NEW t \in Threads, Take(t)
  PROVE  IInv'
<1>1. StackTypes /\ Nest /\ Data /\ DataTypes
  BY DEF IInv, Data
<1>2. UNCHANGED <<clientVars, guiVars, endVars>>
  BY DEF Take
<1>3. ChatOnly
  BY <1>1, <1>2, Unchanged
<1>4. UNCHANGED clientData /\ UNCHANGED listData /\ DataTypes' /\ down' = down
  BY <1>3 DEF ChatOnly, endVars
<1>5. CASE t = "srv"
  <2>1. SrvTook
    BY <1>1, <1>5, SrvTakes
  <2>2. Data'
    BY <1>1, <1>4, <2>1, TookKeeps
  <2>. QED BY <2>1, <2>2 DEF IInv, SrvTook
<1>6. CASE t = "gui"
  <2>1. GuiTook
    BY <1>1, <1>6, GuiTakes
  <2>2. Data'
    BY <1>1, <1>4, <2>1, TookKeeps
  <2>. QED BY <2>1, <2>2 DEF IInv, GuiTook
<1>. QED BY <1>5, <1>6 DEF Threads

\* The loop of the GUI thread, or that of a message box, runs: no command waits.
LEMMA FreeRests ==
  ASSUME IInv, Free("gui")
  PROVE  Resting /\ "gui" \notin down
<1>1. StackTypes /\ Nest /\ Gui \in Seq(Frames) /\ "gui" \notin down
  BY Stacks DEF IInv, Free
<1>2. SUFFICES ASSUME NEW i \in DOMAIN Gui PROVE Gui[i].op = "box"
  BY <1>1 DEF Resting
<1>3. Gui # <<>>
  OBVIOUS
<1>4. Len(Gui) \in DOMAIN Gui /\ Last(Gui) = Gui[Len(Gui)] /\ DOMAIN Gui = 1 .. Len(Gui)
  BY <1>1, <1>3, FrontFacts, Stacks
<1>5. Top("gui") = Gui[Len(Gui)]
  BY <1>3, <1>4 DEF Top, Gui
<1>6. Gui[Len(Gui)].op # ""
  <2>1. Gui[Len(Gui)] \in Frames
    BY <1>1, <1>4
  <2>. QED BY <2>1 DEF Frames, Ops
<1>7. Gui[Len(Gui)].op = "box"
  BY <1>5, <1>6 DEF Free
<1>8. Len(Gui) = 1
  BY <1>1, <1>4, <1>7 DEF Nest, GuiPlaces, Commands, Handlers
<1>. QED BY <1>4, <1>7, <1>8

\* What a command of the GUI thread asks for.
Asking(f, m) ==
  /\ f.op \in Commands /\ f.back = 0 /\ (f.op = "closing" => f.w \in Wins)
  /\ m.op \in Orders /\ ~m.wait /\ m.rest = {}

\* A command begins and asks the main thread.
LEMMA GuiStartKeeps ==
  ASSUME IInv, Free("gui"), NEW f \in Frames, NEW m \in Frames, Asking(f, m), Start("gui", f, m),
         UNCHANGED <<clientVars, recs, win, shown, endVars>>,
         m.op = "listing" => dlg' # "none",
         dlg' = dlg \/ (dlg = "none" /\ dlg' = "creating" /\ f.op = "listed")
  PROVE  IInv'
<1>1. StackTypes /\ Nest /\ Data /\ DataTypes
  BY DEF IInv, Data
<1>2. /\ phase' = phase /\ at' = at /\ hwndChat' = hwndChat /\ cClients' = cClients
      /\ viewer' = viewer /\ recs' = recs /\ shown' = shown /\ win' = win
      /\ quit' = quit /\ down' = down /\ UNCHANGED endVars /\ UNCHANGED clientData
  BY DEF clientVars, endVars, clientData
<1>3. DataTypes'
  <2>1. dlg' \in {"none", "creating", "open"}
    BY <1>1 DEF DataTypes
  <2>. QED BY <1>1, <1>2, <2>1 DEF DataTypes
<1>4. Resting /\ "gui" \notin down
  BY FreeRests
<1>5. SendFrom("gui", Gui, f, m)
  BY DEF Start, Gui
<1>. DEFINE n == Len(Gui) + 1
            fs == Gui
<1>6. fs \in Seq(Frames) /\ n \in Nat \ {0} /\ Len(fs) = n - 1 /\ Boxes(fs, n) /\ SendFrom("gui", fs, f, m)
  <2>1. fs \in Seq(Frames) /\ DOMAIN fs = 1 .. Len(fs) /\ Len(fs) \in Nat
    BY <1>1, Stacks
  <2>2. n - 1 = Len(fs)
    BY <2>1
  <2>. QED BY <1>5, <2>1, <2>2 DEF Boxes
<1>7. /\ f.op \in Commands /\ f.back = 0 /\ (f.op = "closing" => f.w \in Wins)
      /\ m.op \in Orders /\ ~m.wait /\ m.rest = {}
  BY DEF Asking
<1>8. down \subseteq quit
  BY <1>1 DEF DataTypes
<1>. HIDE DEF fs, n
<1>9. GuiSent(f, m)
  BY <1>1, <1>2, <1>4, <1>6, <1>7, <1>8, GuiSends
<1>10. Data'
  BY <1>1, <1>2, <1>3, <1>4, <1>7, <1>9, GuiSentKeeps
<1>. QED BY <1>9, <1>10 DEF IInv, GuiSent

\* A thread without a handler is in its loop.
LEMMA IdleFree ==
  ASSUME NEW t \in Threads, Idle(t)
  PROVE  Free(t)
BY DEF Idle, Free, Top, Blank

\* The message that asks for a chat.
LEMMA AskTyped ==
  ASSUME DataTypes, NEW s \in Slots, NEW c \in Clients \cup {0}
  PROVE  Ask(s, c) \in Frames /\ Ask(s, c).op = "ask" /\ ~Ask(s, c).wait /\ Ask(s, c).rest = {}
<1>. DEFINE a == recs[s].a
            f == [Blank EXCEPT !.op = "ask", !.a = a, !.c = c]
<1>1. a \in Addrs \cup {None} /\ 0 \in 0 .. MaxClients
  BY BoundsAssumption DEF DataTypes
<1>2. Ask(s, c) = f
  BY DEF Ask
<1>. HIDE DEF a
<1>3. f \in Frames /\ f.op = "ask" /\ ~f.wait /\ f.rest = {}
  BY <1>1 DEF Frames, Blank, Ops
<1>. HIDE DEF f
<1>. QED BY <1>2, <1>3

Closes(w)      == [Blank EXCEPT !.op = "closing", !.w = w]
Forgets(a, c)  == [Blank EXCEPT !.op = "chatwindow", !.a = a, !.c = c]
Asks(s, c)     == [Blank EXCEPT !.op = "box", !.s = s, !.c = c]

\* The frame and the message of a chat window that is closed.
LEMMA ClosingTyped ==
  ASSUME DataTypes, NEW w \in Wins
  PROVE  /\ Closes(w) \in Frames /\ Closes(w).op = "closing" /\ Closes(w).back = 0 /\ Closes(w).w = w
         /\ \A m : m = Forgets(win[w].a, win[w].c) =>
              m \in Frames /\ m.op = "chatwindow" /\ ~m.wait /\ m.rest = {}
<1>. DEFINE a == win[w].a
            c == win[w].c
            f == Closes(w)
            g == Forgets(a, c)
<1>1. a \in Addrs \cup {None} /\ c \in Clients \cup {0} /\ 0 \in 0 .. MaxClients
  BY BoundsAssumption DEF DataTypes
<1>2. f \in Frames /\ f.op = "closing" /\ f.back = 0 /\ f.w = w
  BY <1>1 DEF Frames, Blank, Ops, Closes
<1>. HIDE DEF a, c, f
<1>3. g \in Frames /\ g.op = "chatwindow" /\ ~g.wait /\ g.rest = {}
  BY <1>1 DEF Frames, Blank, Ops, Forgets
<1>. HIDE DEF g
<1>. QED BY <1>2, <1>3 DEF a, c, f, g

\* The commands that ask the main thread for something.
LEMMA CommandSteps ==
  ASSUME IInv, OpenList \/ Timer \/ SendSocket \/ CloseChat
  PROVE  IInv'
<1>0. {"listing", "listed", "refreshed", "attach"} \subseteq Ops /\ "gui" \in Threads
  BY DEF Ops, Threads
<1>1. DataTypes
  BY DEF IInv, Data
<1>2. ASSUME NEW op \in {"listing", "attach"}, NEW next \in {"listed", "refreshed"},
             Free("gui"), Sent(op, next), op = "listing" => dlg' # "none",
             dlg' = dlg \/ (dlg = "none" /\ dlg' = "creating" /\ next = "listed")
      PROVE  IInv'
  <2>. DEFINE f == F(next, 0)
              m == F(op, 0)
  <2>1. op \in Ops /\ next \in Ops
    BY <1>0
  <2>2. f \in Frames /\ f.op = next /\ f.back = 0
    BY <2>1, PlainFrame
  <2>3. m \in Frames /\ m.op = op /\ ~m.wait /\ m.rest = {}
    BY <2>1, PlainFrame
  <2>4. Start("gui", f, m) /\ UNCHANGED <<clientVars, recs, win, shown, endVars>>
    BY <1>2 DEF Sent
  <2>. HIDE DEF f, m
  <2>5. Asking(f, m)
    BY <2>2, <2>3 DEF Asking, Commands, Orders, Requests
  <2>. QED BY <1>2, <2>2, <2>3, <2>4, <2>5, GuiStartKeeps
<1>3. CASE OpenList
  <2>1. Idle("gui") /\ dlg = "none" /\ dlg' = "creating" /\ Sent("listing", "listed")
    BY <1>3 DEF OpenList
  <2>2. Free("gui")
    BY <1>0, <2>1, IdleFree
  <2>. QED BY <1>2, <2>1, <2>2
<1>4. CASE Timer
  <2>1. Free("gui") /\ dlg = "open" /\ dlg' = dlg /\ Sent("listing", "refreshed")
    BY <1>4 DEF Timer
  <2>. QED BY <1>2, <2>1
<1>5. CASE SendSocket
  <2>1. Free("gui") /\ dlg' = dlg /\ Sent("attach", "refreshed")
    BY <1>5 DEF SendSocket
  <2>. QED BY <1>2, <2>1
<1>6. CASE CloseChat
  <2>1. PICK w \in Wins :
          Start("gui", [Blank EXCEPT !.op = "closing", !.w = w],
                [Blank EXCEPT !.op = "chatwindow", !.a = win[w].a, !.c = win[w].c])
    BY <1>6 DEF CloseChat
  <2>2. Free("gui") /\ UNCHANGED <<clientVars, recs, win, shown, endVars>> /\ dlg' = dlg
    BY <1>6 DEF CloseChat, guiVars
  <2>. DEFINE f == Closes(w)
              m == Forgets(win[w].a, win[w].c)
  <2>3. f \in Frames /\ f.op = "closing" /\ f.back = 0 /\ f.w = w
    BY <1>1, ClosingTyped
  <2>4. m \in Frames /\ m.op = "chatwindow" /\ ~m.wait /\ m.rest = {}
    BY <1>1, ClosingTyped
  <2>5. Start("gui", f, m)
    BY <2>1 DEF Closes, Forgets
  <2>. HIDE DEF f, m
  <2>6. Asking(f, m) /\ m.op # "listing"
    BY <2>3, <2>4 DEF Asking, Commands, Orders, Requests
  <2>. QED BY <2>2, <2>3, <2>4, <2>5, <2>6, GuiStartKeeps
<1>. QED BY <1>3, <1>4, <1>5, <1>6

\* The frame of a message box.
LEMMA BoxTyped ==
  ASSUME NEW s \in Slots, NEW c \in Clients \cup {0}
  PROVE  /\ Asks(s, c) \in Frames /\ Asks(s, c).op = "box" /\ Asks(s, c).s = s
         /\ Asks(s, c).back = 0 /\ ~Asks(s, c).wait
<1>. DEFINE f == Asks(s, c)
<1>1. 0 \in 0 .. MaxClients
  BY BoundsAssumption
<1>2. f \in Frames /\ f.op = "box" /\ f.s = s /\ f.back = 0 /\ ~f.wait
  BY <1>1 DEF Frames, Blank, Ops, Asks
<1>. HIDE DEF f
<1>. QED BY <1>2 DEF f

\* The chat command, with the message box or without.
LEMMA CmdChatStep ==
  ASSUME IInv, CmdChat
  PROVE  IInv'
<1>0. "refreshed" \in Ops /\ "gui" \in Threads
  BY DEF Ops, Threads
<1>1. StackTypes /\ Nest /\ Data /\ DataTypes
  BY DEF IInv, Data
<1>2. PICK s \in Slots :
        \/ Start("gui", F("refreshed", 0), Ask(s, recs[s].c))
        \/ /\ stack' = [stack EXCEPT !["gui"] = <<[Blank EXCEPT !.op = "box", !.s = s, !.c = recs[s].c]>>]
           /\ UNCHANGED inbox
  BY DEF CmdChat
<1>3. Idle("gui") /\ Free("gui") /\ UNCHANGED <<clientVars, guiVars, endVars>>
  BY <1>0, IdleFree DEF CmdChat
<1>4. UNCHANGED <<clientVars, recs, win, shown, endVars>> /\ dlg' = dlg /\ UNCHANGED endVars
  BY <1>3 DEF guiVars
<1>5. recs[s].c \in Clients \cup {0}
  BY <1>1 DEF DataTypes
<1>6. CASE Start("gui", F("refreshed", 0), Ask(s, recs[s].c))
  <2>. DEFINE f == F("refreshed", 0)
              m == Ask(s, recs[s].c)
  <2>1. f \in Frames /\ f.op = "refreshed" /\ f.back = 0
    BY <1>0, PlainFrame
  <2>2. m \in Frames /\ m.op = "ask" /\ ~m.wait /\ m.rest = {}
    BY <1>1, <1>5, AskTyped
  <2>3. Start("gui", f, m)
    BY <1>6
  <2>. HIDE DEF f, m
  <2>4. Asking(f, m) /\ m.op # "listing"
    BY <2>1, <2>2 DEF Asking, Commands, Orders, Requests
  <2>. QED BY <1>3, <1>4, <2>1, <2>2, <2>3, <2>4, GuiStartKeeps
<1>7. CASE /\ stack' = [stack EXCEPT !["gui"] = <<[Blank EXCEPT !.op = "box", !.s = s, !.c = recs[s].c]>>]
           /\ UNCHANGED inbox
  <2>. DEFINE f == Asks(s, recs[s].c)
  <2>1. f \in Frames /\ f.op = "box" /\ f.s = s /\ f.back = 0 /\ ~f.wait
    BY <1>5, BoxTyped
  <2>2. stack' = [stack EXCEPT !["gui"] = <<f>>] /\ inbox' = inbox
    BY <1>7 DEF Asks
  <2>. HIDE DEF f
  <2>3. GuiBoxed(f)
    BY <1>1, <1>3, <1>4, <2>1, <2>2, GuiBoxes
  <2>4. ChatOnly
    BY <1>1, <1>3, Unchanged
  <2>5. UNCHANGED clientData /\ UNCHANGED listData /\ DataTypes' /\ down' = down
    BY <2>4 DEF ChatOnly, endVars
  <2>6. Data'
    <3>1. \E g \in Frames : GuiBoxed(g) /\ g.op = "box" /\ g.s \in Slots
      BY <2>1, <2>3
    <3>. QED BY <1>1, <2>5, <3>1, TookKeeps
  <2>. QED BY <2>3, <2>6 DEF IInv, GuiBoxed
<1>. QED BY <1>2, <1>6, <1>7

\* The message box is answered.
LEMMA BoxAnsweredStep ==
  ASSUME IInv, BoxAnswered
  PROVE  IInv'
<1>. DEFINE t == Top("gui")
<1>0. "box" \in Ops /\ "refreshed" \in Ops /\ None \in Wins \cup {None}
  BY DEF Ops
<1>1. At("gui", "box") /\ UNCHANGED <<clientVars, guiVars, endVars>>
  BY DEF BoxAnswered
<1>2. /\ StackTypes /\ Nest /\ Data /\ DataTypes /\ Gui # <<>>
      /\ t \in Frames /\ t.op = "box" /\ ~t.wait
      /\ Len(Gui) \in DOMAIN Gui /\ t = Gui[Len(Gui)]
  BY <1>0, <1>1, GuiTop
<1>3. ChatOnly
  BY <1>1, <1>2, Unchanged
<1>4. CASE Return("gui")
  BY <1>0, <1>1, <1>3, <1>4, GuiReturnKeeps
<1>5. CASE Send("gui", F("refreshed", 0), Ask(t.s, t.c))
  <2>. DEFINE h == F("refreshed", 0)
              f == Addressed(h, 0)
              m == Ask(t.s, t.c)
              fs == Front(Gui)
              n == 1
  <2>1. t.s \in Slots /\ t.c \in Clients \cup {0}
    BY <1>2 DEF Data, Names, Frames
  <2>2. t.back = 0 /\ Len(Gui) = 1
    BY <1>2 DEF Nest, GuiPlaces, Commands, Handlers
  <2>3. h \in Frames /\ h.op = "refreshed"
    BY <1>0, PlainFrame
  <2>4. m \in Frames /\ m.op = "ask" /\ ~m.wait /\ m.rest = {}
    BY <1>2, <2>1, AskTyped
  <2>5. SendFrom("gui", fs, f, m)
    BY <1>5, <2>2 DEF Send, Gui, Addressed
  <2>6. /\ fs \in Seq(Frames) /\ Len(fs) = n - 1 /\ n \in Nat \ {0}
    <3>1. Gui \in Seq(Frames)
      BY <1>2, Stacks
    <3>2. fs \in Seq(Frames) /\ Len(fs) = Len(Gui) - 1
      BY <1>2, <3>1, FrontFacts
    <3>. QED BY <2>2, <3>2
  <2>7. Boxes(fs, n)
    BY DEF Boxes
  <2>8. Resting /\ "gui" \notin down
    <3>1. DOMAIN Gui = {1}
      <4>1. DOMAIN Gui = 1 .. Len(Gui)
        BY <1>2, Stacks
      <4>. QED BY <2>2, <4>1
    <3>2. Gui[1].op = "box"
      BY <1>2, <2>2
    <3>. QED BY <1>2, <3>1, <3>2 DEF Resting, Nest, Ends
  <2>. HIDE DEF h, m, fs, n
  <2>9. f \in Frames /\ f.op = "refreshed" /\ f.back = 0
    <3>1. 0 \in Nat
      OBVIOUS
    <3>. QED BY <2>3, <3>1, AddressedKept
  <2>. HIDE DEF f
  <2>10. f.op \in Commands /\ m.op \in Orders /\ f.op # "closing" /\ m.op # "listing"
    BY <2>4, <2>9 DEF Commands, Orders, Requests
  <2>11. /\ UNCHANGED endVars /\ UNCHANGED clientData /\ DataTypes' /\ down' = down
         /\ recs' = recs /\ shown' = shown /\ dlg' = dlg
    BY <1>3 DEF ChatOnly, endVars, listData
  <2>12. down \subseteq quit
    BY <1>2 DEF DataTypes
  <2>13. GuiSent(f, m)
    BY <1>2, <2>4, <2>5, <2>6, <2>7, <2>8, <2>9, <2>10, <2>11, <2>12, GuiSends
  <2>14. Data'
    BY <1>2, <2>4, <2>8, <2>9, <2>10, <2>11, <2>13, GuiSentKeeps
  <2>. QED BY <2>13, <2>14 DEF IInv, GuiSent
<1>. QED BY <1>4, <1>5 DEF BoxAnswered

\* The list window is shown and the GUI window gets to know it.
LEMMA ListShownStep ==
  ASSUME IInv, ListShown
  PROVE  IInv'
<1>. DEFINE t == Top("gui")
<1>0. "listed" \in Ops
  BY DEF Ops
<1>1. /\ At("gui", "listed") /\ Return("gui") /\ dlg' = "open"
      /\ phase' = phase /\ at' = at /\ hwndChat' = hwndChat /\ cClients' = cClients
      /\ viewer' = viewer /\ recs' = recs /\ shown' = shown /\ win' = win
      /\ quit' = quit /\ down' = down /\ UNCHANGED endVars /\ UNCHANGED clientData
  BY DEF ListShown, clientVars, endVars, clientData
<1>2. /\ StackTypes /\ Nest /\ Data /\ DataTypes /\ Gui # <<>>
      /\ t \in Frames /\ t.op = "listed" /\ ~t.wait
  BY <1>0, <1>1, GuiTop
<1>3. GuiPopped(t)
  BY <1>1, <1>2, GuiReturns
<1>. DEFINE k == t
<1>4. k = Top("gui") /\ k \in Frames /\ GuiPopped(k) /\ k.op = "listed"
  BY <1>2, <1>3
<1>. HIDE DEF k
<1>5. Gone' = Gone /\ Freed' = Freed /\ Nums' = Nums \ {k} /\ Names' /\ Lists'
  BY <1>1, <1>2, <1>4, GuiPoppedKeeps
<1>6. Nums' = Nums /\ Calls' = Calls /\ Req' = Req
  <2>1. k \notin Nums /\ k \notin Calls
    BY <1>2, <1>4 DEF Nums, Nest, Calling, Handlers
  <2>. QED BY <1>4, <1>5, <2>1 DEF GuiPopped
<1>7. DataTypes'
  BY <1>1, <1>2 DEF DataTypes
<1>8. Listed' = Listed /\ Going' = Going /\ Allocated' = Allocated
  BY <1>1 DEF Listed, Going, Allocated
<1>9. Records'
  <2>1. ASSUME NEW s \in Slots, recs[s].live PROVE Recorded(s)'
    <3>1. Recorded(s)
      BY <1>2, <2>1 DEF Data, Records
    <3>2. Leaving(recs[s].c)' = Leaving(recs[s].c)
      BY <1>1, <1>5, <1>6 DEF Leaving
    <3>. QED BY <1>1, <1>8, <3>1, <3>2 DEF Recorded
  <2>. QED BY <1>1, <1>2, <2>1 DEF Data, Records
<1>10. Counter'
  BY <1>1, <1>2, <1>5, <1>8 DEF Data, Counter
<1>11. Numbers'
  BY <1>1, <1>2, <1>6 DEF Data, Numbers, Before
<1>. QED BY <1>3, <1>5, <1>7, <1>9, <1>10, <1>11 DEF IInv, Data, GuiPopped

SlotRecords == [live : BOOLEAN, a : Addrs \cup {None}, c : Clients \cup {0}]

\* A record is added for a client in the list.
LEMMA RecordAdded ==
  ASSUME Data, NEW c \in Listed, AddRecord(at[c], c),
         UNCHANGED clientData, dlg' = dlg, dlg # "none", down' = down, "gui" \notin down, Gone' = Gone,
         {m \in Calls' : m.op = "num" /\ ~m.on} = {m \in Calls : m.op = "num" /\ ~m.on},
         ~At("gui", "listed"), dlg = "creating" => Req' = <<>>
  PROVE  Records' /\ recs' \in [Slots -> SlotRecords]
<1>. DEFINE a == at[c]
            r == [live |-> TRUE, a |-> a, c |-> c]
<1>0. /\ phase' = phase /\ at' = at /\ Listed' = Listed /\ Going' = Going /\ Allocated' = Allocated
  BY DEF clientData, Listed, Going, Allocated
<1>1. /\ recs \in [Slots -> SlotRecords] /\ c \in Clients /\ a \in Addrs \cup {None}
      /\ phase[c] = "listed"
  BY DEF Data, DataTypes, SlotRecords, Listed
<1>2. ASSUME NEW d, Leaving(d) PROVE Leaving(d)'
  <2>1. CASE d \in Gone
    BY <2>1 DEF Leaving
  <2>2. CASE d \notin Gone
    <3>1. PICK m \in Calls : m.op = "num" /\ ~m.on /\ m.c = d
      BY <1>2, <2>2 DEF Leaving
    <3>2. m \in {k \in Calls' : k.op = "num" /\ ~k.on}
      BY <3>1
    <3>3. m \in Calls'
      BY <3>2
    <3>. QED BY <3>1, <3>3 DEF Leaving
  <2>. QED BY <2>1, <2>2
<1>3. ASSUME NEW s \in Slots, recs[s].live, recs'[s] = recs[s] PROVE Recorded(s)'
  <2>1. Recorded(s)
    BY <1>3 DEF Data, Records
  <2>2. recs[s].c \in Going => dlg = "open" /\ Leaving(recs[s].c)
    BY <2>1 DEF Recorded
  <2>3. PICK d : d = recs[s].c
    OBVIOUS
  <2>4. d \in Going => Leaving(d)'
    BY <1>2, <2>2, <2>3
  <2>5. recs'[s].c = d
    BY <1>3, <2>3
  <2>. QED BY <1>0, <1>3, <2>1, <2>2, <2>3, <2>4, <2>5 DEF Recorded, Leaving
<1>4. \A s, q \in Slots : recs[s].live /\ recs[q].live /\ recs[s].a = recs[q].a => s = q
  BY DEF Data, Records
<1>5. CASE recs' = recs
  BY <1>1, <1>3, <1>4, <1>5 DEF Records
<1>6. CASE RecordsOf(a) = {} /\ \E s \in Slots : ~recs[s].live /\ recs' = [recs EXCEPT ![s] = r]
  <2>1. PICK s \in Slots : ~recs[s].live /\ recs' = [recs EXCEPT ![s] = r]
    BY <1>6
  <2>2. \A q \in Slots : recs[q].live => recs[q].a # a
    BY <1>6 DEF RecordsOf
  <2>3. r \in SlotRecords /\ r.live /\ r.a = a /\ r.c = c
    BY <1>1 DEF SlotRecords
  <2>. HIDE DEF r, a
  <2>4. recs' \in [Slots -> SlotRecords]
    BY <1>1, <2>1, <2>3
  <2>5. recs'[s] = r /\ \A q \in Slots : q # s => recs'[q] = recs[q]
    BY <1>1, <2>1
  <2>6. Recorded(s)'
    <3>1. c \in Allocated /\ c \notin Going
      BY <1>1 DEF Allocated, Going
    <3>2. at[c] = a
      BY DEF a
    <3>3. recs'[s].c = c /\ recs'[s].a = a
      BY <2>3, <2>5
    <3>. QED BY <1>0, <3>1, <3>2, <3>3 DEF Recorded
  <2>7. ASSUME NEW q \in Slots, recs'[q].live PROVE Recorded(q)'
    <3>1. CASE q = s
      BY <2>6, <3>1
    <3>2. CASE q # s
      BY <1>3, <2>5, <2>7, <3>2
    <3>. QED BY <3>1, <3>2
  <2>8. ASSUME NEW q \in Slots, NEW u \in Slots, recs'[q].live, recs'[u].live, recs'[q].a = recs'[u].a
        PROVE  q = u
    <3>1. CASE q = s \/ u = s
      BY <2>2, <2>3, <2>5, <2>8, <3>1
    <3>2. CASE q # s /\ u # s
      BY <1>4, <2>5, <2>8, <3>2
    <3>. QED BY <3>1, <3>2
  <2>. QED BY <2>4, <2>7, <2>8 DEF Records
<1>. QED BY <1>5, <1>6 DEF AddRecord

\* The list window gets a record of a client that is listed to it.
LEMMA ListClientStep ==
  ASSUME IInv, ListClient
  PROVE  IInv'
<1>. DEFINE t == Top("gui")
<1>0. "listclient" \in Ops /\ "listclient" \in Handlers
  BY DEF Ops, Handlers
<1>1. /\ At("gui", "listclient") /\ Return("gui") /\ AddRecord(t.a, t.c) /\ dlg' = dlg
      /\ phase' = phase /\ at' = at /\ hwndChat' = hwndChat /\ cClients' = cClients
      /\ viewer' = viewer /\ shown' = shown /\ win' = win
      /\ quit' = quit /\ down' = down /\ UNCHANGED endVars /\ UNCHANGED clientData
  BY DEF ListClient, clientVars, endVars, clientData
<1>2. /\ StackTypes /\ Nest /\ Data /\ DataTypes /\ Gui # <<>>
      /\ t \in Frames /\ t.op = "listclient" /\ ~t.wait /\ t \in Calls /\ Named(t)
  BY <1>0, <1>1, GuiTop
<1>3. GuiPopped(t)
  BY <1>1, <1>2, GuiReturns
<1>4. /\ t.c \in Listed /\ t.a = at[t.c] /\ t.back \in DOMAIN Srv /\ Srv[t.back].op = "list"
  <2>1. t.back \in DOMAIN Srv
    BY <1>2 DEF Nest, Calling
  <2>. QED BY <1>2, <2>1 DEF Named, Listed
<1>5. dlg # "none"
  BY <1>2, <1>4 DEF Data, Lists
<1>6. Req = <<>>
  <2>1. Srv[t.back].back # 0
    BY <1>2, <1>4 DEF Nest, SrvPlaces, Own
  <2>. QED BY <1>2, <1>4, <2>1 DEF Nest, Pending
<1>7. "gui" \notin down
  BY <1>2 DEF Nest, Ends
<1>. DEFINE k == t
            c == t.c
<1>8. k = Top("gui") /\ k \in Frames /\ GuiPopped(k) /\ k.op = "listclient"
  BY <1>2, <1>3
<1>9. c \in Listed /\ AddRecord(at[c], c)
  BY <1>1, <1>4
<1>10. ~At("gui", "listed")
  BY <1>2 DEF At
<1>. HIDE DEF k, c
<1>11. Gone' = Gone /\ Freed' = Freed /\ Nums' = Nums \ {k} /\ Names' /\ Lists'
  BY <1>1, <1>2, <1>8, GuiPoppedKeeps
<1>12. Calls' = Calls \ {k} /\ Req' = Req
  BY <1>8 DEF GuiPopped
<1>13. {m \in Calls' : m.op = "num" /\ ~m.on} = {m \in Calls : m.op = "num" /\ ~m.on}
  BY <1>8, <1>12
<1>14. Nums' = Nums
  BY <1>8, <1>11 DEF Nums
<1>15. Records' /\ recs' \in [Slots -> SlotRecords]
  BY <1>1, <1>2, <1>5, <1>6, <1>7, <1>9, <1>10, <1>11, <1>12, <1>13, RecordAdded
<1>16. DataTypes'
  BY <1>1, <1>2, <1>15 DEF DataTypes, SlotRecords
<1>17. Counter'
  <2>1. Listed' = Listed
    BY <1>1 DEF Listed
  <2>. QED BY <1>1, <1>2, <1>11, <2>1 DEF Data, Counter
<1>18. Numbers'
  BY <1>1, <1>2, <1>14 DEF Data, Numbers, Before
<1>. QED BY <1>3, <1>11, <1>15, <1>16, <1>17, <1>18 DEF IInv, Data, GuiPopped

\* The records of address a are removed: those of client c and of no other.
LEMMA RecordRemoved ==
  ASSUME Data, NEW c \in Clients, RemoveRecord(at[c]), UNCHANGED clientData, dlg' = dlg,
         dlg = "open", down' = down, "gui" \notin down, Gone' = Gone,
         {m \in Calls : m.op = "num" /\ ~m.on /\ m.c # c} \subseteq Calls'
  PROVE  Records' /\ recs' \in [Slots -> SlotRecords]
<1>. DEFINE a == at[c]
<1>0. /\ phase' = phase /\ at' = at /\ Listed' = Listed /\ Going' = Going /\ Allocated' = Allocated
  BY DEF clientData, Listed, Going, Allocated
<1>1. recs \in [Slots -> SlotRecords] /\ NoRecord \in SlotRecords
  BY DEF Data, DataTypes, SlotRecords, NoRecord
<1>2. ASSUME NEW s \in Slots
      PROVE  /\ recs'[s] \in SlotRecords
             /\ recs'[s].live => recs'[s] = recs[s] /\ recs[s].live /\ recs[s].a # a
  <2>. DEFINE r == recs[s]
              u == [r EXCEPT !.live = FALSE]
  <2>1. recs'[s] = IF s \notin RecordsOf(a) THEN r ELSE IF s \in Boxed THEN u ELSE NoRecord
    BY DEF RemoveRecord
  <2>2. r \in SlotRecords
    BY <1>1
  <2>3. s \notin RecordsOf(a) => ~r.live \/ r.a # a
    BY DEF RecordsOf
  <2>4. ~NoRecord.live
    BY DEF NoRecord
  <2>. HIDE DEF r, a
  <2>5. u \in SlotRecords /\ ~u.live
    BY <2>2 DEF SlotRecords
  <2>. HIDE DEF u
  <2>6. /\ recs'[s] \in SlotRecords
        /\ recs'[s].live => recs'[s] = r /\ r.live /\ r.a # a
    BY <1>1, <2>1, <2>2, <2>3, <2>4, <2>5
  <2>. QED BY <2>6 DEF r
<1>3. recs' \in [Slots -> SlotRecords]
  <2>1. recs' = [s \in Slots |-> recs'[s]]
    BY DEF RemoveRecord
  <2>. QED BY <1>2, <2>1
<1>4. ASSUME NEW s \in Slots, recs'[s].live PROVE Recorded(s)'
  <2>1. recs'[s] = recs[s] /\ recs[s].live /\ recs[s].a # a
    BY <1>2, <1>4
  <2>2. Recorded(s)
    BY <2>1 DEF Data, Records
  <2>3. PICK d : d = recs[s].c
    OBVIOUS
  <2>4. d # c
    BY <2>1, <2>2, <2>3 DEF Recorded
  <2>5. d \in Going => Leaving(d)
    BY <2>2, <2>3 DEF Recorded
  <2>6. d \in Going => d \in Gone' \/ \E m \in Calls' : m.op = "num" /\ ~m.on /\ m.c = d
    <3>1. ASSUME d \in Going, d \notin Gone
          PROVE  \E m \in Calls' : m.op = "num" /\ ~m.on /\ m.c = d
      <4>1. PICK m \in Calls : m.op = "num" /\ ~m.on /\ m.c = d
        BY <2>5, <3>1 DEF Leaving
      <4>2. m \in {k \in Calls : k.op = "num" /\ ~k.on /\ k.c # c}
        BY <2>4, <4>1
      <4>3. m \in Calls'
        BY <4>2
      <4>. QED BY <4>1, <4>3
    <3>. QED BY <3>1
  <2>7. recs'[s].c = d /\ recs'[s].a = recs[s].a
    BY <2>1, <2>3
  <2>. QED BY <1>0, <2>2, <2>3, <2>6, <2>7 DEF Recorded, Leaving
<1>5. ASSUME NEW s \in Slots, NEW r \in Slots, recs'[s].live, recs'[r].live, recs'[s].a = recs'[r].a
      PROVE  s = r
  BY <1>2, <1>5 DEF Data, Records
<1>. QED BY <1>3, <1>4, <1>5 DEF Records

\* The earliest number has been shown.
LEMMA NumberShown ==
  ASSUME Numbers, "gui" \notin down, down' = down, cClients' = cClients,
         NEW t \in Nums, Nums' = Nums \ {t}, \A m \in Nums' : t.back < m.back,
         t.back \in Nat, \A m \in Nums : m.back \in Nat,
         shown' = [n |-> t.n, online |-> IF t.on /\ t.n = 1 THEN TRUE
                                         ELSE IF ~t.on /\ t.n = 0 THEN FALSE
                                         ELSE shown.online],
         t.n \in Nat, t.on \in BOOLEAN, shown.n \in Nat
  PROVE  Numbers'
<1>1. /\ shown.online = (shown.n # 0)
      /\ \A m \in Nums :
           /\ m.on => m.n # 0
           /\ (\A k \in Nums : m.back <= k.back) => Before(m) = shown.n
           /\ (\A k \in Nums : k.back <= m.back) => m.n = cClients
           /\ \A k \in Nums : k.back < m.back => Before(m) = k.n
  BY DEF Numbers
<1>2. \A k \in Nums : k = t \/ t.back < k.back
  OBVIOUS
<1>3. \A k \in Nums : t.back <= k.back
  BY <1>2
<1>4. Before(t) = shown.n /\ (t.on => t.n # 0)
  BY <1>1, <1>3
<1>5. IF t.on THEN shown.n = t.n - 1 ELSE shown.n = t.n + 1
  BY <1>4 DEF Before
<1>. DEFINE o == IF t.on /\ t.n = 1 THEN TRUE ELSE IF ~t.on /\ t.n = 0 THEN FALSE ELSE shown.online
<1>a. shown'.n = t.n /\ shown'.online = o
  OBVIOUS
<1>b. o = (t.n # 0)
  <2>1. CASE t.on
    <3>1. CASE t.n = 1
      <4>1. o = TRUE
        BY <2>1, <3>1
      <4>2. t.n # 0
        BY <3>1
      <4>. QED BY <4>1, <4>2
    <3>2. CASE t.n # 1
      <4>1. t.n # 0 /\ shown.n # 0
        BY <1>4, <1>5, <2>1, <3>2
      <4>2. o = shown.online
        BY <2>1, <3>2
      <4>. QED BY <1>1, <4>1, <4>2, Zenon
    <3>. QED BY <3>1, <3>2
  <2>2. CASE ~t.on
    <3>1. CASE t.n = 0
      <4>1. o = FALSE
        BY <2>2, <3>1
      <4>. QED BY <3>1, <4>1
    <3>2. CASE t.n # 0
      <4>1. shown.n # 0
        BY <1>5, <2>2, <3>2
      <4>2. o = shown.online
        BY <2>2, <3>2
      <4>. QED BY <1>1, <3>2, <4>1, <4>2, Zenon
    <3>. QED BY <3>1, <3>2
  <2>. QED BY <2>1, <2>2
<1>. HIDE DEF o
<1>6. shown'.n = t.n /\ shown'.online = (t.n # 0)
  BY <1>a, <1>b, Zenon
<1>7. Nums' = {} => t.n = cClients
  <2>1. Nums' = {} => \A k \in Nums : k.back <= t.back
    BY <1>2
  <2>. QED BY <1>1, <2>1
<1>8. ASSUME NEW m \in Nums'
      PROVE  /\ m.on => m.n # 0
             /\ (\A k \in Nums' : m.back <= k.back) => Before(m) = t.n
             /\ (\A k \in Nums' : k.back <= m.back) => m.n = cClients
             /\ \A k \in Nums' : k.back < m.back => Before(m) = k.n
  <2>1. m \in Nums /\ t.back < m.back
    OBVIOUS
  <2>2. Before(m) = t.n
    BY <1>1, <2>1
  <2>3. (\A k \in Nums' : k.back <= m.back) => \A k \in Nums : k.back <= m.back
    BY <2>1
  <2>. QED BY <1>1, <2>1, <2>2, <2>3
<1>9. \A m : Before(m)' = Before(m)
  BY DEF Before
<1>. QED BY <1>6, <1>7, <1>8, <1>9 DEF Numbers, Before

\* A number is shown and the list window told.
LEMMA GuiNumChangedStep ==
  ASSUME IInv, GuiNumChanged
  PROVE  IInv'
<1>. DEFINE t == Top("gui")
<1>0. "num" \in Ops /\ "num" \in Handlers
  BY DEF Ops, Handlers
<1>1. /\ At("gui", "num") /\ Return("gui") /\ dlg' = dlg
      /\ IF dlg # "open" THEN recs' = recs
         ELSE IF t.on THEN AddRecord(t.a, t.c) ELSE RemoveRecord(t.a)
      /\ shown' = [n |-> t.n, online |-> IF t.on /\ t.n = 1 THEN TRUE
                                         ELSE IF ~t.on /\ t.n = 0 THEN FALSE
                                         ELSE shown.online]
      /\ phase' = phase /\ at' = at /\ hwndChat' = hwndChat /\ cClients' = cClients
      /\ viewer' = viewer /\ win' = win
      /\ quit' = quit /\ down' = down /\ UNCHANGED endVars /\ UNCHANGED clientData
  BY DEF GuiNumChanged, clientVars, endVars, clientData
<1>2. /\ StackTypes /\ Nest /\ Data /\ DataTypes /\ Gui # <<>>
      /\ t \in Frames /\ t.op = "num" /\ ~t.wait /\ t \in Calls /\ Named(t)
  BY <1>0, <1>1, GuiTop
<1>3. GuiPopped(t)
  BY <1>1, <1>2, GuiReturns
<1>4. /\ t.c \in Clients /\ t.a = at[t.c] /\ t.back \in DOMAIN Srv
      /\ t.on => phase[t.c] = "listed"
  <2>1. t.back \in DOMAIN Srv
    BY <1>2 DEF Nest, Calling
  <2>. QED BY <1>2, <2>1 DEF Named
<1>5. "gui" \notin down
  BY <1>2 DEF Nest, Ends
<1>. DEFINE k == t
            c == t.c
<1>6. k = Top("gui") /\ k \in Frames /\ GuiPopped(k) /\ k.op = "num" /\ k \in Nums /\ k.c = c
  BY <1>2, <1>3 DEF Nums
<1>7. /\ c \in Clients /\ (k.on => c \in Listed)
      /\ IF dlg # "open" THEN recs' = recs
         ELSE IF k.on THEN AddRecord(at[c], c) ELSE RemoveRecord(at[c])
      /\ shown' = [n |-> k.n, online |-> IF k.on /\ k.n = 1 THEN TRUE
                                         ELSE IF ~k.on /\ k.n = 0 THEN FALSE
                                         ELSE shown.online]
  BY <1>1, <1>4 DEF Listed
<1>8. ~At("gui", "listed")
  BY <1>2 DEF At
<1>. HIDE DEF k, c
<1>9. Gone' = Gone /\ Freed' = Freed /\ Nums' = Nums \ {k} /\ Names' /\ Lists'
  BY <1>1, <1>2, <1>6, GuiPoppedKeeps
<1>10. Calls' = Calls \ {k} /\ Req' = Req /\ \A m \in Calls' : k.back < m.back
  BY <1>6, <1>0 DEF GuiPopped
<1>11. Records' /\ recs' \in [Slots -> SlotRecords]
  <2>1. CASE dlg # "open"
    <3>1. recs' = recs /\ recs \in [Slots -> SlotRecords]
      BY <1>2, <1>7, <2>1 DEF DataTypes, SlotRecords
    <3>2. ASSUME NEW s \in Slots, recs[s].live PROVE Recorded(s)'
      <4>1. Recorded(s)
        BY <1>2, <3>2 DEF Data, Records
      <4>2. recs[s].c \notin Going
        BY <1>8, <2>1, <4>1 DEF Recorded
      <4>3. Allocated' = Allocated /\ Going' = Going
        BY <1>1 DEF Allocated, Going
      <4>. QED BY <1>1, <1>10, <3>1, <4>1, <4>2, <4>3 DEF Recorded
    <3>. QED BY <1>2, <3>1, <3>2 DEF Data, Records
  <2>2. CASE dlg = "open" /\ k.on
    <3>1. {m \in Calls' : m.op = "num" /\ ~m.on} = {m \in Calls : m.op = "num" /\ ~m.on}
      BY <1>10, <2>2
    <3>2. c \in Listed /\ AddRecord(at[c], c) /\ dlg # "none" /\ dlg # "creating"
      BY <1>7, <2>2
    <3>. QED BY <1>1, <1>2, <1>5, <1>8, <1>9, <3>1, <3>2, RecordAdded
  <2>3. CASE dlg = "open" /\ ~k.on
    <3>1. {m \in Calls : m.op = "num" /\ ~m.on /\ m.c # c} \subseteq Calls'
      BY <1>6, <1>10
    <3>2. RemoveRecord(at[c])
      BY <1>7, <2>3
    <3>. QED BY <1>1, <1>2, <1>5, <1>7, <1>9, <2>3, <3>1, <3>2, RecordRemoved
  <2>. QED BY <2>1, <2>2, <2>3
<1>12. /\ k.n \in 0 .. MaxClients /\ k.n \in Nat /\ k.on \in BOOLEAN /\ k.back \in Nat
       /\ shown.n \in Nat /\ shown.online \in BOOLEAN
  BY <1>2, <1>6, BoundsAssumption DEF Frames, DataTypes
<1>13. DataTypes'
  <2>1. shown' \in [n : 0 .. MaxClients, online : BOOLEAN]
    BY <1>7, <1>12
  <2>. QED BY <1>1, <1>2, <1>11, <2>1 DEF DataTypes, SlotRecords
<1>14. Counter'
  <2>1. Listed' = Listed
    BY <1>1 DEF Listed
  <2>. QED BY <1>1, <1>2, <1>9, <2>1 DEF Data, Counter
<1>15. Numbers'
  <2>1. \A m \in Nums : m.back \in Nat
    <3>1. \A m \in Calls : m.back \in DOMAIN Srv
      BY <1>2 DEF Nest, Calling
    <3>2. DOMAIN Srv \subseteq Nat
      BY <1>2, Stacks
    <3>. QED BY <3>1, <3>2 DEF Nums
  <2>2. \A m \in Nums' : k.back < m.back
    BY <1>10 DEF Nums
  <2>3. Numbers
    BY <1>2 DEF Data
  <2>. QED BY <1>1, <1>5, <1>6, <1>7, <1>9, <1>12, <2>1, <2>2, <2>3, NumberShown
<1>. QED BY <1>6, <1>9, <1>11, <1>13, <1>14, <1>15 DEF IInv, Data, GuiPopped

\* The list window is closed: nobody is listing any more.
LEMMA CloseListStep ==
  ASSUME IInv, CloseList
  PROVE  IInv'
<1>1. StackTypes /\ Nest /\ Data /\ DataTypes
  BY DEF IInv, Data
<1>2. /\ Gui = <<>> /\ dlg = "open" /\ dlg' = "none" /\ recs' = NoRecords
      /\ phase' = phase /\ at' = at /\ hwndChat' = hwndChat /\ cClients' = cClients
      /\ viewer' = viewer /\ win' = win /\ shown' = shown /\ quit' = quit /\ down' = down
      /\ UNCHANGED threadVars
  BY DEF CloseList, Idle, Gui, clientVars, endVars
<1>3. StackTypes' /\ Nest' /\ Srv' = Srv /\ Gui' = Gui /\ Req' = Req /\ Calls' = Calls
  BY <1>1, <1>2, StacksKept
<1>4. Req = <<>> /\ \A i \in DOMAIN Srv : Srv[i].back = 0
  <2>1. Resting
    BY <1>2 DEF Resting
  <2>. QED BY <1>1, <2>1, NoRequest
<1>5. \A i \in DOMAIN Srv : Srv[i].op \in Own
  BY <1>1, <1>4 DEF Nest, SrvPlaces
<1>6. Gone' = Gone /\ Freed' = Freed /\ Nums' = Nums
  BY <1>3 DEF Gone, Freed, Nums
<1>7. Listed' = Listed /\ Going' = Going
  BY <1>2 DEF Listed, Going
<1>8. NoRecords \in [Slots -> SlotRecords] /\ \A s \in Slots : ~NoRecords[s].live
  BY DEF NoRecords, NoRecord, SlotRecords
<1>9. DataTypes'
  BY <1>1, <1>2, <1>8 DEF DataTypes, SlotRecords
<1>10. Lists'
  <2>1. \A i \in DOMAIN Srv : Srv[i].op \notin {"listing", "list"}
    BY <1>5 DEF Own
  <2>. QED BY <1>1, <1>2, <1>3, <1>4, <1>7, <2>1 DEF Data, Lists
<1>11. Names'
  <2>1. ASSUME NEW m \in Calls' PROVE Named(m)'
    <3>1. Named(m)
      BY <1>1, <1>3 DEF Data, Names
    <3>. QED BY <1>2, <1>3, <3>1 DEF Named
  <2>. QED BY <1>1, <1>3, <1>6, <1>7, <2>1 DEF Data, Names
<1>12. Records'
  BY <1>2, <1>8 DEF Records
<1>13. Counter'
  BY <1>1, <1>2, <1>6, <1>7 DEF Data, Counter
<1>14. Numbers'
  BY <1>1, <1>2, <1>6 DEF Data, Numbers, Before
<1>. QED BY <1>3, <1>9, <1>10, <1>11, <1>12, <1>13, <1>14 DEF IInv, Data

\* The stacks and the data stay as they are, but for WM_QUIT.
LEMMA StillKeeps ==
  ASSUME IInv, UNCHANGED <<threadVars, clientVars, guiVars, down>>, DataTypes',
         "srv" \in quit' => "srv" \in quit
  PROVE  IInv'
<1>1. StackTypes /\ Nest /\ Data /\ DataTypes
  BY DEF IInv, Data
<1>2. /\ phase' = phase /\ at' = at /\ cClients' = cClients /\ viewer' = viewer
      /\ dlg' = dlg /\ recs' = recs /\ shown' = shown /\ down' = down /\ UNCHANGED threadVars
      /\ UNCHANGED clientData /\ UNCHANGED listData
  BY DEF clientVars, guiVars, clientData, listData
<1>3. StackTypes' /\ Nest' /\ Srv' = Srv /\ Gui' = Gui /\ Req' = Req /\ Calls' = Calls
  BY <1>1, <1>2, StacksKept
<1>4. Gone' = Gone /\ Freed' = Freed /\ Nums' = Nums
  BY <1>3 DEF Gone, Freed, Nums
<1>5. Listed' = Listed /\ Going' = Going
  BY <1>2 DEF Listed, Going
<1>6. Lists'
  BY <1>1, <1>2, <1>3, <1>5 DEF Data, Lists
<1>7. Names'
  <2>1. ASSUME NEW m \in Calls' PROVE Named(m)'
    <3>1. Named(m)
      BY <1>1, <1>3 DEF Data, Names
    <3>. QED BY <1>2, <1>3, <3>1 DEF Named
  <2>. QED BY <1>1, <1>3, <1>4, <1>5, <2>1 DEF Data, Names
<1>8. ListedKept
  BY <1>3 DEF ListedKept, At, Top, Gui
<1>9. Data'
  BY <1>1, <1>2, <1>4, <1>6, <1>7, <1>8, DataKept
<1>. QED BY <1>3, <1>9 DEF IInv

\* WM_QUIT is posted to the GUI thread.
LEMMA CmdQuitStep ==
  ASSUME IInv, CmdQuit
  PROVE  IInv'
<1>1. DataTypes
  BY DEF IInv, Data
<1>2. UNCHANGED <<threadVars, clientVars, guiVars, down>> /\ quit' = quit \cup {"gui"}
  BY DEF CmdQuit
<1>3. /\ phase' = phase /\ at' = at /\ hwndChat' = hwndChat /\ cClients' = cClients
      /\ viewer' = viewer /\ dlg' = dlg /\ recs' = recs /\ win' = win /\ shown' = shown
      /\ down' = down
  BY <1>2 DEF clientVars, guiVars
<1>4. quit' \subseteq Threads /\ down' \subseteq quit'
  BY <1>1, <1>2, <1>3 DEF DataTypes, Threads
<1>5. DataTypes'
  BY <1>1, <1>3, <1>4 DEF DataTypes
<1>6. "srv" \in quit' => "srv" \in quit
  BY <1>2
<1>. QED BY <1>2, <1>5, <1>6, StillKeeps

\* The GUI thread ends.
LEMMA GuiEndsStep ==
  ASSUME IInv, GuiEnds
  PROVE  IInv'
<1>1. StackTypes /\ Nest /\ Data /\ DataTypes
  BY DEF IInv, Data
<1>2. GuiEnded
  BY <1>1, GuiEnding
<1>3. /\ Gui' = <<>> /\ Calls' = {} /\ Req' = <<>> /\ DOMAIN Srv' = DOMAIN Srv
      /\ \A i \in DOMAIN Srv : /\ Srv'[i].op = Srv[i].op /\ Srv'[i].c = Srv[i].c
                               /\ Srv'[i].rest = Srv[i].rest
      /\ \A i \in DOMAIN Srv : Srv[i].back = 0
  BY <1>2 DEF GuiEnded
<1>a. StackTypes' /\ Nest'
  BY <1>2 DEF GuiEnded
<1>4. /\ dlg' = "none" /\ recs' = NoRecords /\ win' = [w \in Wins |-> Closed]
      /\ phase' = phase /\ at' = at /\ hwndChat' = hwndChat /\ cClients' = cClients
      /\ viewer' = viewer /\ shown' = shown
      /\ down' = down \cup {"gui"} /\ quit' = quit \cup {"srv"} /\ "gui" \in quit
  BY DEF GuiEnds, clientVars
<1>5. \A i \in DOMAIN Srv : Srv[i].op \in Own
  BY <1>1, <1>3 DEF Nest, SrvPlaces
<1>6. Gone' = Gone /\ Freed' = Freed
  BY <1>3 DEF Gone, Freed
<1>7. Listed' = Listed /\ Going' = Going
  BY <1>4 DEF Listed, Going
<1>8. NoRecords \in [Slots -> SlotRecords] /\ \A s \in Slots : ~NoRecords[s].live
  BY DEF NoRecords, NoRecord, SlotRecords
<1>9. DataTypes'
  <2>1. win' \in [Wins -> WinRecords]
    BY <1>4 DEF WinRecords, Closed
  <2>2. quit' \subseteq Threads /\ down' \subseteq quit'
    BY <1>1, <1>4 DEF DataTypes, Threads
  <2>3. recs' \in [Slots -> SlotRecords] /\ dlg' \in {"none", "creating", "open"}
    BY <1>4, <1>8
  <2>. QED BY <1>1, <1>4, <2>1, <2>2, <2>3 DEF DataTypes, SlotRecords, WinRecords
<1>10. Lists'
  <2>1. \A i \in DOMAIN Srv : Srv[i].op \notin {"listing", "list"}
    BY <1>5 DEF Own
  <2>. QED BY <1>1, <1>3, <1>4, <1>7, <2>1 DEF Data, Lists
<1>11. Names'
  <2>1. \A i \in DOMAIN Gui' : FALSE
    BY <1>3
  <2>. QED BY <1>1, <1>3, <1>6, <1>7, <2>1 DEF Data, Names
<1>12. Records'
  BY <1>4, <1>8 DEF Records
<1>13. Counter'
  BY <1>1, <1>4, <1>6, <1>7 DEF Data, Counter
<1>14. Numbers'
  BY <1>4 DEF Numbers
<1>. QED BY <1>a, <1>9, <1>10, <1>11, <1>12, <1>13, <1>14 DEF IInv, Data

-----------------------------------------------------------------------------
(* The theorems. *)

\* The invariant holds at the start.
LEMMA Initially == Init => IInv
<1>. SUFFICES ASSUME Init PROVE IInv
  OBVIOUS
<1>1. /\ stack = [t \in Threads |-> <<>>] /\ inbox = [t \in Threads |-> <<>>]
      /\ quit = {} /\ down = {}
      /\ phase = [c \in Clients |-> "new"] /\ at = [c \in Clients |-> None]
      /\ hwndChat = [c \in Clients |-> None]
      /\ cClients = 0 /\ viewer = FALSE /\ dlg = "none" /\ recs = NoRecords
      /\ win = [w \in Wins |-> Closed] /\ shown = [n |-> 0, online |-> FALSE]
  BY DEF Init
<1>2. StackTypes
  <2>1. <<>> \in Seq(Frames)
    OBVIOUS
  <2>. QED BY <1>1, <2>1 DEF StackTypes
<1>3. Srv = <<>> /\ Gui = <<>> /\ Req = <<>> /\ Box = <<>>
  BY <1>1 DEF Srv, Gui, Req, Box, Threads
<1>4. Calls = {}
  BY <1>3 DEF Calls, ToSet
<1>5. Nest
  <2>1. SrvPlaces /\ GuiPlaces
    BY <1>3 DEF SrvPlaces, GuiPlaces
  <2>2. Pending /\ Calling
    BY <1>3, <1>4 DEF Pending, Calling
  <2>3. Ends
    BY <1>1 DEF Ends
  <2>. QED BY <2>1, <2>2, <2>3 DEF Nest
<1>6. Gone = {} /\ Freed = {} /\ Nums = {}
  BY <1>3, <1>4 DEF Gone, Freed, Nums
<1>7. Going = {} /\ Listed = {}
  BY <1>1 DEF Going, Listed
<1>8. DataTypes
  <2>1. NoRecords \in [Slots -> SlotRecords]
    BY DEF NoRecords, NoRecord, SlotRecords
  <2>2. [w \in Wins |-> Closed] \in [Wins -> WinRecords]
    BY DEF Closed, WinRecords
  <2>3. shown \in [n : 0 .. MaxClients, online : BOOLEAN]
    BY <1>1, BoundsAssumption
  <2>. QED BY <1>1, <2>1, <2>2, <2>3 DEF DataTypes, SlotRecords, WinRecords
<1>9. Lists
  BY <1>1, <1>3 DEF Lists
<1>10. Names
  BY <1>3, <1>4, <1>6, <1>7 DEF Names
<1>11. Records
  BY <1>1 DEF Records, NoRecords, NoRecord
<1>12. Counter
  <2>1. Listed \cup Gone = {}
    BY <1>6, <1>7
  <2>2. Cardinality(Listed \cup Gone) = 0
    BY <2>1, FS_EmptySet
  <2>. QED BY <1>1, <2>2 DEF Counter
<1>13. Numbers
  BY <1>1, <1>6 DEF Numbers
<1>. QED BY <1>2, <1>5, <1>8, <1>9, <1>10, <1>11, <1>12, <1>13 DEF IInv, Data

\* Every step keeps it.
LEMMA Steps == IInv /\ [Next]_vars => IInv'
<1>. SUFFICES ASSUME IInv, [Next]_vars PROVE IInv'
  OBVIOUS
<1>1. ASSUME SrvStep PROVE IInv'
  <2>1. CASE Attach
    BY <2>1, ClientNewSteps
  <2>2. CASE AttachFails \/ Joined \/ ChatAsk
    BY <2>2, ReturnSteps
  <2>3. CASE CountDown
    BY <2>3, CountDownStep
  <2>4. CASE FreeClient
    BY <2>4, FreeClientStep
  <2>5. CASE ChatOpened
    BY <2>5, ChatOpenedStep
  <2>6. CASE ShowChat
    BY <2>6, ShowChatStep
  <2>7. CASE StartList \/ ListClients
    BY <2>7, ListSteps
  <2>8. CASE SetChatWindow
    BY <2>8, SetChatWindowStep
  <2>. QED BY <1>1, <2>1, <2>2, <2>3, <2>4, <2>5, <2>6, <2>7, <2>8 DEF SrvStep
<1>2. ASSUME GuiStep PROVE IInv'
  <2>1. CASE GuiNumChanged
    BY <2>1, GuiNumChangedStep
  <2>2. CASE ListClient
    BY <2>2, ListClientStep
  <2>3. CASE ChatOpen \/ ChatSystem \/ ChatClosed
    BY <2>3, ChatSteps
  <2>4. CASE ListShown
    BY <2>4, ListShownStep
  <2>5. CASE Refreshed
    BY <2>5, RefreshedStep
  <2>. QED BY <1>2, <2>1, <2>2, <2>3, <2>4, <2>5 DEF GuiStep
<1>3. ASSUME Environment PROVE IInv'
  <2>1. CASE Accept
    BY <2>1, ClientNewSteps
  <2>2. CASE ConnectionGone
    BY <2>2, ConnectionGoneStep
  <2>3. CASE TextChatOpen \/ TextChatLeft
    BY <2>3, TextChatSteps
  <2>4. CASE OpenList \/ SendSocket \/ CloseChat
    BY <2>4, CommandSteps
  <2>5. CASE CloseList
    BY <2>5, CloseListStep
  <2>6. CASE CmdChat
    BY <2>6, CmdChatStep
  <2>7. CASE BoxAnswered
    BY <2>7, BoxAnsweredStep
  <2>8. CASE CmdQuit
    BY <2>8, CmdQuitStep
  <2>. QED BY <1>3, <2>1, <2>2, <2>3, <2>4, <2>5, <2>6, <2>7, <2>8 DEF Environment
<1>4. CASE Timer
  BY <1>4, CommandSteps
<1>5. CASE GuiEnds
  BY <1>5, GuiEndsStep
<1>6. CASE ServerEnds
  BY <1>6, ServerEndsStep
<1>7. CASE \E t \in Threads : Take(t)
  BY <1>7, TakeSteps
<1>8. CASE UNCHANGED vars
  <2>1. UNCHANGED <<threadVars, clientVars, guiVars, down>> /\ quit' = quit
    BY <1>8 DEF vars, endVars
  <2>2. DataTypes'
    BY <1>8 DEF IInv, Data, DataTypes, vars, threadVars, clientVars, guiVars, endVars
  <2>3. "srv" \in quit' => "srv" \in quit
    BY <2>1
  <2>. QED BY <2>1, <2>2, <2>3, StillKeeps
<1>. QED BY <1>1, <1>2, <1>3, <1>4, <1>5, <1>6, <1>7, <1>8 DEF Next

\* Handlers nest no deeper than IInv says, and what the messages under way
\* and the lists still say of a client is true, whatever the two threads send
\* each other (main.c, gui.c, rfbsrv.c).
THEOREM Invariant == Spec => []IInv
<1>. QED BY Initially, Steps, PTL DEF Spec

\* The frames of the invariant are those of the type invariant.
LEMMA FrameTyped ==
  ASSUME NEW f \in Frames
  PROVE  FrameOK(f)
BY DEF Frames, FrameOK

\* Every variable holds what the code can put into it, the counter of clients
\* is never negative, and for each message under way a frame of the sender
\* waits (rfbsrv.c:464, main.c:90).
THEOREM TypeCorrect == Spec => []TypeOK
<1>1. IInv => TypeOK
  <2>. SUFFICES ASSUME IInv PROVE TypeOK
    OBVIOUS
  <2>1. StackTypes /\ Nest /\ Data /\ DataTypes
    BY DEF IInv, Data
  <2>2. ASSUME NEW t \in Threads
        PROVE  /\ \A i \in DOMAIN stack[t] : FrameOK(stack[t][i])
               /\ \A i \in DOMAIN inbox[t] : /\ FrameOK(inbox[t][i])
                                             /\ stack[Other(t)][inbox[t][i].back].wait
    <3>1. stack[t] \in Seq(Frames) /\ inbox[t] \in Seq(Frames)
      BY <2>1 DEF StackTypes
    <3>2. ASSUME NEW i \in DOMAIN stack[t] PROVE FrameOK(stack[t][i])
      <4>1. stack[t][i] \in Frames
        BY <3>1
      <4>. QED BY <4>1, FrameTyped
    <3>3. ASSUME NEW i \in DOMAIN inbox[t] PROVE FrameOK(inbox[t][i])
      <4>1. inbox[t][i] \in Frames
        BY <3>1
      <4>. QED BY <4>1, FrameTyped
    <3>4. ASSUME NEW i \in DOMAIN inbox[t] PROVE stack[Other(t)][inbox[t][i].back].wait
      <4>1. CASE t = "srv"
        <5>1. Awaited(Req[i].back)
          BY <2>1, <4>1 DEF Nest, Pending, Req
        <5>. QED BY <4>1, <5>1 DEF Awaited, Gui, Req, Other
      <4>2. CASE t = "gui"
        <5>1. Box[i] \in Calls
          BY <4>2 DEF Calls, ToSet, Box
        <5>2. Srv[Box[i].back].wait
          BY <2>1, <5>1 DEF Nest, Calling
        <5>. QED BY <4>2, <5>2 DEF Srv, Box, Other
      <4>. QED BY <4>1, <4>2 DEF Threads
    <3>. QED BY <3>2, <3>3, <3>4
  <2>3. cClients \in 0 .. MaxClients
    <3>1. Listed \cup Gone \in SUBSET Clients
      BY DEF Listed, Gone
    <3>2. Cardinality(Listed \cup Gone) \in Nat /\ Cardinality(Listed \cup Gone) <= MaxClients
      BY <3>1, ListedFinite
    <3>3. cClients \in Nat /\ cClients <= MaxClients
      BY <2>1, <3>2 DEF Data, Counter
    <3>. QED BY <3>3, BoundsAssumption
  <2>4. /\ \A s \in Slots : recs[s].live \in BOOLEAN /\ recs[s].a \in Addrs \cup {None}
        /\ \A w \in Wins : win[w].a \in Addrs \cup {None} /\ win[w].on \in BOOLEAN
        /\ shown.n \in 0..MaxClients /\ shown.online \in BOOLEAN
    BY <2>1 DEF DataTypes
  <2>. QED BY <2>1, <2>2, <2>3, <2>4 DEF TypeOK, DataTypes
<1>. QED BY <1>1, Invariant, PTL

\* A record of the list window is that of one client whose memory is still
\* allocated, and no client has two, whatever came and went while the list
\* was being asked for (clientsdlg.c:303, 365, 439).
THEOREM RecordsAlive == Spec => []RecordsLive
<1>1. IInv => RecordsLive
  <2>. SUFFICES ASSUME IInv, NEW s \in Slots, recs[s].live
                PROVE  /\ \E c \in Allocated : at[c] = recs[s].a /\ recs[s].c = c
                       /\ RecordsOf(recs[s].a) = {s}
    BY DEF RecordsLive
  <2>1. Recorded(s)
    BY DEF IInv, Data, Records
  <2>2. \E c \in Allocated : at[c] = recs[s].a /\ recs[s].c = c
    BY <2>1 DEF Recorded
  <2>3. \A r \in Slots : recs[r].live /\ recs[r].a = recs[s].a => r = s
    BY DEF IInv, Data, Records
  <2>. QED BY <2>2, <2>3 DEF RecordsOf
<1>. QED BY <1>1, Invariant, PTL

\* When nothing is under way the number and the icon in the tray and the
\* clipboard viewer agree with the clients there are, however the messages of
\* clients that came and went were nested (rfbsrv.c:464, main.c:61, gui.c:374).
THEOREM NumbersTold == Spec => []Told
<1>1. IInv => Told
  <2>. SUFFICES ASSUME IInv, Quiet
                PROVE  /\ cClients = Cardinality(Listed)
                       /\ viewer = (cClients # 0)
                       /\ shown.n = cClients /\ shown.online = (cClients # 0)
    BY DEF Told
  <2>1. Srv = <<>> /\ Gui = <<>> /\ Box = <<>> /\ "gui" \notin down
    BY DEF Quiet, Idle, Threads, Srv, Gui, Box
  <2>2. Gone = {} /\ Nums = {}
    <3>1. Calls = {}
      BY <2>1 DEF Calls, ToSet
    <3>. QED BY <2>1, <3>1 DEF Gone, Nums
  <2>3. Listed \cup Gone = Listed
    BY <2>2
  <2>4. cClients = Cardinality(Listed \cup Gone) /\ viewer = (cClients # 0)
    BY DEF IInv, Data, Counter
  <2>5. shown.online = (shown.n # 0) /\ shown.n = cClients
    BY <2>1, <2>2 DEF IInv, Data, Numbers
  <2>. QED BY <2>3, <2>4, <2>5
<1>. QED BY <1>1, Invariant, PTL
=============================================================================
