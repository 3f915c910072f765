--------------------------- MODULE WebSocketProofs ---------------------------
(***************************************************************************)
(* Proofs of the safety properties of WebSocket for every set of streams,  *)
(* every size of the buffer and any lengths the readers ask for.           *)
(*                                                                         *)
(* Typed is inductive by itself, whatever the pieces in which the bytes    *)
(* arrive; TypeOK follows from it.  Delivered and Drained hold where the   *)
(* pieces are those the decoder can take (Framed), by PInv: as long as the *)
(* connection lives (Live) the decoder is in the header of one frame       *)
(* (AtHeader) or in the payload of one (AtBody), the readers have been     *)
(* given a beginning of the bytes of messages, and what is decoded and not *)
(* handed over follows it; a connection that has ended (Ended) ended where *)
(* it may.                                                                 *)
(*                                                                         *)
(* Base is how far the payload is decoded, Off where the bytes of a frame  *)
(* begin in those of the whole stream, and Span a part of the latter.      *)
(***************************************************************************)
EXTENDS WebSocket, SequenceLemmas

Ops == {"INVALID", "TEXT", "BINARY", "PING", "CLOSE"}
Bytes == Nat \X Nat
Context == [st : {"HEADER", "NEEDED", "CLOSING", "AVAILABLE"}, nRead : 0..14, op : Ops,
            frame : Nat, nPayload : Nat, carry : Seq(Nat), ready : Seq(Bytes),
            cont : {"INVALID", "TEXT", "BINARY"}]

\* Between frames and inside a header the context holds no payload.
AtRest == ws.st = "HEADER" => ws.nPayload = 0 /\ ws.carry = <<>>
\* Inside a longer header the frame and the operation are known.
InRest == gone = "no" /\ pc = "rest" =>
  /\ ws.st = "HEADER" /\ ws.frame > 0 /\ ws.op # "INVALID"
  /\ Current.head > 6 /\ ws.nRead \in 2..6
\* Inside a payload what is carried over is part of it and fits the buffer.
InFrame == ws.st # "HEADER" =>
  /\ ws.frame > 0 /\ ws.nPayload <= Current.len
  /\ ws.op # "INVALID"
  /\ Len(ws.carry) <= 3 /\ Len(ws.carry) <= ws.nPayload
  /\ WritePos + Len(ws.carry) < BufLen

\* Decoded bytes wait while a reader asks for more or begins the next message.
IsReady == /\ ws.st = "AVAILABLE" <=> ws.ready # <<>>
           /\ ws.st = "AVAILABLE" => /\ pc \in {"read", "loop"} /\ Len(ws.ready) < BufLen
                                     /\ ws.op \in {"TEXT", "BINARY"}

SocketTyped ==
  /\ stream \in Streams /\ tls \in BOOLEAN /\ hup \in BOOLEAN
  /\ pos \in Nat /\ ends \subseteq pos..Total(stream) /\ ends # {}
ThreadTyped ==
  /\ pc \in {"select", "read", "rest", "wait", "loop"}
  /\ todo \in Seq(Nat \ {0}) /\ (pc \in {"read", "rest", "wait"} => todo # <<>>)
  /\ got \in Seq(Bytes)
  /\ gone \in {"no", "timeout", "closed", "error"}
ContextTyped ==
  /\ ws \in Context /\ ws.frame <= Len(stream)
  /\ AtRest /\ InRest /\ InFrame /\ IsReady
Typed == SocketTyped /\ ThreadTyped /\ ContextTyped

\* The operation of the message that is open before the frame i, and inside it
\* once its first two bytes are read; and that of the frame.
TextStarted(s, i) == \E j \in 1..(i - 1) : /\ s[j].op = "TEXT"
                                           /\ \A k \in (j + 1)..(i - 1) : s[k].op # "BINARY"
ContBefore(s, i) == IF ~Fragmented(s, i) THEN "INVALID"
                    ELSE IF TextStarted(s, i) THEN "TEXT" ELSE "BINARY"
ContWithin(s, i) == IF s[i].op \in {"TEXT", "BINARY"}
                    THEN IF s[i].fin THEN "INVALID" ELSE s[i].op
                    ELSE ContBefore(s, i)
Op(s, i) == IF Control(s[i]) THEN s[i].op ELSE IF Base64Text(s, i) THEN "TEXT" ELSE "BINARY"
\* The first two bytes of the frame i are not refused.
GoodStart(s, i) == /\ s[i].masked
                   /\ Control(s[i]) => s[i].fin
                   /\ s[i].op = "CONT" => Fragmented(s, i)
\* Where the bytes of the frame after i begin, a part of the bytes of the stream, and
\* the bytes of the frame i that its first b bytes give.
Off(s, i) == Len(Payload(s, i))
Span(s, m, n) == SubSeq(Payload(s, Len(s)), m, n)
Decoded(s, i, b) == IF Control(s[i]) THEN 0
                    ELSE IF ~Base64Text(s, i) THEN b
                    ELSE IF b = s[i].len THEN DataLen(s, i) ELSE 3 * (b \div 4)
\* The bytes of the payload that are decoded.
Base == ws.nPayload - Len(ws.carry)
Allowed(n) == \A j \in 1..n : ~Forbidden(stream, j)
\* The pieces that have arrived end where the bytes may stop.
EndsWhole == \A e \in ends : WholeAt(stream, tls, e)

\* The decoder is where the frame i begins, or in its header: the frames before it
\* are with the readers, whole.
AtHeader(i) ==
  /\ i \in 1..(Len(stream) + 1)
  /\ pos - ws.nRead = Start(stream, i)
  /\ Allowed(i - 1)
  /\ got = Span(stream, 1, Off(stream, i - 1))
  /\ ws.nRead > 0 => ws.frame = i /\ pc \in {"read", "wait", "rest"}
  /\ pc # "rest" => ws.nRead <= 5
  /\ ws.nRead > 0 /\ pc = "read" /\ ~tls => Some \/ hup
  /\ i <= Len(stream) => IF ws.nRead < 2 THEN ws.cont = ContBefore(stream, i)
                         ELSE /\ ws.cont = ContWithin(stream, i) /\ ws.op = Op(stream, i)
                              /\ GoodStart(stream, i)
\* The decoder is in the payload of the frame i: what the readers have and what waits
\* for them are the bytes of messages up to the byte that is decoded.
AtBody(i) ==
  /\ pos = Start(stream, i) + stream[i].head + ws.nPayload
  /\ Allowed(i)
  /\ ws.cont = ContWithin(stream, i) /\ ws.op = Op(stream, i)
  /\ Base % 4 = 0 \/ ws.nPayload = stream[i].len
  /\ \A j \in 1..Len(ws.carry) : ws.carry[j] = Base + j - 1
  /\ ws.nPayload = stream[i].len => ws.carry = <<>>
  /\ ws.nPayload = stream[i].len /\ ws.st # "AVAILABLE" => stream[i].len = 0 /\ pc = "read"
  /\ LET n == Off(stream, i - 1) + Decoded(stream, i, Base)
     IN /\ Len(got) <= n
        /\ got = Span(stream, 1, Len(got))
        /\ ws.ready = Span(stream, Len(got) + 1, n)
Live == /\ EndsWhole
        /\ pc \in {"select", "wait"} => ~PendingAt(pos)
        /\ ws.st = "HEADER" => \E i \in 1..(Len(stream) + 1) : AtHeader(i)
        /\ ws.st # "HEADER" => AtBody(ws.frame)
Ended ==
  /\ IsPrefix(got, Payload(stream, Len(stream)))
  /\ gone = "closed" =>
       hup /\ \A i \in 0..Len(stream) : Start(stream, i + 1) <= pos => IsPrefix(Payload(stream, i), got)
  /\ gone = "error" =>
       \E i \in 1..Len(stream) :
         /\ Forbidden(stream, i) \/ stream[i].op = "CLOSE"
         /\ \A j \in 1..(i - 1) : ~Forbidden(stream, j)
         /\ got = Payload(stream, i - 1)
PInv == IF gone = "no" THEN Live ELSE Ended

-----------------------------------------------------------------------------
(* The stream.                                                             *)

\* A function defined by recursion over 0..n exists.
RecursionRule(f, n, base, step) ==
  f[0] = base /\ \A i \in 1 .. n : f[i] = step[i][f[i - 1]]

LEMMA Recursion ==
  ASSUME NEW n \in Nat, NEW S, NEW base \in S, NEW step \in [1 .. n -> [S -> S]]
  PROVE  \E f \in [0 .. n -> S] : RecursionRule(f, n, base, step)
<1>. DEFINE Holds(m) == \E f \in [0 .. n -> S] :
              f[0] = base /\ \A i \in 1 .. n : i <= m => f[i] = step[i][f[i - 1]]
            T == {m \in Nat : m <= n => Holds(m)}
<1>1. 0 \in T
  <2>. DEFINE g == [i \in 0 .. n |-> base]
  <2>1. g \in [0 .. n -> S] /\ g[0] = base
    OBVIOUS
  <2>2. \A i \in 1 .. n : ~ (i <= 0)
    OBVIOUS
  <2>3. g[0] = base /\ \A i \in 1 .. n : i <= 0 => g[i] = step[i][g[i - 1]]
    BY <2>1, <2>2
  <2>. HIDE DEF g
  <2>4. Holds(0)
    BY <2>1, <2>3
  <2>. QED BY <2>4
<1>2. ASSUME NEW m \in Nat, m \in T PROVE m + 1 \in T
  <2>1. SUFFICES ASSUME m + 1 <= n PROVE Holds(m + 1)
    OBVIOUS
  <2>2. PICK f \in [0 .. n -> S] :
              f[0] = base /\ \A i \in 1 .. n : i <= m => f[i] = step[i][f[i - 1]]
    BY <1>2, <2>1
  <2>. DEFINE g == [i \in 0 .. n |-> IF i = m + 1 THEN step[m + 1][f[m]] ELSE f[i]]
  <2>3. m \in 0 .. n /\ m + 1 \in 1 .. n /\ f[m] \in S
    BY <2>1
  <2>4. step[m + 1] \in [S -> S] /\ step[m + 1][f[m]] \in S
    BY <2>3
  <2>5. g \in [0 .. n -> S]
    BY <2>4
  <2>6. g[0] = base
    BY <2>2, <2>3
  <2>7. ASSUME NEW i \in 1 .. n, i <= m + 1 PROVE g[i] = step[i][g[i - 1]]
    <3>1. i \in 0 .. n /\ i - 1 \in 0 .. n /\ i - 1 # m + 1
      BY <2>7
    <3>2. g[i - 1] = f[i - 1]
      BY <3>1
    <3>3. CASE i = m + 1
      BY <3>1, <3>2, <3>3
    <3>4. CASE i # m + 1
      <4>1. i <= m
        BY <2>7, <3>4
      <4>2. g[i] = f[i]
        BY <3>1, <3>4
      <4>. QED BY <2>2, <3>2, <4>1, <4>2
    <3>. QED BY <3>3, <3>4
  <2>. HIDE DEF g
  <2>. QED BY <2>5, <2>6, <2>7
<1>3. Nat \subseteq T
  <2>. HIDE DEF T
  <2>. QED BY <1>1, <1>2, NumberInduction
<1>4. Holds(n)
  BY <1>3
<1>5. PICK f \in [0 .. n -> S] :
            f[0] = base /\ \A i \in 1 .. n : i <= n => f[i] = step[i][f[i - 1]]
  BY <1>4
<1>6. \A i \in 1 .. n : f[i] = step[i][f[i - 1]]
  BY <1>5
<1>. QED BY <1>5, <1>6 DEF RecursionRule

LEMMA FrameTyped ==
  ASSUME NEW s \in Streams, NEW i \in 1 .. Len(s)
  PROVE  /\ s \in Seq(Frames) /\ Len(s) \in Nat
         /\ s[i] \in Frames /\ s[i].len \in Nat /\ s[i].head \in {6, 8, 14} /\ s[i].pad \in 0 .. 2
         /\ s[i].fin \in BOOLEAN /\ s[i].masked \in BOOLEAN
         /\ s[i].op \in {"TEXT", "BINARY", "CONT", "PING", "CLOSE"}
<1>1. s \in Seq(Frames)
  BY StreamsAssumption
<1>2. s[i] \in Frames /\ Len(s) \in Nat
  BY <1>1
<1>. QED BY <1>1, <1>2 DEF Frames

LEMMA StreamTyped ==
  ASSUME NEW s \in Streams
  PROVE  s \in Seq(Frames) /\ Len(s) \in Nat
  BY StreamsAssumption

LEMMA StartRule ==
  ASSUME NEW s \in Streams
  PROVE  /\ Starts[s] \in [0 .. Len(s) -> Nat] /\ Starts[s][0] = 0
         /\ \A i \in 1 .. Len(s) : Starts[s][i] = Starts[s][i - 1] + s[i].head + s[i].len
<1>. DEFINE step == [i \in 1 .. Len(s) |-> [x \in Nat |-> x + s[i].head + s[i].len]]
            Rule(f) == [i \in 0 .. Len(s) |-> IF i = 0 THEN 0 ELSE f[i - 1] + s[i].head + s[i].len]
<1>1. Len(s) \in Nat
  BY StreamTyped
<1>2. step \in [1 .. Len(s) -> [Nat -> Nat]]
  <2>1. ASSUME NEW i \in 1 .. Len(s), NEW x \in Nat PROVE x + s[i].head + s[i].len \in Nat
    <3>1. s[i].head \in Nat /\ s[i].len \in Nat
      BY FrameTyped
    <3>. QED BY <3>1
  <2>. QED BY <2>1
<1>3. PICK f \in [0 .. Len(s) -> Nat] :
            f[0] = 0 /\ \A i \in 1 .. Len(s) : f[i] = step[i][f[i - 1]]
  <2>. HIDE DEF step
  <2>1. PICK S : S = Nat
    OBVIOUS
  <2>2. PICK b : b = 0
    OBVIOUS
  <2>3. PICK n : n = Len(s)
    OBVIOUS
  <2>4. PICK step1 : step1 = step
    OBVIOUS
  <2>5. n \in Nat
    BY <1>1, <2>3
  <2>6. step1 \in [1 .. n -> [S -> S]]
    BY <1>2, <2>1, <2>3, <2>4
  <2>7. b \in S
    BY <2>1, <2>2
  <2>8. \E f \in [0 .. n -> S] : RecursionRule(f, n, b, step1)
    BY <2>5, <2>6, <2>7, Recursion
  <2>. QED BY <2>1, <2>2, <2>3, <2>4, <2>8 DEF RecursionRule
<1>4. \A i \in 1 .. Len(s) : i - 1 \in 0 .. Len(s) /\ f[i - 1] \in Nat
  BY <1>1
<1>5. \A i \in 1 .. Len(s) : f[i] = f[i - 1] + s[i].head + s[i].len
  BY <1>3, <1>4
<1>6. f = Rule(f)
  BY <1>1, <1>3, <1>5
<1>7. Starts[s] = CHOOSE g : g = Rule(g)
  BY DEF Starts
<1>8. Starts[s] = Rule(Starts[s])
  <2>. HIDE DEF Rule
  <2>. QED BY <1>6, <1>7
<1>9. Starts[s][0] = 0 /\ \A i \in 1 .. Len(s) : Starts[s][i] = Starts[s][i - 1] + s[i].head + s[i].len
  <2>. DEFINE g == Starts[s]
  <2>1. g = Rule(g)
    BY <1>8
  <2>. HIDE DEF g
  <2>2. g[0] = 0
    BY <1>1, <2>1
  <2>3. \A i \in 1 .. Len(s) : g[i] = g[i - 1] + s[i].head + s[i].len
    <3>. SUFFICES ASSUME NEW i \in 1 .. Len(s) PROVE g[i] = g[i - 1] + s[i].head + s[i].len
      OBVIOUS
    <3>1. i \in 0 .. Len(s) /\ i # 0
      BY <1>1
    <3>2. Rule(g)[i] = g[i - 1] + s[i].head + s[i].len
      BY <3>1
    <3>. QED BY <2>1, <3>2
  <2>. QED BY <2>2, <2>3 DEF g
<1>. DEFINE T == {m \in Nat : m <= Len(s) => Starts[s][m] \in Nat}
<1>10. 0 \in T
  BY <1>9
<1>11. ASSUME NEW m \in Nat, m \in T PROVE m + 1 \in T
  <2>1. SUFFICES ASSUME m + 1 <= Len(s) PROVE Starts[s][m + 1] \in Nat
    OBVIOUS
  <2>2. m + 1 \in 1 .. Len(s) /\ Starts[s][m] \in Nat /\ m + 1 - 1 = m
    BY <1>1, <1>11, <2>1
  <2>3. Starts[s][m + 1] = Starts[s][m] + s[m + 1].head + s[m + 1].len
    BY <1>9, <2>2
  <2>4. s[m + 1].head \in Nat /\ s[m + 1].len \in Nat
    BY <2>2, FrameTyped
  <2>. QED BY <2>2, <2>3, <2>4
<1>12. Nat \subseteq T
  <2>. HIDE DEF T
  <2>. QED BY <1>10, <1>11, NumberInduction
<1>13. \A m \in 0 .. Len(s) : Starts[s][m] \in Nat
  BY <1>12
<1>14. Starts[s] \in [0 .. Len(s) -> Nat]
  <2>. DEFINE g == Starts[s]
  <2>1. g = Rule(g) /\ \A m \in 0 .. Len(s) : g[m] \in Nat
    BY <1>8, <1>13
  <2>. HIDE DEF g
  <2>2. g \in [0 .. Len(s) -> Nat]
    BY <2>1
  <2>. QED BY <2>2 DEF g
<1>. QED BY <1>9, <1>14

LEMMA StartAt ==
  ASSUME NEW s \in Streams
  PROVE  /\ Start(s, 1) = 0
         /\ \A i \in 1 .. Len(s) + 1 : Start(s, i) \in Nat
         /\ \A i \in 1 .. Len(s) : Start(s, i + 1) = Start(s, i) + s[i].head + s[i].len
<1>1. Len(s) \in Nat
  BY StreamTyped
<1>2. \A i \in 1 .. Len(s) + 1 : i - 1 \in 0 .. Len(s)
  BY <1>1
<1>3. \A i \in 1 .. Len(s) : i + 1 - 1 = i
  OBVIOUS
<1>4. Starts[s] \in [0 .. Len(s) -> Nat] /\ Starts[s][0] = 0
  BY StartRule
<1>5. Start(s, 1) = 0
  BY <1>4 DEF Start
<1>6. \A i \in 1 .. Len(s) + 1 : Start(s, i) \in Nat
  BY <1>2, <1>4 DEF Start
<1>7. ASSUME NEW i \in 1 .. Len(s) PROVE Start(s, i + 1) = Start(s, i) + s[i].head + s[i].len
  <2>1. Start(s, i + 1) = Starts[s][i] /\ Start(s, i) = Starts[s][i - 1]
    BY <1>3 DEF Start
  <2>. QED BY <2>1, StartRule
<1>. QED BY <1>5, <1>6, <1>7

\* The frames follow each other.
LEMMA StartsGrow ==
  ASSUME NEW s \in Streams, NEW i \in 1 .. Len(s), NEW j \in 1 .. Len(s) + 1, i < j
  PROVE  Start(s, i) + s[i].head + s[i].len <= Start(s, j)
<1>. DEFINE T == {m \in Nat : i + 1 + m <= Len(s) + 1 => Start(s, i + 1) <= Start(s, i + 1 + m)}
<1>1. Len(s) \in Nat /\ i \in Nat /\ j \in Nat
  BY StreamTyped
<1>2. 0 \in T
  <2>1. i + 1 \in 1 .. Len(s) + 1 /\ i + 1 + 0 = i + 1
    BY <1>1
  <2>2. Start(s, i + 1) \in Nat
    BY <2>1, StartAt
  <2>3. Start(s, i + 1) <= Start(s, i + 1 + 0)
    BY <2>1, <2>2
  <2>. QED BY <2>3
<1>3. ASSUME NEW m \in Nat, m \in T PROVE m + 1 \in T
  <2>1. SUFFICES ASSUME i + 1 + (m + 1) <= Len(s) + 1
                 PROVE Start(s, i + 1) <= Start(s, i + 1 + (m + 1))
    OBVIOUS
  <2>. DEFINE k == i + 1 + m
  <2>2. k \in 1 .. Len(s) /\ k \in 1 .. Len(s) + 1 /\ k + 1 = i + 1 + (m + 1) /\ i + 1 \in 1 .. Len(s) + 1
    BY <1>1, <2>1
  <2>3. Start(s, i + 1) <= Start(s, k)
    BY <1>3, <2>2
  <2>. HIDE DEF k
  <2>4. Start(s, k + 1) = Start(s, k) + s[k].head + s[k].len
    BY <2>2, StartAt
  <2>5. Start(s, k) \in Nat /\ Start(s, i + 1) \in Nat
    BY <2>2, StartAt
  <2>6. s[k].head \in Nat /\ s[k].len \in Nat
    BY <2>2, FrameTyped
  <2>. DEFINE a == Start(s, i + 1)
              b == Start(s, k)
              h == s[k].head
              l == s[k].len
  <2>7. a <= b + h + l
    <3>1. a <= b /\ a \in Nat /\ b \in Nat /\ h \in Nat /\ l \in Nat
      BY <2>3, <2>5, <2>6
    <3>. HIDE DEF a, b, h, l
    <3>. QED BY <3>1
  <2>8. Start(s, i + 1) <= Start(s, k + 1)
    BY <2>4, <2>7
  <2>. QED BY <2>2, <2>8
<1>4. Nat \subseteq T
  <2>. HIDE DEF T
  <2>. QED BY <1>2, <1>3, NumberInduction
<1>5. j - (i + 1) \in Nat /\ i + 1 + (j - (i + 1)) = j /\ j <= Len(s) + 1
  BY <1>1
<1>6. Start(s, i + 1) <= Start(s, j)
  <2>1. j - (i + 1) \in T
    BY <1>4, <1>5
  <2>. QED BY <2>1, <1>5
<1>. QED BY <1>6, StartAt

\* A byte is in one frame.
LEMMA OneFrame ==
  ASSUME NEW s \in Streams, NEW i \in 1 .. Len(s) + 1, NEW j \in 1 .. Len(s), NEW p \in Nat,
         Start(s, i) <= p, i <= Len(s) => p < Start(s, i) + s[i].head + s[i].len,
         Start(s, j) <= p, p < Start(s, j) + s[j].head + s[j].len
  PROVE  i = j
<1>1. Len(s) \in Nat /\ i \in Nat /\ j \in Nat /\ j \in 1 .. Len(s) + 1
  BY StreamTyped
<1>2. Start(s, i) \in Nat /\ Start(s, j) \in Nat
  BY <1>1, StartAt
<1>2a. s[j].head \in Nat /\ s[j].len \in Nat
  BY FrameTyped
<1>3. CASE i < j
  <2>1. i \in 1 .. Len(s) /\ i <= Len(s)
    BY <1>1, <1>3
  <2>2. Start(s, i) + s[i].head + s[i].len <= Start(s, j)
    BY <1>1, <2>1, <1>3, StartsGrow
  <2>3. s[i].head \in Nat /\ s[i].len \in Nat
    BY <2>1, FrameTyped
  <2>4. p < Start(s, i) + s[i].head + s[i].len
    BY <2>1
  <2>. QED BY <1>2, <2>2, <2>3, <2>4
<1>4. CASE j < i
  <2>1. Start(s, j) + s[j].head + s[j].len <= Start(s, i)
    BY <1>1, <1>4, StartsGrow
  <2>. QED BY <1>2, <1>2a, <2>1
<1>. QED BY <1>1, <1>3, <1>4

LEMMA DataTyped ==
  ASSUME NEW s \in Streams, NEW i \in 1 .. Len(s)
  PROVE  /\ DataLen(s, i) \in Nat /\ Data(s, i) \in Seq(Bytes) /\ Len(Data(s, i)) = DataLen(s, i)
         /\ \A k \in 1 .. DataLen(s, i) : Data(s, i)[k] = <<i, k - 1>>
<1>1. s[i].len \in Nat /\ s[i].pad \in 0 .. 2 /\ i \in Nat
  BY FrameTyped, StreamTyped
<1>2. DataLen(s, i) \in Nat
  <2>1. CASE Base64Text(s, i)
    <3>1. s[i].len % 4 = 0 /\ (s[i].len = 0 => s[i].pad = 0)
      BY <2>1, TextAssumption
    <3>2. 3 * (s[i].len \div 4) - s[i].pad \in Nat
      BY <1>1, <3>1
    <3>. QED BY <2>1, <3>2 DEF DataLen
  <2>2. CASE ~Base64Text(s, i)
    BY <1>1, <2>2 DEF DataLen
  <2>. QED BY <2>1, <2>2
<1>3. \A k \in 1 .. DataLen(s, i) : <<i, k - 1>> \in Bytes
  BY <1>1, <1>2 DEF Bytes
<1>4. Data(s, i) = [k \in 1 .. DataLen(s, i) |-> <<i, k - 1>>]
  BY DEF Data
<1>5. PICK n \in Nat : n = DataLen(s, i)
  BY <1>2
<1>. DEFINE d == [k \in 1 .. n |-> <<i, k - 1>>]
<1>6. d \in Seq(Bytes) /\ Len(d) = n
  BY <1>3, <1>5
<1>. QED BY <1>2, <1>4, <1>5, <1>6

LEMMA PayloadRule ==
  ASSUME NEW s \in Streams
  PROVE  /\ \A i \in 0 .. Len(s) : Payload(s, i) \in Seq(Bytes)
         /\ Payload(s, 0) = <<>>
         /\ \A i \in 1 .. Len(s) : Payload(s, i) = Payload(s, i - 1) \o Data(s, i)
<1>. DEFINE step == [i \in 1 .. Len(s) |-> [x \in Seq(Bytes) |-> x \o Data(s, i)]]
            Rule(f) == [i \in 0 .. Len(s) |-> IF i = 0 THEN <<>> ELSE f[i - 1] \o Data(s, i)]
<1>1. Len(s) \in Nat
  BY StreamTyped
<1>2. step \in [1 .. Len(s) -> [Seq(Bytes) -> Seq(Bytes)]]
  <2>1. ASSUME NEW i \in 1 .. Len(s), NEW x \in Seq(Bytes) PROVE x \o Data(s, i) \in Seq(Bytes)
    <3>1. Data(s, i) \in Seq(Bytes)
      BY DataTyped
    <3>. QED BY <3>1
  <2>. QED BY <2>1
<1>3. PICK f \in [0 .. Len(s) -> Seq(Bytes)] :
            f[0] = <<>> /\ \A i \in 1 .. Len(s) : f[i] = step[i][f[i - 1]]
  <2>. HIDE DEF step
  <2>1. PICK S : S = Seq(Bytes)
    OBVIOUS
  <2>2. PICK b : b = <<>>
    OBVIOUS
  <2>3. PICK n : n = Len(s)
    OBVIOUS
  <2>4. PICK step1 : step1 = step
    OBVIOUS
  <2>5. n \in Nat
    BY <1>1, <2>3
  <2>6. step1 \in [1 .. n -> [S -> S]]
    BY <1>2, <2>1, <2>3, <2>4
  <2>7. b \in S
    BY <2>1, <2>2
  <2>8. \E f \in [0 .. n -> S] : RecursionRule(f, n, b, step1)
    BY <2>5, <2>6, <2>7, Recursion
  <2>. QED BY <2>1, <2>2, <2>3, <2>4, <2>8 DEF RecursionRule
<1>4. \A i \in 1 .. Len(s) : i - 1 \in 0 .. Len(s) /\ f[i - 1] \in Seq(Bytes)
  BY <1>1
<1>5. \A i \in 1 .. Len(s) : f[i] = f[i - 1] \o Data(s, i)
  BY <1>3, <1>4
<1>6. f = Rule(f)
  BY <1>1, <1>3, <1>5
<1>7. Payloads[s] = CHOOSE g : g = Rule(g)
  BY DEF Payloads
<1>8. Payloads[s] = Rule(Payloads[s])
  <2>. HIDE DEF Rule
  <2>. QED BY <1>6, <1>7
<1>. DEFINE g == Payloads[s]
<1>9. g = Rule(g)
  BY <1>8
<1>10. \A i \in 0 .. Len(s) : g[i] = Payload(s, i)
  BY DEF Payload
<1>. HIDE DEF g
<1>11. g[0] = <<>> /\ \A i \in 1 .. Len(s) : g[i] = g[i - 1] \o Data(s, i)
  <2>1. PICK h : h = g
    OBVIOUS
  <2>2. g = [i \in 0 .. Len(s) |-> IF i = 0 THEN <<>> ELSE h[i - 1] \o Data(s, i)]
    BY <1>9, <2>1
  <2>3. g[0] = <<>>
    BY <1>1, <2>2
  <2>4. ASSUME NEW i \in 1 .. Len(s) PROVE g[i] = g[i - 1] \o Data(s, i)
    <3>1. i \in 0 .. Len(s) /\ i # 0
      BY <1>1
    <3>2. g[i] = h[i - 1] \o Data(s, i)
      BY <2>2, <3>1
    <3>. QED BY <2>1, <3>2
  <2>. QED BY <2>3, <2>4
<1>. DEFINE T == {m \in Nat : m <= Len(s) => g[m] \in Seq(Bytes)}
<1>12. 0 \in T
  <2>1. <<>> \in Seq(Bytes)
    OBVIOUS
  <2>2. g[0] \in Seq(Bytes)
    BY <1>11, <2>1
  <2>. QED BY <2>2
<1>13. ASSUME NEW m \in Nat, m \in T PROVE m + 1 \in T
  <2>1. SUFFICES ASSUME m + 1 <= Len(s) PROVE g[m + 1] \in Seq(Bytes)
    OBVIOUS
  <2>2. m + 1 \in 1 .. Len(s) /\ g[m] \in Seq(Bytes) /\ m + 1 - 1 = m
    BY <1>1, <1>13, <2>1
  <2>3. PICK k \in 1 .. Len(s) : k = m + 1 /\ k - 1 = m
    BY <2>2
  <2>4. g[k] = g[k - 1] \o Data(s, k)
    BY <1>11
  <2>5. Data(s, k) \in Seq(Bytes) /\ g[k - 1] \in Seq(Bytes)
    BY <2>2, <2>3, DataTyped
  <2>6. g[k] \in Seq(Bytes)
    <3>. DEFINE x == g[k - 1]
                y == Data(s, k)
    <3>1. x \in Seq(Bytes) /\ y \in Seq(Bytes)
      BY <2>5
    <3>. HIDE DEF x, y
    <3>2. x \o y \in Seq(Bytes)
      BY <3>1
    <3>. QED BY <2>4, <3>2 DEF x, y
  <2>. QED BY <2>3, <2>6
<1>14. Nat \subseteq T
  <2>. HIDE DEF T
  <2>. QED BY <1>12, <1>13, NumberInduction
<1>15. \A m \in 0 .. Len(s) : g[m] \in Seq(Bytes)
  BY <1>14
<1>16. \A i \in 1 .. Len(s) : i \in 0 .. Len(s) /\ i - 1 \in 0 .. Len(s)
  BY <1>1
<1>17. 0 \in 0 .. Len(s)
  BY <1>1
<1>. QED BY <1>10, <1>11, <1>15, <1>16, <1>17

LEMMA OffRule ==
  ASSUME NEW s \in Streams
  PROVE  /\ \A i \in 0 .. Len(s) : Payload(s, i) \in Seq(Bytes) /\ Off(s, i) \in Nat
         /\ Off(s, 0) = 0
         /\ \A i \in 1 .. Len(s) : Off(s, i) = Off(s, i - 1) + DataLen(s, i)
<1>1. Len(s) \in Nat
  BY StreamTyped
<1>2. \A i \in 0 .. Len(s) : Payload(s, i) \in Seq(Bytes)
  BY PayloadRule
<1>3. \A i \in 0 .. Len(s) : Off(s, i) \in Nat
  BY <1>2 DEF Off
<1>4. Off(s, 0) = 0
  BY PayloadRule DEF Off
<1>5. ASSUME NEW i \in 1 .. Len(s) PROVE Off(s, i) = Off(s, i - 1) + DataLen(s, i)
  <2>. DEFINE x == Payload(s, i - 1)
              y == Data(s, i)
  <2>1. x \in Seq(Bytes) /\ y \in Seq(Bytes) /\ Len(y) = DataLen(s, i)
    BY <1>1, <1>2, DataTyped
  <2>2. Payload(s, i) = x \o y
    BY PayloadRule
  <2>3. Len(x \o y) = Len(x) + Len(y)
    <3>. HIDE DEF x, y
    <3>. QED BY <2>1
  <2>. QED BY <2>1, <2>2, <2>3 DEF Off
<1>. QED BY <1>2, <1>3, <1>4, <1>5

LEMMA PayloadGrows ==
  ASSUME NEW s \in Streams, NEW i \in 0 .. Len(s), NEW j \in 0 .. Len(s), i <= j
  PROVE  Off(s, i) <= Off(s, j) /\ \A k \in 1 .. Off(s, i) : Payload(s, j)[k] = Payload(s, i)[k]
<1>. DEFINE Grown(m) == /\ Off(s, i) <= Off(s, m)
                        /\ \A k \in 1 .. Off(s, i) : Payload(s, m)[k] = Payload(s, i)[k]
            T == {m \in Nat : i + m <= Len(s) => Grown(i + m)}
<1>1. Len(s) \in Nat /\ i \in Nat /\ j \in Nat /\ Off(s, i) \in Nat
  BY StreamTyped, OffRule
<1>2. 0 \in T
  <2>1. i + 0 = i
    BY <1>1
  <2>. QED BY <1>1, <2>1
<1>3. ASSUME NEW m \in Nat, m \in T PROVE m + 1 \in T
  <2>1. SUFFICES ASSUME i + (m + 1) <= Len(s) PROVE Grown(i + (m + 1))
    OBVIOUS
  <2>2. PICK h \in 1 .. Len(s) : h = i + (m + 1) /\ h - 1 = i + m /\ h - 1 \in 0 .. Len(s)
    BY <1>1, <2>1
  <2>3. Grown(h - 1)
    BY <1>1, <1>3, <2>2
  <2>. DEFINE x == Payload(s, h - 1)
              y == Data(s, h)
  <2>4. x \in Seq(Bytes) /\ y \in Seq(Bytes) /\ Len(y) \in Nat /\ Len(x) \in Nat
    BY <2>2, OffRule, DataTyped DEF Off
  <2>5. Payload(s, h) = x \o y
    BY PayloadRule
  <2>6. Len(x \o y) = Len(x) + Len(y) /\ \A k \in 1 .. Len(x) : (x \o y)[k] = x[k]
    <3>. HIDE DEF x, y
    <3>. QED BY <2>4
  <2>7. Off(s, i) <= Len(x) /\ \A k \in 1 .. Off(s, i) : x[k] = Payload(s, i)[k]
    BY <2>3 DEF Off
  <2>8. Grown(h)
    <3>1. Off(s, h) = Len(x) + Len(y)
      BY <2>5, <2>6 DEF Off
    <3>2. Off(s, i) <= Off(s, h)
      <4>. HIDE DEF x, y
      <4>. QED BY <1>1, <2>4, <2>7, <3>1
    <3>3. ASSUME NEW k \in 1 .. Off(s, i) PROVE Payload(s, h)[k] = Payload(s, i)[k]
      <4>1. k \in 1 .. Len(x)
        <5>. HIDE DEF x, y
        <5>. QED BY <1>1, <2>4, <2>7
      <4>2. (x \o y)[k] = x[k]
        BY <2>6, <4>1
      <4>. QED BY <2>5, <2>7, <4>2
    <3>. QED BY <3>2, <3>3
  <2>. HIDE DEF Grown
  <2>. QED BY <2>2, <2>8
<1>4. Nat \subseteq T
  <2>. HIDE DEF T
  <2>. QED BY <1>2, <1>3, NumberInduction
<1>5. j - i \in Nat /\ i + (j - i) = j /\ j <= Len(s)
  BY <1>1
<1>6. Grown(j)
  <2>1. j - i \in T
    BY <1>4, <1>5
  <2>. HIDE DEF Grown
  <2>. QED BY <1>5, <2>1
<1>. QED BY <1>6

\* The bytes of the messages of the whole stream.
All(s) == Payload(s, Len(s))

LEMMA AllTyped ==
  ASSUME NEW s \in Streams
  PROVE  /\ All(s) \in Seq(Bytes) /\ Len(All(s)) \in Nat /\ Len(All(s)) = Off(s, Len(s))
         /\ \A i \in 0 .. Len(s) : Off(s, i) \in Nat /\ Off(s, i) <= Len(All(s))
<1>1. Len(s) \in Nat /\ Len(s) \in 0 .. Len(s)
  BY StreamTyped
<1>2. All(s) \in Seq(Bytes) /\ Len(All(s)) = Off(s, Len(s))
  BY <1>1, OffRule DEF All, Off
<1>3. ASSUME NEW i \in 0 .. Len(s) PROVE Off(s, i) \in Nat /\ Off(s, i) <= Off(s, Len(s))
  <2>1. i <= Len(s)
    BY <1>1
  <2>. QED BY <1>1, <2>1, OffRule, PayloadGrows
<1>4. Off(s, Len(s)) \in Nat
  BY <1>1, OffRule
<1>. QED BY <1>2, <1>3, <1>4

LEMMA DataAt ==
  ASSUME NEW s \in Streams, NEW i \in 1 .. Len(s)
  PROVE  /\ Off(s, i - 1) \in Nat /\ Off(s, i) \in Nat
         /\ Off(s, i) = Off(s, i - 1) + DataLen(s, i) /\ Off(s, i) <= Len(All(s))
         /\ \A k \in 1 .. DataLen(s, i) : All(s)[Off(s, i - 1) + k] = <<i, k - 1>>
<1>1. Len(s) \in Nat /\ i \in 0 .. Len(s) /\ i - 1 \in 0 .. Len(s) /\ Len(s) \in 0 .. Len(s) /\ i <= Len(s)
  BY StreamTyped
<1>2. Off(s, i - 1) \in Nat /\ Off(s, i) \in Nat /\ Off(s, i) = Off(s, i - 1) + DataLen(s, i)
  BY <1>1, OffRule
<1>3. Off(s, i) <= Len(All(s))
  BY <1>1, AllTyped
<1>4. ASSUME NEW k \in 1 .. DataLen(s, i) PROVE All(s)[Off(s, i - 1) + k] = <<i, k - 1>>
  <2>. DEFINE x == Payload(s, i - 1)
              y == Data(s, i)
  <2>1. x \in Seq(Bytes) /\ y \in Seq(Bytes) /\ Len(y) = DataLen(s, i) /\ Len(x) = Off(s, i - 1)
    BY <1>1, OffRule, DataTyped DEF Off
  <2>2. Payload(s, i) = x \o y
    BY PayloadRule
  <2>3. DataLen(s, i) \in Nat /\ Off(s, i - 1) + k \in 1 .. Off(s, i)
    BY <1>2, DataTyped
  <2>4. \A n \in 1 .. Len(y) : (x \o y)[Len(x) + n] = y[n]
    <3>. HIDE DEF x, y
    <3>. QED BY <2>1
  <2>5. (x \o y)[Off(s, i - 1) + k] = y[k]
    BY <2>1, <2>4
  <2>6. y[k] = <<i, k - 1>>
    BY DataTyped
  <2>7. All(s)[Off(s, i - 1) + k] = Payload(s, i)[Off(s, i - 1) + k]
    BY <1>1, <2>3, PayloadGrows DEF All
  <2>. QED BY <2>2, <2>5, <2>6, <2>7
<1>. QED BY <1>2, <1>3, <1>4

-----------------------------------------------------------------------------
(* Parts of a sequence.                                                    *)

LEMMA PartTyped ==
  ASSUME NEW S, NEW t \in Seq(S), NEW a \in Nat, NEW b \in Nat, a <= b, b <= Len(t)
  PROVE  /\ SubSeq(t, a + 1, b) \in Seq(S) /\ Len(SubSeq(t, a + 1, b)) = b - a
         /\ \A k \in 1 .. b - a : SubSeq(t, a + 1, b)[k] = t[a + k]
<1>1. Len(t) \in Nat /\ \A k \in 1 .. b - a : a + k \in 1 .. Len(t)
  OBVIOUS
<1>2. SubSeq(t, a + 1, b) \in Seq(S)
  OBVIOUS
<1>3. Len(SubSeq(t, a + 1, b)) = b - a
  BY <1>1
<1>. QED BY <1>1, <1>2, <1>3

LEMMA SameSeq ==
  ASSUME NEW S, NEW s \in Seq(S), NEW t \in Seq(S), Len(s) = Len(t),
         \A k \in 1 .. Len(s) : s[k] = t[k]
  PROVE  s = t
  OBVIOUS

LEMMA PartJoin ==
  ASSUME NEW S, NEW t \in Seq(S), NEW a \in Nat, NEW b \in Nat, NEW c \in Nat,
         a <= b, b <= c, c <= Len(t)
  PROVE  SubSeq(t, a + 1, b) \o SubSeq(t, b + 1, c) = SubSeq(t, a + 1, c)
<1>. DEFINE x == SubSeq(t, a + 1, b)
            y == SubSeq(t, b + 1, c)
            z == SubSeq(t, a + 1, c)
<1>0. Len(t) \in Nat /\ b <= Len(t) /\ a <= c
  OBVIOUS
<1>1. x \in Seq(S) /\ Len(x) = b - a /\ \A k \in 1 .. b - a : x[k] = t[a + k]
  BY <1>0, PartTyped
<1>2. y \in Seq(S) /\ Len(y) = c - b /\ \A k \in 1 .. c - b : y[k] = t[b + k]
  BY <1>0, PartTyped
<1>3. z \in Seq(S) /\ Len(z) = c - a /\ \A k \in 1 .. c - a : z[k] = t[a + k]
  BY <1>0, PartTyped
<1>. HIDE DEF x, y, z
<1>. DEFINE w == x \o y
<1>4a. x \in Seq(S) /\ y \in Seq(S)
  BY <1>1, <1>2
<1>4. w \in Seq(S) /\ Len(w) = Len(x) + Len(y)
  BY <1>4a
<1>5a. \A k \in 1 .. Len(x) : w[k] = x[k]
  BY <1>4a
<1>5. \A k \in 1 .. Len(y) : w[Len(x) + k] = y[k]
  BY <1>4a
<1>. HIDE DEF w
<1>6. Len(w) = c - a
  BY <1>1, <1>2, <1>4
<1>7. ASSUME NEW k \in 1 .. Len(w) PROVE w[k] = z[k]
  <2>1. k \in Nat /\ k \in 1 .. c - a
    BY <1>6
  <2>2. z[k] = t[a + k]
    BY <1>3, <2>1
  <2>3. CASE k <= b - a
    <3>1. k \in 1 .. Len(x) /\ k \in 1 .. b - a
      BY <1>1, <2>1, <2>3
    <3>. QED BY <1>1, <1>5a, <2>2, <3>1
  <2>4. CASE k > b - a
    <3>1. PICK n \in 1 .. c - b : n = k - (b - a) /\ Len(x) + n = k /\ b + n = a + k
      BY <1>1, <2>1, <2>4
    <3>2. w[k] = y[n]
      BY <1>2, <1>5, <3>1
    <3>3. y[n] = t[b + n]
      BY <1>2
    <3>. QED BY <2>2, <3>1, <3>2, <3>3
  <2>. QED BY <2>1, <2>3, <2>4
<1>8. w = z
  BY <1>3, <1>4, <1>6, <1>7, SameSeq
<1>. QED BY <1>8 DEF w, x, y, z

LEMMA PartOfPart ==
  ASSUME NEW S, NEW t \in Seq(S), NEW a \in Nat, NEW b \in Nat, NEW m \in Nat, NEW n \in Nat,
         a <= b, b <= Len(t), m <= n, n <= b - a
  PROVE  SubSeq(SubSeq(t, a + 1, b), m + 1, n) = SubSeq(t, a + m + 1, a + n)
<1>. DEFINE x == SubSeq(t, a + 1, b)
            y == SubSeq(x, m + 1, n)
            z == SubSeq(t, (a + m) + 1, a + n)
<1>0. Len(t) \in Nat /\ a + m \in Nat /\ a + n \in Nat /\ a + m <= a + n /\ a + n <= Len(t)
  OBVIOUS
<1>1. x \in Seq(S) /\ Len(x) = b - a /\ \A k \in 1 .. b - a : x[k] = t[a + k]
  BY PartTyped
<1>2. z \in Seq(S) /\ Len(z) = n - m /\ \A k \in 1 .. n - m : z[k] = t[a + m + k]
  <2>. DEFINE am == a + m
              an == a + n
  <2>1. am \in Nat /\ an \in Nat /\ am <= an /\ an <= Len(t) /\ an - am = n - m
    BY <1>0
  <2>2. SubSeq(t, am + 1, an) \in Seq(S) /\ Len(SubSeq(t, am + 1, an)) = an - am
        /\ \A k \in 1 .. an - am : SubSeq(t, am + 1, an)[k] = t[am + k]
    <3>. HIDE DEF am, an
    <3>. QED BY <2>1, PartTyped
  <2>. QED BY <2>1, <2>2
<1>. HIDE DEF x
<1>3. n <= Len(x)
  BY <1>1
<1>4. y \in Seq(S) /\ Len(y) = n - m /\ \A k \in 1 .. n - m : y[k] = x[m + k]
  BY <1>1, <1>3, PartTyped
<1>. HIDE DEF y, z
<1>5. ASSUME NEW k \in 1 .. Len(y) PROVE y[k] = z[k]
  <2>1. k \in 1 .. n - m /\ m + k \in 1 .. b - a /\ a + (m + k) = a + m + k
    BY <1>4
  <2>2. x[m + k] = t[a + (m + k)]
    BY <1>1, <2>1
  <2>. QED BY <1>2, <1>4, <2>1, <2>2
<1>6. y = z
  BY <1>2, <1>4, <1>5, SameSeq
<1>. QED BY <1>6 DEF x, y, z

LEMMA PrefixOf ==
  ASSUME NEW S, NEW t \in Seq(S), NEW a \in Nat, NEW b \in Nat, a <= b, b <= Len(t)
  PROVE  IsPrefix(SubSeq(t, 1, a), SubSeq(t, 1, b))
<1>. DEFINE x == SubSeq(t, 0 + 1, a)
            y == SubSeq(t, 0 + 1, b)
<1>0. Len(t) \in Nat /\ a <= Len(t)
  OBVIOUS
<1>1. x \in Seq(S) /\ Len(x) = a - 0
  BY <1>0, PartTyped
<1>2. y \in Seq(S) /\ Len(y) = b - 0
  BY <1>0, PartTyped
<1>3. SubSeq(y, 0 + 1, a) = SubSeq(t, 0 + 0 + 1, 0 + a)
  BY <1>0, PartOfPart
<1>4. SubSeq(x, 0 + 1, a) = SubSeq(t, 0 + 0 + 1, 0 + a)
  BY <1>0, PartOfPart
<1>5. 0 + 1 = 1 /\ a - 0 = a /\ b - 0 = b
  OBVIOUS
<1>6. Len(x) <= Len(y) /\ SubSeq(x, 1, Len(x)) = SubSeq(y, 1, Len(x))
  <2>. HIDE DEF x, y
  <2>. QED BY <1>1, <1>2, <1>3, <1>4, <1>5
<1>. QED BY <1>5, <1>6 DEF IsPrefix

LEMMA PayloadSpan ==
  ASSUME NEW s \in Streams, NEW i \in 0 .. Len(s)
  PROVE  Payload(s, i) = Span(s, 1, Off(s, i))
<1>. DEFINE x == Payload(s, i)
            y == SubSeq(All(s), 0 + 1, Off(s, i))
<1>1. Len(s) \in Nat /\ Len(s) \in 0 .. Len(s) /\ i <= Len(s)
  BY StreamTyped
<1>2. x \in Seq(Bytes) /\ Len(x) = Off(s, i)
  BY OffRule DEF Off
<1>3. All(s) \in Seq(Bytes) /\ Off(s, i) \in Nat /\ Off(s, i) <= Len(All(s))
  BY AllTyped
<1>4. \A k \in 1 .. Off(s, i) : All(s)[k] = x[k]
  BY <1>1, PayloadGrows DEF All
<1>5. y \in Seq(Bytes) /\ Len(y) = Off(s, i) - 0 /\ \A k \in 1 .. Off(s, i) - 0 : y[k] = All(s)[0 + k]
  BY <1>3, PartTyped
<1>. HIDE DEF x, y
<1>6. \A k \in 1 .. Len(x) : x[k] = y[k]
  BY <1>2, <1>3, <1>4, <1>5
<1>7. x = y
  BY <1>2, <1>3, <1>5, <1>6, SameSeq
<1>. QED BY <1>7 DEF x, y, Span, All

-----------------------------------------------------------------------------
(* The socket.                                                             *)

LEMMA MaxIn ==
  ASSUME NEW a \in Nat, NEW b \in Nat, NEW E, E \subseteq a .. b, E # {}
  PROVE  Max(E) \in E /\ \A e \in E : e <= Max(E)
<1>. DEFINE F == {e + 1 : e \in E}
<1>1. \A e \in E : e \in Nat /\ e <= b
  OBVIOUS
<1>2. b + 1 \in Nat /\ F \in SUBSET (1 .. b + 1) /\ F # {}
  <2>1. ASSUME NEW e \in E PROVE e + 1 \in 1 .. b + 1
    BY <1>1
  <2>2. PICK e \in E : TRUE
    OBVIOUS
  <2>3. e + 1 \in F
    OBVIOUS
  <2>. QED BY <2>1, <2>3
<1>3. \E m \in F : \A i \in F : i <= m
  <2>. HIDE DEF F
  <2>1. PICK n \in Nat : n = b + 1
    BY <1>2
  <2>2. F \in SUBSET (1 .. n)
    BY <1>2, <2>1
  <2>. QED BY <1>2, <2>2, GreatestNumber
<1>4. PICK m \in F : \A i \in F : i <= m
  BY <1>3
<1>5. PICK x \in E : m = x + 1
  OBVIOUS
<1>6. ASSUME NEW e \in E PROVE x >= e
  <2>1. e + 1 \in F
    OBVIOUS
  <2>2. e + 1 <= m
    BY <1>4, <2>1
  <2>. QED BY <1>1, <1>5, <2>2
<1>7. Max(E) \in E /\ \A e \in E : Max(E) >= e
  <2>. HIDE DEF F
  <2>. QED BY <1>6 DEF Max
<1>. QED BY <1>1, <1>7

LEMMA MinIn ==
  ASSUME NEW E, E \subseteq Nat, E # {}
  PROVE  Min(E) \in E /\ \A e \in E : Min(E) <= e
<1>1. PICK m \in E : \A e \in E : m <= e
  BY LeastNumber
<1>. QED BY <1>1 DEF Min

LEMMA MinOfTwo ==
  ASSUME NEW a \in Nat, NEW b \in Nat
  PROVE  /\ Min({a, b}) \in Nat /\ Min({a, b}) <= a /\ Min({a, b}) <= b
         /\ Min({a, b}) = a \/ Min({a, b}) = b
<1>. DEFINE E == {a, b}
<1>1. E \subseteq Nat /\ E # {} /\ a \in E /\ b \in E /\ \A e \in E : e = a \/ e = b
  OBVIOUS
<1>2. Min(E) \in E /\ \A e \in E : Min(E) <= e
  <2>. HIDE DEF E
  <2>. QED BY <1>1, MinIn
<1>. QED BY <1>1, <1>2

LEMMA EndsTyped ==
  ASSUME Typed
  PROVE  /\ Total(stream) \in Nat /\ pos \in Nat
         /\ Arrived \in ends /\ Arrived \in Nat /\ pos <= Arrived /\ Arrived <= Total(stream)
         /\ \A e \in ends : e \in Nat /\ pos <= e /\ e <= Arrived
<1>1. stream \in Streams /\ pos \in Nat /\ ends \subseteq pos .. Total(stream) /\ ends # {}
  BY DEF Typed, SocketTyped
<1>2. Len(stream) \in Nat /\ Len(stream) + 1 \in 1 .. Len(stream) + 1
  BY <1>1, StreamTyped
<1>3. Total(stream) \in Nat
  BY <1>1, <1>2, StartAt DEF Total
<1>4. PICK b \in Nat : b = Total(stream)
  BY <1>3
<1>5. ends \subseteq pos .. b
  BY <1>1, <1>4
<1>6. Max(ends) \in ends /\ \A e \in ends : e <= Max(ends)
  BY <1>1, <1>5, MaxIn
<1>7. \A e \in ends : e \in Nat /\ pos <= e /\ e <= b
  BY <1>1, <1>5
<1>. QED BY <1>1, <1>4, <1>6, <1>7 DEF Arrived

\* A read takes at least a byte, no more than it asks for, and under TLS nothing
\* beyond the end of the record.
LEMMA UptoTyped ==
  ASSUME Typed, Some, NEW n \in Nat, n > 0
  PROVE  /\ Upto(n) \in 1 .. n /\ pos + Upto(n) \in Nat
         /\ Upto(n) < n => pos + Upto(n) \in ends
         /\ \A e \in ends : tls /\ e > pos => pos + Upto(n) <= e
         /\ pos + Upto(n) <= Arrived
<1>0. Typed
  OBVIOUS
<1>1. /\ pos \in Nat /\ Arrived \in ends /\ Arrived \in Nat /\ Arrived > pos
      /\ \A e \in ends : e \in Nat /\ pos <= e /\ e <= Arrived
  BY <1>0, EndsTyped DEF Some
<1>. DEFINE E == {e \in ends : e > pos}
<1>2. E \subseteq Nat /\ E # {}
  BY <1>1
<1>3. Min(E) \in E /\ \A e \in E : Min(E) <= e
  <2>. HIDE DEF E
  <2>. QED BY <1>2, MinIn
<1>. DEFINE x == IF tls THEN Min(E) ELSE Arrived
<1>4. x \in ends /\ x \in Nat /\ x > pos /\ x <= Arrived /\ \A e \in ends : tls /\ e > pos => x <= e
  BY <1>1, <1>3
<1>5. Upto(n) = Min({n, x - pos})
  BY DEF Upto
<1>. HIDE DEF x, E
<1>6. PICK d \in Nat : d = x - pos /\ d > 0
  BY <1>1, <1>4
<1>7. PICK m \in Nat : m = Min({n, d}) /\ m <= n /\ m <= d /\ (m = n \/ m = d)
  BY MinOfTwo
<1>8. Upto(n) = m
  BY <1>5, <1>6, <1>7
<1>9. m \in 1 .. n /\ pos + m \in Nat /\ pos + m <= x
  BY <1>1, <1>4, <1>6, <1>7
<1>10. m < n => pos + m = x
  BY <1>1, <1>4, <1>6, <1>7
<1>11. pos + m <= Arrived
  BY <1>1, <1>4, <1>9
<1>12. ASSUME NEW e \in ends, tls, e > pos PROVE pos + m <= e
  <2>1. x <= e /\ e \in Nat
    BY <1>1, <1>4, <1>12
  <2>. QED BY <1>1, <1>4, <1>9, <2>1
<1>. QED BY <1>4, <1>8, <1>9, <1>10, <1>11, <1>12

LEMMA TakeTyped ==
  ASSUME Typed, NEW n \in Nat, pos + n <= Arrived, TakeBytes(n), stream' = stream
  PROVE  /\ pos' = pos + n /\ pos' \in Nat /\ ends' # {} /\ ends' \subseteq pos' .. Total(stream')
         /\ ends' \subseteq ends /\ Arrived \in ends'
<1>0. Typed /\ stream' = stream
  OBVIOUS
<1>1. /\ pos \in Nat /\ Arrived \in ends /\ Arrived \in Nat /\ Total(stream) \in Nat
      /\ Arrived <= Total(stream) /\ \A e \in ends : e \in Nat /\ pos <= e /\ e <= Arrived
  BY <1>0, EndsTyped
<1>2. pos' = pos + n /\ ends' = {e \in ends : e >= pos + n}
  BY DEF TakeBytes
<1>3. Arrived \in ends' /\ ends' \subseteq ends
  BY <1>1, <1>2
<1>4. ASSUME NEW e \in ends' PROVE e \in pos' .. Total(stream)
  <2>1. e \in ends /\ e >= pos + n
    BY <1>2
  <2>2. e \in Nat /\ e <= Arrived
    BY <1>1, <2>1
  <2>3. e <= Total(stream)
    BY <1>1, <2>2
  <2>. QED BY <1>1, <1>2, <2>1, <2>2, <2>3
<1>5. PICK b : b = Total(stream)
  OBVIOUS
<1>6. Total(stream') = b
  BY <1>0, <1>5
<1>7. ends' # {} /\ ends' \subseteq pos' .. b
  BY <1>3, <1>4, <1>5
<1>8. pos' \in Nat
  BY <1>1, <1>2
<1>. QED BY <1>2, <1>3, <1>6, <1>7, <1>8

-----------------------------------------------------------------------------
(* The decoder's context.                                                  *)

Cleared(c) == [st |-> "HEADER", nRead |-> 0, op |-> "INVALID", frame |-> 0, nPayload |-> 0,
               carry |-> <<>>, ready |-> <<>>, cont |-> c]
Conts == {"INVALID", "TEXT", "BINARY"}

LEMMA ContextIs ==
  ASSUME NEW w \in Context
  PROVE  w = [st |-> w.st, nRead |-> w.nRead, op |-> w.op, frame |-> w.frame,
              nPayload |-> w.nPayload, carry |-> w.carry, ready |-> w.ready, cont |-> w.cont]
  BY DEF Context

LEMMA Cleanups ==
  ASSUME NEW w \in Context
  PROVE  /\ CleanupComplete(w) = Cleared("INVALID") /\ CleanupForContinuation(w) = Cleared(w.cont)
         /\ w.cont \in Conts
<1>1. Basics(w) = Cleared(w.cont)
  BY DEF Basics, Cleared
<1>2. CleanupComplete(w) = [Cleared(w.cont) EXCEPT !.cont = "INVALID"]
  BY <1>1 DEF CleanupComplete
<1>3. [Cleared(w.cont) EXCEPT !.cont = "INVALID"] = Cleared("INVALID")
  BY DEF Cleared
<1>. QED BY <1>1, <1>2, <1>3 DEF CleanupForContinuation, Context, Conts

LEMMA FrameCompleteIs ==
  ASSUME NEW w \in Context
  PROVE  FrameComplete(w) = IF stream[w.frame].fin /\ ~Control(stream[w.frame]) THEN Cleared("INVALID")
                            ELSE Cleared(w.cont)
  BY Cleanups DEF FrameComplete

LEMMA ClearedTyped ==
  ASSUME SocketTyped, stream' = stream, NEW c \in Conts, ws' = Cleared(c),
         gone' = "no" => pc' # "rest"
  PROVE  ContextTyped'
<1>1. Len(stream) \in Nat /\ stream' = stream /\ ws' = Cleared(c) /\ (gone' = "no" => pc' # "rest")
  BY StreamTyped DEF SocketTyped
<1>2. Cleared(c) \in Context
  BY DEF Cleared, Context, Conts, Ops
<1>3. /\ ws'.st = "HEADER" /\ ws'.frame = 0 /\ ws'.nPayload = 0 /\ ws'.carry = <<>> /\ ws'.ready = <<>>
  BY <1>1 DEF Cleared
<1>4. ws' \in Context /\ ws'.frame <= Len(stream')
  BY <1>1, <1>2, <1>3
<1>. QED BY <1>1, <1>3, <1>4 DEF ContextTyped, AtRest, InRest, InFrame, IsReady

LEMMA ContextSame ==
  ASSUME ContextTyped, stream' = stream, ws' = ws,
         gone' = "no" /\ pc' = "rest" => gone = "no" /\ pc = "rest",
         ws.st = "AVAILABLE" => pc' \in {"read", "loop"}
  PROVE  ContextTyped'
<1>1. AtRest' /\ InFrame'
  BY DEF ContextTyped, AtRest, InFrame, Current, WritePos
<1>2. InRest'
  BY DEF ContextTyped, InRest, Current
<1>3. IsReady'
  BY DEF ContextTyped, IsReady
<1>. QED BY <1>1, <1>2, <1>3 DEF ContextTyped

LEMMA TypedInit == Init => Typed
<1>. SUFFICES ASSUME Init PROVE Typed
  OBVIOUS
<1>1. stream \in Streams /\ tls \in BOOLEAN /\ ends = {0} /\ hup = FALSE /\ pos = 0
      /\ pc = "select" /\ todo = <<>> /\ got = <<>> /\ gone = "no" /\ ws = Cleared("INVALID")
  BY DEF Init, Cleared
<1>2. Len(stream) \in Nat /\ Len(stream) + 1 \in 1 .. Len(stream) + 1
  BY <1>1, StreamTyped
<1>3. Total(stream) \in Nat
  BY <1>1, <1>2, StartAt DEF Total
<1>4. SocketTyped
  <2>1. {0} \subseteq 0 .. Total(stream)
    BY <1>3
  <2>. QED BY <1>1, <2>1 DEF SocketTyped
<1>5. ThreadTyped
  BY <1>1 DEF ThreadTyped
<1>6. Cleared("INVALID") \in Context
  BY DEF Cleared, Context, Ops
<1>7. /\ ws.st = "HEADER" /\ ws.frame = 0 /\ ws.nPayload = 0 /\ ws.carry = <<>> /\ ws.ready = <<>>
  BY <1>1 DEF Cleared
<1>8. ContextTyped
  BY <1>1, <1>2, <1>6, <1>7 DEF ContextTyped, AtRest, InRest, InFrame, IsReady
<1>. QED BY <1>4, <1>5, <1>8 DEF Typed

LEMMA ArriveTyped == Typed /\ Arrive => Typed'
<1>. SUFFICES ASSUME Typed, Arrive PROVE Typed'
  OBVIOUS
<1>1. PICK e \in Cuts[stream][tls] \cup {Total(stream)} :
        e > Arrived /\ ends' = IF tls THEN ends \cup {e} ELSE {e}
  BY DEF Arrive
<1>2. UNCHANGED <<stream, tls, hup, pos, ws, pc, todo, got, gone>>
  BY DEF Arrive
<1>3. /\ Total(stream) \in Nat /\ pos \in Nat /\ Arrived \in Nat /\ pos <= Arrived
      /\ stream \in Streams /\ tls \in BOOLEAN /\ ends \subseteq pos .. Total(stream)
  BY EndsTyped DEF Typed, SocketTyped
<1>4. e \in 0 .. Total(stream)
  BY <1>1, <1>3, CutsAssumption
<1>5. e \in pos .. Total(stream)
  BY <1>1, <1>3, <1>4
<1>6. SocketTyped'
  BY <1>1, <1>2, <1>3, <1>5 DEF Typed, SocketTyped
<1>7. ThreadTyped'
  BY <1>2 DEF Typed, ThreadTyped
<1>8. ContextTyped'
  BY <1>2, ContextSame DEF Typed, ContextTyped, IsReady
<1>. QED BY <1>6, <1>7, <1>8 DEF Typed

\* A message is never empty.
LEMMA MessageTyped ==
  ASSUME ProcessMessage
  PROVE  todo' \in Seq(Nat \ {0}) /\ todo' # <<>> /\ pc' = "read"
  BY MessagesAssumption DEF ProcessMessage

LEMMA WaitsTyped ==
  ASSUME Typed, HangUp \/ CheckFds \/ NextMessage \/ Waited \/ Timeout
  PROVE  Typed'
<1>1. UNCHANGED <<stream, tls, ends, pos, ws, got>> /\ hup' \in BOOLEAN
  BY DEF HangUp, CheckFds, NextMessage, Waited, Timeout, wire, Typed, SocketTyped
<1>2. SocketTyped'
  BY <1>1 DEF Typed, SocketTyped
<1>3. ws.st = "AVAILABLE" => ws.ready # <<>> /\ pc \in {"read", "loop"}
  BY DEF Typed, ContextTyped, IsReady
<1>4. ThreadTyped'
  <2>1. CASE HangUp
    BY <2>1 DEF HangUp, Typed, ThreadTyped
  <2>2. CASE CheckFds
    BY <2>2, <1>1, MessageTyped DEF CheckFds, Typed, ThreadTyped
  <2>3. CASE NextMessage
    BY <2>3, <1>1, MessageTyped DEF NextMessage, Typed, ThreadTyped
  <2>4. CASE Waited
    BY <2>4 DEF Waited, Typed, ThreadTyped
  <2>5. CASE Timeout
    BY <2>5 DEF Timeout, Typed, ThreadTyped
  <2>. QED BY <2>1, <2>2, <2>3, <2>4, <2>5
<1>5. /\ gone' = "no" /\ pc' = "rest" => gone = "no" /\ pc = "rest"
      /\ ws.st = "AVAILABLE" => pc' \in {"read", "loop"}
  <2>1. CASE HangUp
    BY <2>1, <1>3 DEF HangUp
  <2>2. CASE CheckFds
    BY <2>2, <1>3, MessageTyped DEF CheckFds
  <2>3. CASE NextMessage
    BY <2>3, <1>3, MessageTyped DEF NextMessage, HasDataInBuffer
  <2>4. CASE Waited
    BY <2>4, <1>3 DEF Waited
  <2>5. CASE Timeout
    BY <2>5, <1>3 DEF Timeout
  <2>. QED BY <2>1, <2>2, <2>3, <2>4, <2>5
<1>6. ContextTyped'
  BY <1>1, <1>5, ContextSame DEF Typed
<1>. QED BY <1>2, <1>4, <1>6 DEF Typed

\* Two fields of the context change.
LEMMA SetReadFrame ==
  ASSUME NEW w \in Context, NEW a \in 0 .. 14, NEW b \in Nat
  PROVE  /\ [w EXCEPT !.nRead = a, !.frame = b] =
          [st |-> w.st, nRead |-> a, op |-> w.op, frame |-> b, nPayload |-> w.nPayload,
           carry |-> w.carry, ready |-> w.ready, cont |-> w.cont]
         /\ [w EXCEPT !.nRead = a, !.frame = b] \in Context
<1>. DEFINE x == [w EXCEPT !.nRead = a]
            y == [x EXCEPT !.frame = b]
<1>1. [w EXCEPT !.nRead = a, !.frame = b] = y
  OBVIOUS
<1>2. x \in Context
  BY DEF Context, Conts
<1>3. x.st = w.st /\ x.op = w.op /\ x.frame = w.frame /\ x.nPayload = w.nPayload /\ x.carry = w.carry /\ x.ready = w.ready /\ x.cont = w.cont
      /\ x.nRead = a
  BY DEF Context
<1>. HIDE DEF x
<1>4. y \in Context
  BY <1>2 DEF Context, Conts
<1>5. y.st = x.st /\ y.nRead = x.nRead /\ y.op = x.op /\ y.nPayload = x.nPayload /\ y.carry = x.carry /\ y.ready = x.ready /\ y.cont = x.cont
      /\ y.frame = b
  BY <1>2 DEF Context
<1>. HIDE DEF y
<1>6. y = [st |-> y.st, nRead |-> y.nRead, op |-> y.op, frame |-> y.frame, nPayload |-> y.nPayload,
           carry |-> y.carry, ready |-> y.ready, cont |-> y.cont]
  BY <1>4, ContextIs
<1>. QED BY <1>1, <1>3, <1>4, <1>5, <1>6

LEMMA SetOpCont ==
  ASSUME NEW w \in Context, NEW a \in Ops, NEW b \in Conts
  PROVE  /\ [w EXCEPT !.op = a, !.cont = b] =
          [st |-> w.st, nRead |-> w.nRead, op |-> a, frame |-> w.frame, nPayload |-> w.nPayload,
           carry |-> w.carry, ready |-> w.ready, cont |-> b]
         /\ [w EXCEPT !.op = a, !.cont = b] \in Context
<1>. DEFINE x == [w EXCEPT !.op = a]
            y == [x EXCEPT !.cont = b]
<1>1. [w EXCEPT !.op = a, !.cont = b] = y
  OBVIOUS
<1>2. x \in Context
  BY DEF Context, Conts
<1>3. x.st = w.st /\ x.nRead = w.nRead /\ x.frame = w.frame /\ x.nPayload = w.nPayload /\ x.carry = w.carry /\ x.ready = w.ready /\ x.cont = w.cont
      /\ x.op = a
  BY DEF Context
<1>. HIDE DEF x
<1>4. y \in Context
  BY <1>2 DEF Context, Conts
<1>5. y.st = x.st /\ y.nRead = x.nRead /\ y.op = x.op /\ y.frame = x.frame /\ y.nPayload = x.nPayload /\ y.carry = x.carry /\ y.ready = x.ready
      /\ y.cont = b
  BY <1>2 DEF Context
<1>. HIDE DEF y
<1>6. y = [st |-> y.st, nRead |-> y.nRead, op |-> y.op, frame |-> y.frame, nPayload |-> y.nPayload,
           carry |-> y.carry, ready |-> y.ready, cont |-> y.cont]
  BY <1>4, ContextIs
<1>. QED BY <1>1, <1>3, <1>4, <1>5, <1>6

LEMMA SetStPayload ==
  ASSUME NEW w \in Context, NEW a \in {"HEADER", "NEEDED", "CLOSING", "AVAILABLE"}, NEW b \in Nat
  PROVE  /\ [w EXCEPT !.st = a, !.nPayload = b] =
          [st |-> a, nRead |-> w.nRead, op |-> w.op, frame |-> w.frame, nPayload |-> b,
           carry |-> w.carry, ready |-> w.ready, cont |-> w.cont]
         /\ [w EXCEPT !.st = a, !.nPayload = b] \in Context
<1>. DEFINE x == [w EXCEPT !.st = a]
            y == [x EXCEPT !.nPayload = b]
<1>1. [w EXCEPT !.st = a, !.nPayload = b] = y
  OBVIOUS
<1>2. x \in Context
  BY DEF Context, Conts
<1>3. x.nRead = w.nRead /\ x.op = w.op /\ x.frame = w.frame /\ x.nPayload = w.nPayload /\ x.carry = w.carry /\ x.ready = w.ready /\ x.cont = w.cont
      /\ x.st = a
  BY DEF Context
<1>. HIDE DEF x
<1>4. y \in Context
  BY <1>2 DEF Context, Conts
<1>5. y.st = x.st /\ y.nRead = x.nRead /\ y.op = x.op /\ y.frame = x.frame /\ y.carry = x.carry /\ y.ready = x.ready /\ y.cont = x.cont
      /\ y.nPayload = b
  BY <1>2 DEF Context
<1>. HIDE DEF y
<1>6. y = [st |-> y.st, nRead |-> y.nRead, op |-> y.op, frame |-> y.frame, nPayload |-> y.nPayload,
           carry |-> y.carry, ready |-> y.ready, cont |-> y.cont]
  BY <1>4, ContextIs
<1>. QED BY <1>1, <1>3, <1>4, <1>5, <1>6

LEMMA SetPayloadCarry ==
  ASSUME NEW w \in Context, NEW a \in Nat, NEW b \in Seq(Nat)
  PROVE  /\ [w EXCEPT !.nPayload = a, !.carry = b] =
          [st |-> w.st, nRead |-> w.nRead, op |-> w.op, frame |-> w.frame, nPayload |-> a,
           carry |-> b, ready |-> w.ready, cont |-> w.cont]
         /\ [w EXCEPT !.nPayload = a, !.carry = b] \in Context
<1>. DEFINE x == [w EXCEPT !.nPayload = a]
            y == [x EXCEPT !.carry = b]
<1>1. [w EXCEPT !.nPayload = a, !.carry = b] = y
  OBVIOUS
<1>2. x \in Context
  BY DEF Context, Conts
<1>3. x.st = w.st /\ x.nRead = w.nRead /\ x.op = w.op /\ x.frame = w.frame /\ x.carry = w.carry /\ x.ready = w.ready /\ x.cont = w.cont
      /\ x.nPayload = a
  BY DEF Context
<1>. HIDE DEF x
<1>4. y \in Context
  BY <1>2 DEF Context, Conts
<1>5. y.st = x.st /\ y.nRead = x.nRead /\ y.op = x.op /\ y.frame = x.frame /\ y.nPayload = x.nPayload /\ y.ready = x.ready /\ y.cont = x.cont
      /\ y.carry = b
  BY <1>2 DEF Context
<1>. HIDE DEF y
<1>6. y = [st |-> y.st, nRead |-> y.nRead, op |-> y.op, frame |-> y.frame, nPayload |-> y.nPayload,
           carry |-> y.carry, ready |-> y.ready, cont |-> y.cont]
  BY <1>4, ContextIs
<1>. QED BY <1>1, <1>3, <1>4, <1>5, <1>6

LEMMA SetStReady ==
  ASSUME NEW w \in Context, NEW a \in {"HEADER", "NEEDED", "CLOSING", "AVAILABLE"}, NEW b \in Seq(Bytes)
  PROVE  /\ [w EXCEPT !.st = a, !.ready = b] =
          [st |-> a, nRead |-> w.nRead, op |-> w.op, frame |-> w.frame, nPayload |-> w.nPayload,
           carry |-> w.carry, ready |-> b, cont |-> w.cont]
         /\ [w EXCEPT !.st = a, !.ready = b] \in Context
<1>. DEFINE x == [w EXCEPT !.st = a]
            y == [x EXCEPT !.ready = b]
<1>1. [w EXCEPT !.st = a, !.ready = b] = y
  OBVIOUS
<1>2. x \in Context
  BY DEF Context, Conts
<1>3. x.nRead = w.nRead /\ x.op = w.op /\ x.frame = w.frame /\ x.nPayload = w.nPayload /\ x.carry = w.carry /\ x.ready = w.ready /\ x.cont = w.cont
      /\ x.st = a
  BY DEF Context
<1>. HIDE DEF x
<1>4. y \in Context
  BY <1>2 DEF Context, Conts
<1>5. y.st = x.st /\ y.nRead = x.nRead /\ y.op = x.op /\ y.frame = x.frame /\ y.nPayload = x.nPayload /\ y.carry = x.carry /\ y.cont = x.cont
      /\ y.ready = b
  BY <1>2 DEF Context
<1>. HIDE DEF y
<1>6. y = [st |-> y.st, nRead |-> y.nRead, op |-> y.op, frame |-> y.frame, nPayload |-> y.nPayload,
           carry |-> y.carry, ready |-> y.ready, cont |-> y.cont]
  BY <1>4, ContextIs
<1>. QED BY <1>1, <1>3, <1>4, <1>5, <1>6

-----------------------------------------------------------------------------
(* Headers.                                                                *)

Reading(n, op, i, c) == [st |-> "HEADER", nRead |-> n, op |-> op, frame |-> i, nPayload |-> 0,
                         carry |-> <<>>, ready |-> <<>>, cont |-> c]
Begun(n, op, i, c) == [st |-> "NEEDED", nRead |-> n, op |-> op, frame |-> i, nPayload |-> 0,
                       carry |-> <<>>, ready |-> <<>>, cont |-> c]
NewOp(f) == IF f.op = "CONT" THEN ws.cont ELSE f.op
NewCont(f) == IF Control(f) \/ f.op = "CONT" THEN ws.cont ELSE IF f.fin THEN "INVALID" ELSE f.op

LEMMA ReadingTyped ==
  ASSUME NEW n \in 0 .. 14, NEW op \in Ops, NEW i \in Nat, NEW c \in Conts
  PROVE  /\ Reading(n, op, i, c) \in Context /\ Begun(n, op, i, c) \in Context
         /\ HeaderDone(Reading(n, op, i, c)) = Begun(n, op, i, c)
<1>. DEFINE r == Reading(n, op, i, c)
<1>1. r \in Context /\ Begun(n, op, i, c) \in Context
  BY DEF Reading, Begun, Context, Conts
<1>2. /\ r.st = "HEADER" /\ r.nRead = n /\ r.op = op /\ r.frame = i /\ r.nPayload = 0
      /\ r.carry = <<>> /\ r.ready = <<>> /\ r.cont = c
  BY DEF Reading
<1>. HIDE DEF r
<1>3. [r EXCEPT !.st = "NEEDED", !.nPayload = 0] =
        [st |-> "NEEDED", nRead |-> r.nRead, op |-> r.op, frame |-> r.frame, nPayload |-> 0,
         carry |-> r.carry, ready |-> r.ready, cont |-> r.cont]
  <2>1. PICK a \in {"HEADER", "NEEDED", "CLOSING", "AVAILABLE"} : a = "NEEDED"
    OBVIOUS
  <2>2. PICK b \in Nat : b = 0
    OBVIOUS
  <2>. QED BY <1>1, <2>1, <2>2, SetStPayload
<1>4. HeaderDone(r) = Begun(n, op, i, c)
  BY <1>2, <1>3 DEF HeaderDone, Begun
<1>. QED BY <1>1, <1>4 DEF r

LEMMA InterpretIs ==
  ASSUME NEW n \in 0 .. 14, NEW op \in Ops, NEW i \in Nat, NEW c \in Conts, NEW f,
         (IF f.op = "CONT" THEN c ELSE f.op) \in Ops,
         (IF Control(f) \/ f.op = "CONT" THEN c ELSE IF f.fin THEN "INVALID" ELSE f.op) \in Conts
  PROVE  Interpret(Reading(n, op, i, c), f) =
           Reading(n, IF f.op = "CONT" THEN c ELSE f.op, i,
                   IF Control(f) \/ f.op = "CONT" THEN c ELSE IF f.fin THEN "INVALID" ELSE f.op)
<1>. DEFINE r == Reading(n, op, i, c)
            o == IF f.op = "CONT" THEN r.cont ELSE f.op
            k == IF Control(f) \/ f.op = "CONT" THEN r.cont ELSE IF f.fin THEN "INVALID" ELSE f.op
<1>1. r \in Context
  BY ReadingTyped
<1>2. /\ r.st = "HEADER" /\ r.nRead = n /\ r.op = op /\ r.frame = i /\ r.nPayload = 0
      /\ r.carry = <<>> /\ r.ready = <<>> /\ r.cont = c
  BY DEF Reading
<1>3. Interpret(r, f) = [r EXCEPT !.op = o, !.cont = k]
  BY DEF Interpret
<1>4. o = (IF f.op = "CONT" THEN c ELSE f.op)
      /\ k = (IF Control(f) \/ f.op = "CONT" THEN c ELSE IF f.fin THEN "INVALID" ELSE f.op)
  BY <1>2
<1>4a. o \in Ops /\ k \in Conts
  BY <1>4
<1>. HIDE DEF r, o, k
<1>5. [r EXCEPT !.op = o, !.cont = k] =
        [st |-> r.st, nRead |-> r.nRead, op |-> o, frame |-> r.frame, nPayload |-> r.nPayload,
         carry |-> r.carry, ready |-> r.ready, cont |-> k]
  BY <1>1, <1>4a, SetOpCont
<1>6. Interpret(r, f) = Reading(n, o, i, k)
  BY <1>2, <1>3, <1>5 DEF Reading
<1>. QED BY <1>4, <1>6 DEF r

\* Between frames and inside a header the context holds nothing else.
LEMMA HeaderIs ==
  ASSUME ContextTyped, ws.st = "HEADER"
  PROVE  /\ ws = Reading(ws.nRead, ws.op, ws.frame, ws.cont)
         /\ ws.nRead \in 0 .. 14 /\ ws.op \in Ops /\ ws.frame \in Nat /\ ws.cont \in Conts
<1>1. ws \in Context /\ ws.nPayload = 0 /\ ws.carry = <<>> /\ ws.ready = <<>>
  BY DEF ContextTyped, AtRest, IsReady
<1>2. ws = [st |-> ws.st, nRead |-> ws.nRead, op |-> ws.op, frame |-> ws.frame,
            nPayload |-> ws.nPayload, carry |-> ws.carry, ready |-> ws.ready, cont |-> ws.cont]
  BY <1>1, ContextIs
<1>3. ws = Reading(ws.nRead, ws.op, ws.frame, ws.cont)
  BY <1>1, <1>2 DEF Reading
<1>4. ws.nRead \in 0 .. 14 /\ ws.op \in Ops /\ ws.frame \in Nat /\ ws.cont \in Conts
  BY <1>1 DEF Context, Conts
<1>. QED BY <1>3, <1>4

LEMMA ReadMore ==
  ASSUME ContextTyped, ws.st = "HEADER", NEW n \in Nat, ws.nRead + n \in 0 .. 14, NEW i \in Nat
  PROVE  /\ [ws EXCEPT !.nRead = @ + n, !.frame = i] = Reading(ws.nRead + n, ws.op, i, ws.cont)
         /\ [ws EXCEPT !.nRead = @ + n] = Reading(ws.nRead + n, ws.op, ws.frame, ws.cont)
<1>1. ws \in Context /\ ws.nPayload = 0 /\ ws.carry = <<>> /\ ws.ready = <<>>
  BY DEF ContextTyped, AtRest, IsReady
<1>2. PICK m \in 0 .. 14 : m = ws.nRead + n
  OBVIOUS
<1>3. [ws EXCEPT !.nRead = m, !.frame = i] =
        [st |-> ws.st, nRead |-> m, op |-> ws.op, frame |-> i, nPayload |-> ws.nPayload,
         carry |-> ws.carry, ready |-> ws.ready, cont |-> ws.cont]
  BY <1>1, SetReadFrame
<1>4. [ws EXCEPT !.nRead = m] =
        [st |-> ws.st, nRead |-> m, op |-> ws.op, frame |-> ws.frame, nPayload |-> ws.nPayload,
         carry |-> ws.carry, ready |-> ws.ready, cont |-> ws.cont]
  BY <1>1 DEF Context
<1>. QED BY <1>1, <1>2, <1>3, <1>4 DEF Reading

LEMMA FrameHere ==
  ASSUME Typed, ws.st = "HEADER", InStep, Some
  PROVE  /\ \E j \in 1 .. Len(stream) : Start(stream, j) = pos - ws.nRead
         /\ Len(stream) \in Nat
<1>0. Typed
  OBVIOUS
<1>1. stream \in Streams /\ ws.nRead \in 0 .. 14
  BY HeaderIs DEF Typed, SocketTyped
<1>2. /\ pos \in Nat /\ Arrived \in Nat /\ Arrived <= Total(stream) /\ Total(stream) \in Nat
  BY <1>0, EndsTyped
<1>3. Arrived > pos
  BY DEF Some
<1>4. PICK i \in 1 .. Len(stream) + 1 : pos - ws.nRead = Start(stream, i)
  BY DEF InStep
<1>5. Len(stream) \in Nat
  BY <1>1, StreamTyped
<1>6. i # Len(stream) + 1
  <2>1. Start(stream, i) < Total(stream)
    BY <1>1, <1>2, <1>3, <1>4
  <2>. QED BY <1>2, <2>1 DEF Total
<1>7. i \in 1 .. Len(stream)
  BY <1>5, <1>6
<1>. QED BY <1>4, <1>5, <1>7

\* What hybiReadHeader does with the n bytes it is given of the header of the frame i.
HeaderStep(i, n) ==
  LET f == stream[i]
  IN \/ /\ ws.nRead + n < 2
        /\ ws' = Reading(ws.nRead + n, ws.op, i, ws.cont)
        /\ Again(pos + n) /\ gone' = gone
     \/ /\ ws.nRead + n >= 2 /\ BadStart(ws, f)
        /\ ws' = Cleared("INVALID") /\ gone' = "error" /\ pc' = pc
     \/ /\ ws.nRead + n >= 2 /\ ~BadStart(ws, f) /\ f.head > 6
        /\ ws' = Reading(ws.nRead + n, NewOp(f), i, NewCont(f))
        /\ pc' = "rest" /\ gone' = gone
     \/ /\ ws.nRead + n \in 2 .. 5 /\ ~BadStart(ws, f) /\ f.head = 6
        /\ ws' = Reading(ws.nRead + n, NewOp(f), i, NewCont(f))
        /\ Again(pos + n) /\ gone' = gone
     \/ /\ ws.nRead + n = 6 /\ ~BadStart(ws, f) /\ f.head = 6
        /\ ws' = Begun(6, NewOp(f), i, NewCont(f))
        /\ pc' = pc /\ gone' = gone

LEMMA HeaderTaken ==
  ASSUME Typed, ReadHeader
  PROVE  \E i \in 1 .. Len(stream), n \in 1 .. 6 :
           /\ n = Upto(6 - ws.nRead) /\ n <= 6 - ws.nRead /\ Start(stream, i) = pos - ws.nRead
           /\ TakeBytes(n) /\ UNCHANGED <<stream, tls, hup, todo, got>>
           /\ HeaderStep(i, n)
<1>0. Typed
  OBVIOUS
<1>1. /\ gone = "no" /\ pc = "read" /\ ws.st = "HEADER" /\ InStep /\ ws.nRead < 6 /\ Some
      /\ UNCHANGED <<stream, tls, hup, todo, got>>
  BY DEF ReadHeader
<1>2. ContextTyped
  BY DEF Typed
<1>3. /\ ws = Reading(ws.nRead, ws.op, ws.frame, ws.cont)
      /\ ws.nRead \in 0 .. 14 /\ ws.op \in Ops /\ ws.frame \in Nat /\ ws.cont \in Conts
  BY <1>1, <1>2, HeaderIs
<1>. DEFINE n == Upto(6 - ws.nRead)
            i == CHOOSE j \in 1 .. Len(stream) : Start(stream, j) = pos - ws.nRead
            f == stream[i]
            w == [ws EXCEPT !.nRead = @ + n, !.frame = i]
<1>4. i \in 1 .. Len(stream) /\ Start(stream, i) = pos - ws.nRead /\ i \in Nat
  BY <1>0, <1>1, FrameHere
<1>5. n \in 1 .. 6 /\ n <= 6 - ws.nRead
  <2>1. PICK m \in Nat : m = 6 - ws.nRead /\ m > 0
    BY <1>1, <1>3
  <2>2. Upto(m) \in 1 .. m
    BY <1>0, <1>1, <2>1, UptoTyped
  <2>. QED BY <1>1, <1>3, <2>1, <2>2
<1>6. ws.nRead + n \in 0 .. 14
  <2>. HIDE DEF n
  <2>. QED BY <1>1, <1>3, <1>5
<1>7. w = Reading(ws.nRead + n, ws.op, i, ws.cont)
  <2>. HIDE DEF n, i
  <2>1. n \in Nat
    BY <1>5
  <2>. QED BY <1>1, <1>2, <1>4, <1>6, <2>1, ReadMore
<1>8. w.nRead = ws.nRead + n
  BY <1>7 DEF Reading
<1>8a. NewOp(f) \in Ops /\ NewCont(f) \in Conts
  <2>. HIDE DEF i
  <2>1. stream \in Streams
    BY DEF Typed, SocketTyped
  <2>2. f.op \in {"TEXT", "BINARY", "CONT", "PING", "CLOSE"}
    BY <1>4, <2>1, FrameTyped
  <2>. QED BY <1>3, <2>2 DEF NewOp, NewCont, Control, Ops, Conts
<1>9. Interpret(w, f) = Reading(ws.nRead + n, NewOp(f), i, NewCont(f))
  <2>. HIDE DEF n, i, f, w
  <2>1. PICK k : k = ws.nRead + n
    OBVIOUS
  <2>2. k \in 0 .. 14 /\ w = Reading(k, ws.op, i, ws.cont)
    BY <1>6, <1>7, <2>1
  <2>3. Interpret(Reading(k, ws.op, i, ws.cont), f) =
           Reading(k, IF f.op = "CONT" THEN ws.cont ELSE f.op, i,
                   IF Control(f) \/ f.op = "CONT" THEN ws.cont ELSE IF f.fin THEN "INVALID" ELSE f.op)
    <3>1. (IF f.op = "CONT" THEN ws.cont ELSE f.op) \in Ops
          /\ (IF Control(f) \/ f.op = "CONT" THEN ws.cont ELSE IF f.fin THEN "INVALID" ELSE f.op) \in Conts
      BY <1>8a DEF NewOp, NewCont
    <3>. QED BY <1>3, <1>4, <2>2, <3>1, InterpretIs
  <2>. QED BY <2>1, <2>2, <2>3 DEF NewOp, NewCont
<1>11. HeaderDone(Interpret(w, f)) = Begun(ws.nRead + n, NewOp(f), i, NewCont(f))
  <2>. HIDE DEF n, i, f, w
  <2>1. PICK k : k = ws.nRead + n
    OBVIOUS
  <2>2. k \in 0 .. 14 /\ Interpret(w, f) = Reading(k, NewOp(f), i, NewCont(f))
    BY <1>6, <1>9, <2>1
  <2>3. HeaderDone(Reading(k, NewOp(f), i, NewCont(f))) = Begun(k, NewOp(f), i, NewCont(f))
    BY <1>4, <1>8a, <2>2, ReadingTyped
  <2>. QED BY <2>1, <2>2, <2>3
<1>12. CleanupComplete(w) = Cleared("INVALID")
  <2>. HIDE DEF n, i, w
  <2>1. PICK k : k = ws.nRead + n
    OBVIOUS
  <2>2. w \in Context
    BY <1>3, <1>4, <1>6, <1>7, <2>1, ReadingTyped
  <2>. QED BY <2>2, Cleanups
<1>13. /\ TakeBytes(n)
       /\ \/ /\ w.nRead < 2
             /\ ws' = w
             /\ Again(pos + n) /\ UNCHANGED gone
          \/ /\ w.nRead >= 2 /\ BadStart(ws, f)
             /\ Refuse(w)
          \/ /\ w.nRead >= 2 /\ ~BadStart(ws, f) /\ f.head > 6
             /\ ws' = Interpret(w, f)
             /\ pc' = "rest" /\ UNCHANGED gone
          \/ /\ w.nRead \in 2..5 /\ ~BadStart(ws, f) /\ f.head = 6
             /\ ws' = Interpret(w, f)
             /\ Again(pos + n) /\ UNCHANGED gone
          \/ /\ w.nRead = 6 /\ ~BadStart(ws, f) /\ f.head = 6
             /\ ws' = HeaderDone(Interpret(w, f))
             /\ UNCHANGED <<pc, gone>>
  BY DEF ReadHeader
<1>14. HeaderStep(i, n)
  <2>. HIDE DEF n, i, w
  <2>. QED BY <1>7, <1>8, <1>9, <1>11, <1>12, <1>13 DEF HeaderStep, Refuse
<1>. QED
  <2>. HIDE DEF n, i, f, w
  <2>1. n = Upto(6 - ws.nRead)
    BY DEF n
  <2>. QED BY <1>1, <1>4, <1>5, <1>13, <1>14, <2>1

LEMMA Room == BufLen \in Nat /\ BufLen >= 19
  BY BufferRoom

LEMMA HeaderRoom == ASSUME NEW x \in Nat, x <= 14 PROVE x + 0 < BufLen
  BY Room

LEMMA HeaderSum == ASSUME NEW x \in 0 .. 14, NEW n \in 1 .. 6, n <= 6 - x
                   PROVE  x + n \in 0 .. 14 /\ x + n <= 6
  OBVIOUS

LEMMA RestSum == ASSUME NEW h \in {8, 14}, NEW x \in 2 .. 6, NEW n \in 1 .. 12, n <= h - x
                 PROVE  x + n \in 0 .. 14
  OBVIOUS

LEMMA ReadingContext ==
  ASSUME SocketTyped, stream' = stream, NEW n \in 0 .. 14, NEW op \in Ops, NEW i \in 1 .. Len(stream),
         NEW c \in Conts, ws' = Reading(n, op, i, c),
         pc' = "rest" => op # "INVALID" /\ stream[i].head > 6 /\ n \in 2 .. 6
  PROVE  ContextTyped'
<1>1. /\ Len(stream) \in Nat /\ stream' = stream /\ ws' = Reading(n, op, i, c)
      /\ pc' = "rest" => op # "INVALID" /\ stream[i].head > 6 /\ n \in 2 .. 6
  BY StreamTyped DEF SocketTyped
<1>2. i \in Nat /\ i <= Len(stream) /\ i > 0
  BY <1>1
<1>3. Reading(n, op, i, c) \in Context
  BY <1>2, ReadingTyped
<1>4. /\ ws'.st = "HEADER" /\ ws'.nRead = n /\ ws'.op = op /\ ws'.frame = i
      /\ ws'.nPayload = 0 /\ ws'.carry = <<>> /\ ws'.ready = <<>>
  BY <1>1 DEF Reading
<1>5. ws' \in Context /\ ws'.frame <= Len(stream')
  BY <1>1, <1>2, <1>3, <1>4
<1>6. AtRest' /\ InFrame' /\ IsReady'
  BY <1>4 DEF AtRest, InFrame, IsReady
<1>7. InRest'
  BY <1>1, <1>2, <1>4 DEF InRest, Current
<1>. QED BY <1>5, <1>6, <1>7 DEF ContextTyped

LEMMA BegunContext ==
  ASSUME SocketTyped, stream' = stream, NEW n \in 0 .. 14, NEW op \in Ops, op # "INVALID",
         NEW i \in 1 .. Len(stream), NEW c \in Conts, ws' = Begun(n, op, i, c), pc' # "rest"
  PROVE  ContextTyped'
<1>1. /\ Len(stream) \in Nat /\ stream' = stream /\ ws' = Begun(n, op, i, c) /\ op # "INVALID"
      /\ pc' # "rest" /\ stream \in Streams
  BY StreamTyped DEF SocketTyped
<1>2. i \in Nat /\ i <= Len(stream) /\ i > 0
  BY <1>1
<1>3. Begun(n, op, i, c) \in Context
  BY <1>2, ReadingTyped
<1>4. /\ ws'.st = "NEEDED" /\ ws'.nRead = n /\ ws'.op = op /\ ws'.frame = i
      /\ ws'.nPayload = 0 /\ ws'.carry = <<>> /\ ws'.ready = <<>>
  BY <1>1 DEF Begun
<1>5. ws' \in Context /\ ws'.frame <= Len(stream')
  BY <1>1, <1>2, <1>3, <1>4
<1>6. AtRest' /\ IsReady' /\ InRest'
  BY <1>1, <1>4 DEF AtRest, InRest, IsReady
<1>7. stream[i].head \in Nat /\ stream[i].head <= 14 /\ stream[i].len \in Nat
  BY <1>1, FrameTyped
<1>8. InFrame'
  <2>1. Current' = stream[i] /\ Len(ws'.carry) = 0
    BY <1>1, <1>4 DEF Current
  <2>2. WritePos' <= 14 /\ WritePos' \in Nat
    <3>1. WritePos' = stream[i].head + 0 \/ WritePos' = stream[i].head + (0 - 0)
      BY <1>4, <2>1 DEF WritePos
    <3>. QED BY <1>7, <3>1
  <2>3. WritePos' + Len(ws'.carry) < BufLen
    <3>1. PICK x \in Nat : x = WritePos' /\ x <= 14
      BY <2>2
    <3>2. x + 0 < BufLen
      BY <3>1, HeaderRoom
    <3>. QED BY <2>1, <3>1, <3>2
  <2>4. ws'.nPayload <= Current'.len
    BY <1>4, <1>7, <2>1
  <2>. QED BY <1>1, <1>2, <1>4, <2>1, <2>3, <2>4 DEF InFrame
<1>. QED BY <1>5, <1>6, <1>8 DEF ContextTyped

LEMMA SocketTaken ==
  ASSUME Typed, NEW n \in Nat, pos + n <= Arrived, TakeBytes(n), UNCHANGED <<stream, tls, hup>>
  PROVE  SocketTyped'
<1>1. Typed /\ stream' = stream /\ TakeBytes(n)
  OBVIOUS
<1>2. pos' \in Nat /\ ends' # {} /\ ends' \subseteq pos' .. Total(stream')
  BY <1>1, TakeTyped
<1>. QED BY <1>2 DEF Typed, SocketTyped

LEMMA AgainIs == ASSUME NEW p, Again(p) PROVE pc' \in {"read", "wait"}
  BY DEF Again

LEMMA GoodOp ==
  ASSUME Typed, ws.st = "HEADER", NEW i \in 1 .. Len(stream)
  PROVE  /\ NewOp(stream[i]) \in Ops /\ NewCont(stream[i]) \in Conts
         /\ ~BadStart(ws, stream[i]) => NewOp(stream[i]) # "INVALID"
<1>. DEFINE f == stream[i]
<1>1. stream \in Streams /\ ws.cont \in Conts
  BY HeaderIs DEF Typed, SocketTyped
<1>2. f.op \in {"TEXT", "BINARY", "CONT", "PING", "CLOSE"} /\ f.fin \in BOOLEAN
  BY <1>1, FrameTyped
<1>. HIDE DEF f
<1>3. NewOp(f) \in Ops /\ NewCont(f) \in Conts
  BY <1>1, <1>2 DEF NewOp, NewCont, Control, Ops, Conts
<1>4. ~BadStart(ws, f) => NewOp(f) # "INVALID"
  BY <1>1, <1>2 DEF NewOp, BadStart
<1>. QED BY <1>3, <1>4 DEF f

LEMMA ReadHeaderTyped == Typed /\ ReadHeader => Typed'
<1>. SUFFICES ASSUME Typed, ReadHeader PROVE Typed'
  OBVIOUS
<1>1. PICK i \in 1 .. Len(stream), n \in 1 .. 6 :
           /\ n = Upto(6 - ws.nRead) /\ n <= 6 - ws.nRead /\ Start(stream, i) = pos - ws.nRead
           /\ TakeBytes(n) /\ UNCHANGED <<stream, tls, hup, todo, got>>
           /\ HeaderStep(i, n)
  BY HeaderTaken
<1>2. gone = "no" /\ pc = "read" /\ ws.st = "HEADER" /\ Some
  BY DEF ReadHeader
<1>3. ws.nRead \in 0 .. 14 /\ ws.op \in Ops /\ ws.cont \in Conts
  BY <1>2, HeaderIs DEF Typed
<1>4. n \in Nat /\ pos + n <= Arrived
  <2>1. PICK m \in Nat : m = 6 - ws.nRead /\ m > 0
    BY <1>1, <1>3
  <2>2. pos + Upto(m) <= Arrived
    BY <1>2, <2>1, UptoTyped
  <2>. QED BY <1>1, <2>1, <2>2
<1>5. SocketTyped'
  BY <1>1, <1>4, SocketTaken
<1>6. pc' \in {"read", "wait", "rest"} /\ gone' \in {"no", "error"}
  BY <1>1, <1>2, AgainIs DEF HeaderStep
<1>7. ThreadTyped'
  BY <1>1, <1>2, <1>6 DEF Typed, ThreadTyped
<1>8. ws.nRead + n \in 0 .. 14 /\ ws.nRead + n <= 6
  <2>1. PICK x \in 0 .. 14 : x = ws.nRead
    BY <1>3
  <2>2. n <= 6 - x
    BY <1>1, <2>1
  <2>. QED BY <2>1, <2>2, HeaderSum
<1>9. ContextTyped'
  <2>. DEFINE f == stream[i]
              m == ws.nRead + n
  <2>0. SocketTyped /\ stream' = stream /\ NewOp(f) \in Ops /\ NewCont(f) \in Conts
        /\ (~BadStart(ws, f) => NewOp(f) # "INVALID")
    BY <1>1, <1>2, GoodOp DEF Typed
  <2>1. CASE ws' = Cleared("INVALID") /\ gone' = "error"
    <3>1. "INVALID" \in Conts
      BY DEF Conts
    <3>. QED BY <2>0, <2>1, <3>1, ClearedTyped
  <2>2. CASE ws' = Reading(m, ws.op, i, ws.cont) /\ Again(pos + n)
    <3>1. pc' # "rest"
      BY <2>2, AgainIs
    <3>2. m \in 0 .. 14
      BY <1>8
    <3>. HIDE DEF m
    <3>. QED BY <1>3, <2>0, <2>2, <3>1, <3>2, ReadingContext
  <2>3. CASE /\ ws' = Reading(m, NewOp(f), i, NewCont(f))
             /\ ~BadStart(ws, f) /\ m >= 2 /\ (f.head > 6 \/ Again(pos + n))
    <3>1. m \in 0 .. 14 /\ m \in 2 .. 6
      BY <1>8, <2>3
    <3>2. pc' = "rest" => f.head > 6
      BY <2>3, AgainIs
    <3>. HIDE DEF m
    <3>. QED BY <2>0, <2>3, <3>1, <3>2, ReadingContext
  <2>4. CASE /\ ws' = Begun(6, NewOp(f), i, NewCont(f)) /\ ~BadStart(ws, f) /\ pc' = pc
    <3>1. pc' # "rest" /\ 6 \in 0 .. 14
      BY <1>2, <2>4
    <3>. QED BY <2>0, <2>4, <3>1, BegunContext
  <2>. QED BY <1>1, <1>8, <2>1, <2>2, <2>3, <2>4 DEF HeaderStep
<1>. QED BY <1>5, <1>7, <1>9 DEF Typed

Short == Current.len < (IF Current.head = 8 THEN Extended ELSE Long)

\* What hybiReadHeader does with the n further bytes of a longer header.
RestStep(n) ==
  \/ /\ ws.nRead + n = Current.head /\ Short
     /\ ws' = Cleared("INVALID") /\ gone' = "error" /\ pc' = pc
  \/ /\ ws.nRead + n = Current.head /\ ~Short
     /\ ws' = Begun(ws.nRead + n, ws.op, ws.frame, ws.cont) /\ pc' = "read" /\ gone' = gone
  \/ /\ ws.nRead + n < Current.head
     /\ ws' = Reading(ws.nRead + n, ws.op, ws.frame, ws.cont) /\ Again(pos + n) /\ gone' = gone

\* The frame whose header is not complete.
LEMMA RestIs ==
  ASSUME Typed, gone = "no", pc = "rest"
  PROVE  /\ ws.st = "HEADER" /\ ws.frame \in 1 .. Len(stream) /\ ws.op # "INVALID"
         /\ Current.head \in {8, 14} /\ ws.nRead \in 2 .. 6
<1>1. /\ ws.st = "HEADER" /\ ws.frame > 0 /\ ws.op # "INVALID" /\ Current.head > 6 /\ ws.nRead \in 2 .. 6
      /\ ws.frame <= Len(stream) /\ ws \in Context /\ stream \in Streams
  BY DEF Typed, ContextTyped, InRest, SocketTyped
<1>2. ws.frame \in Nat /\ Len(stream) \in Nat
  BY <1>1, StreamTyped DEF Context
<1>3. ws.frame \in 1 .. Len(stream)
  BY <1>1, <1>2
<1>4. Current.head \in {6, 8, 14}
  BY <1>1, <1>3, FrameTyped DEF Current
<1>. QED BY <1>1, <1>3, <1>4

LEMMA RestTaken ==
  ASSUME Typed, ReadRest
  PROVE  \E n \in 1 .. 12 :
           /\ n = Upto(Current.head - ws.nRead) /\ n <= Current.head - ws.nRead
           /\ TakeBytes(n) /\ UNCHANGED <<stream, tls, hup, todo, got>>
           /\ RestStep(n)
<1>0. Typed
  OBVIOUS
<1>1. /\ gone = "no" /\ pc = "rest" /\ Some /\ UNCHANGED <<stream, tls, hup, todo, got>>
  BY DEF ReadRest
<1>2. /\ ws.st = "HEADER" /\ ws.frame \in 1 .. Len(stream) /\ ws.op # "INVALID"
      /\ Current.head \in {8, 14} /\ ws.nRead \in 2 .. 6
  BY <1>0, <1>1, RestIs
<1>3. ContextTyped /\ ws.op \in Ops /\ ws.cont \in Conts /\ ws.frame \in Nat
  BY <1>2, HeaderIs DEF Typed
<1>. DEFINE h == Current.head
            n == Upto(h - ws.nRead)
            w == [ws EXCEPT !.nRead = @ + n]
<1>4. n \in 1 .. 12 /\ n <= h - ws.nRead
  <2>1. PICK m \in Nat : m = h - ws.nRead /\ m > 0 /\ m <= 12
    BY <1>2
  <2>2. Upto(m) \in 1 .. m
    BY <1>0, <1>1, <2>1, UptoTyped
  <2>. QED BY <2>1, <2>2
<1>5. ws.nRead + n \in 0 .. 14 /\ n \in Nat /\ ws.nRead + n <= h /\ (ws.nRead + n # h => ws.nRead + n < h)
  <2>. HIDE DEF n
  <2>1. PICK r \in 2 .. 6 : r = ws.nRead
    BY <1>2
  <2>2. PICK k \in {8, 14} : k = h
    BY <1>2
  <2>3. n \in Nat /\ n <= k - r
    BY <1>4, <2>1, <2>2
  <2>4. r + n \in 0 .. 14 /\ r + n <= k /\ (r + n # k => r + n < k)
    BY <2>3
  <2>. QED BY <2>1, <2>2, <2>3, <2>4
<1>6. w = Reading(ws.nRead + n, ws.op, ws.frame, ws.cont)
  <2>. HIDE DEF n
  <2>. QED BY <1>2, <1>3, <1>5, ReadMore
<1>7. w.nRead = ws.nRead + n
  BY <1>6 DEF Reading
<1>8. HeaderDone(w) = Begun(ws.nRead + n, ws.op, ws.frame, ws.cont) /\ CleanupComplete(w) = Cleared("INVALID")
  <2>. HIDE DEF n, w
  <2>1. PICK k \in 0 .. 14 : k = ws.nRead + n
    BY <1>5
  <2>2. w \in Context /\ HeaderDone(w) = Begun(k, ws.op, ws.frame, ws.cont)
    BY <1>3, <1>6, <2>1, ReadingTyped
  <2>. QED BY <2>1, <2>2, Cleanups
<1>. DEFINE complete == w.nRead = h
            short == Current.len < (IF h = 8 THEN Extended ELSE Long)
<1>9. /\ TakeBytes(n)
      /\ \/ /\ complete /\ short
            /\ Refuse(w)
         \/ /\ complete => ~short
            /\ ws' = IF complete THEN HeaderDone(w) ELSE w
            /\ IF complete THEN pc' = "read" ELSE Again(pos + n)
            /\ UNCHANGED gone
  BY DEF ReadRest
<1>10. RestStep(n)
  <2>1. short <=> Short
    BY DEF Short
  <2>2. complete <=> ws.nRead + n = h
    BY <1>7
  <2>. HIDE DEF n, w, complete, short
  <2>. QED BY <1>5, <1>6, <1>8, <1>9, <2>1, <2>2 DEF RestStep, Refuse
<1>. QED
  <2>. HIDE DEF n, w
  <2>1. n = Upto(Current.head - ws.nRead)
    BY DEF n
  <2>. QED BY <1>1, <1>4, <1>9, <1>10, <2>1

LEMMA ReadRestTyped == Typed /\ ReadRest => Typed'
<1>. SUFFICES ASSUME Typed, ReadRest PROVE Typed'
  OBVIOUS
<1>1. PICK n \in 1 .. 12 :
           /\ n = Upto(Current.head - ws.nRead) /\ n <= Current.head - ws.nRead
           /\ TakeBytes(n) /\ UNCHANGED <<stream, tls, hup, todo, got>>
           /\ RestStep(n)
  BY RestTaken
<1>2. gone = "no" /\ pc = "rest" /\ Some
  BY DEF ReadRest
<1>3. /\ ws.st = "HEADER" /\ ws.frame \in 1 .. Len(stream) /\ ws.op # "INVALID"
      /\ Current.head \in {8, 14} /\ ws.nRead \in 2 .. 6
  BY <1>2, RestIs
<1>4. SocketTyped /\ stream' = stream /\ ws.op \in Ops /\ ws.cont \in Conts
  BY <1>1, <1>3, HeaderIs DEF Typed
<1>5. n \in Nat /\ pos + n <= Arrived
  <2>1. PICK m \in Nat : m = Current.head - ws.nRead /\ m > 0
    BY <1>3
  <2>2. pos + Upto(m) <= Arrived
    BY <1>2, <2>1, UptoTyped
  <2>. QED BY <1>1, <2>1, <2>2
<1>6. SocketTyped'
  BY <1>1, <1>5, SocketTaken
<1>7. pc' \in {"read", "wait", "rest"} /\ gone' \in {"no", "error"} /\ (gone' = "no" => pc' # "rest")
  BY <1>1, <1>2, AgainIs DEF RestStep
<1>8. ThreadTyped'
  BY <1>1, <1>2, <1>7 DEF Typed, ThreadTyped
<1>9. PICK k \in 0 .. 14 : k = ws.nRead + n
  <2>1. PICK r \in 2 .. 6 : r = ws.nRead
    BY <1>3
  <2>2. PICK h \in {8, 14} : h = Current.head
    BY <1>3
  <2>3. n <= h - r
    BY <1>1, <2>1, <2>2
  <2>4. r + n \in 0 .. 14
    BY <2>3, RestSum
  <2>. QED BY <2>1, <2>4
<1>10. ContextTyped'
  <2>1. CASE ws' = Cleared("INVALID")
    <3>1. "INVALID" \in Conts
      BY DEF Conts
    <3>. QED BY <1>4, <1>7, <2>1, <3>1, ClearedTyped
  <2>2. CASE ws' = Begun(k, ws.op, ws.frame, ws.cont) /\ gone' = gone
    BY <1>2, <1>3, <1>4, <1>7, <2>2, BegunContext
  <2>3. CASE ws' = Reading(k, ws.op, ws.frame, ws.cont) /\ gone' = gone
    BY <1>2, <1>3, <1>4, <1>7, <2>3, ReadingContext
  <2>. QED BY <1>1, <1>9, <2>1, <2>2, <2>3 DEF RestStep
<1>. QED BY <1>6, <1>8, <1>10 DEF Typed

LEMMA ReadFailsTyped == Typed /\ ReadFails => Typed'
<1>. SUFFICES ASSUME Typed, ReadFails PROVE Typed'
  OBVIOUS
<1>1. /\ pc \in {"read", "rest"} /\ ws' = CleanupComplete(ws) /\ UNCHANGED <<stream, tls, ends, hup, pos, todo, got>>
      /\ gone' \in {"no", "closed", "error"}
      /\ pc' = IF gone' = "no" THEN "wait" ELSE pc
  BY DEF ReadFails, wire
<1>2. ws' = Cleared("INVALID") /\ "INVALID" \in Conts
  BY <1>1, Cleanups DEF Typed, ContextTyped, Conts
<1>3. SocketTyped'
  BY <1>1 DEF Typed, SocketTyped
<1>4. ThreadTyped'
  BY <1>1 DEF Typed, ThreadTyped
<1>5. ContextTyped'
  BY <1>1, <1>2, ClearedTyped DEF Typed
<1>. QED BY <1>3, <1>4, <1>5 DEF Typed

-----------------------------------------------------------------------------
(* What is decoded.                                                        *)

LEMMA UnmaskTyped ==
  ASSUME NEW raw \in Seq(Nat), ws.frame \in Nat
  PROVE  /\ Unmask(raw) \in Seq(Bytes) /\ Len(Unmask(raw)) = Len(raw)
         /\ \A j \in 1 .. Len(raw) : raw[j] % 4 = (j - 1) % 4 => Unmask(raw)[j] = <<ws.frame, raw[j]>>
<1>. DEFINE e(j) == IF raw[j] % 4 = (j - 1) % 4 THEN <<ws.frame, raw[j]>> ELSE Garbled
<1>1. Unmask(raw) = [j \in 1 .. Len(raw) |-> e(j)]
  BY DEF Unmask
<1>2. ASSUME NEW j \in 1 .. Len(raw) PROVE e(j) \in Bytes
  BY DEF Bytes, Garbled
<1>3. \A j \in 1 .. Len(raw) : raw[j] % 4 = (j - 1) % 4 => e(j) = <<ws.frame, raw[j]>>
  OBVIOUS
<1>. HIDE DEF e
<1>4. Len(raw) \in Nat
  OBVIOUS
<1>5. [j \in 1 .. Len(raw) |-> e(j)] \in Seq(Bytes) /\ Len([j \in 1 .. Len(raw) |-> e(j)]) = Len(raw)
  BY <1>2, <1>4
<1>. QED BY <1>1, <1>3, <1>5

\* Groups of four bytes give three.
LEMMA GroupOf ==
  ASSUME NEW n \in Nat, NEW k \in 1 .. 3 * (n \div 4)
  PROVE  /\ (k - 1) \div 3 \in Nat /\ (k - 1) % 3 \in 0 .. 2
         /\ 4 * ((k - 1) \div 3) + 4 <= n
         /\ k = 3 * ((k - 1) \div 3) + ((k - 1) % 3) + 1
<1>1. PICK m \in Nat : m = n \div 4 /\ 4 * m <= n
  OBVIOUS
<1>2. PICK g \in Nat : g = (k - 1) \div 3
  OBVIOUS
<1>3. PICK r \in 0 .. 2 : r = (k - 1) % 3
  OBVIOUS
<1>4. k = 3 * g + r + 1
  BY <1>2, <1>3
<1>5. k \in 1 .. 3 * m
  BY <1>1
<1>6. 4 * g + 4 <= n
  <2>1. 3 * g + r + 1 <= 3 * m
    BY <1>4, <1>5
  <2>2. g < m
    BY <2>1
  <2>. QED BY <1>1, <2>2
<1>7. (k - 1) \div 3 \in Nat /\ (k - 1) % 3 \in 0 .. 2
  BY <1>2, <1>3
<1>8. 4 * ((k - 1) \div 3) + 4 <= n
  BY <1>2, <1>6
<1>9. k = 3 * ((k - 1) \div 3) + ((k - 1) % 3) + 1
  BY <1>2, <1>3, <1>4
<1>. QED BY <1>7, <1>8, <1>9

Padded(raw) == raw # <<>> /\ raw[Len(raw)] = Current.len - 1
Base64At(raw, k) == LET g == (k - 1) \div 3
                    IN IF InGroup(raw, g) THEN <<ws.frame, 3 * (raw[4 * g + 1] \div 4) + ((k - 1) % 3)>>
                       ELSE Garbled

LEMMA Base64Typed ==
  ASSUME NEW raw \in Seq(Nat), ws.frame \in Nat, Current.pad \in 0 .. 2,
         NEW m \in Int, m = 3 * (Len(raw) \div 4) - (IF Padded(raw) THEN Current.pad ELSE 0)
  PROVE  /\ Base64(raw) \in Seq(Bytes) /\ Len(Base64(raw)) <= Len(raw)
         /\ m \in Nat => Len(Base64(raw)) = m
         /\ m <= 0 => Base64(raw) = <<>>
         /\ \A k \in 1 .. m : Base64(raw)[k] = Base64At(raw, k)
<1>1. Base64(raw) = [k \in 1 .. m |-> Base64At(raw, k)]
  BY DEF Base64, Padded, Base64At
<1>2. PICK n \in Nat : n = Len(raw)
  OBVIOUS
<1>3. m <= 3 * (n \div 4) /\ 3 * (n \div 4) <= n
  BY <1>2
<1>4. ASSUME NEW k \in 1 .. m PROVE Base64At(raw, k) \in Bytes
  <2>1. k \in 1 .. 3 * (n \div 4)
    BY <1>3
  <2>2. PICK g \in Nat, r \in 0 .. 2 : g = (k - 1) \div 3 /\ r = (k - 1) % 3 /\ 4 * g + 4 <= n
    BY <2>1, GroupOf
  <2>3. 4 * g + 1 \in 1 .. Len(raw)
    BY <1>2, <2>2
  <2>4. raw[4 * g + 1] \in Nat
    BY <2>3
  <2>5. PICK x \in Nat : x = raw[4 * g + 1]
    BY <2>4
  <2>6. 3 * (x \div 4) + r \in Nat
    OBVIOUS
  <2>7. Base64At(raw, k) = IF InGroup(raw, g) THEN <<ws.frame, 3 * (x \div 4) + r>> ELSE <<0, 0>>
    BY <2>2, <2>5 DEF Base64At, Garbled
  <2>. QED BY <2>6, <2>7 DEF Bytes
<1>5. PICK l \in Nat : 1 .. l = 1 .. m /\ l <= n /\ (m \in Nat => l = m) /\ (m <= 0 => l = 0)
  <2>1. CASE m \in Nat
    BY <1>3, <2>1
  <2>2. CASE m \notin Nat
    <3>1. m < 0
      BY <2>2
    <3>2. 1 .. 0 = 1 .. m
      BY <3>1
    <3>. QED BY <1>2, <2>2, <3>2
  <2>. QED BY <2>1, <2>2
<1>6. [k \in 1 .. l |-> Base64At(raw, k)] \in Seq(Bytes) /\ Len([k \in 1 .. l |-> Base64At(raw, k)]) = l
  BY <1>4, <1>5
<1>7. Base64(raw) = [k \in 1 .. l |-> Base64At(raw, k)]
  BY <1>1, <1>5
<1>8. \A k \in 1 .. m : Base64(raw)[k] = Base64At(raw, k)
  BY <1>1
<1>9. l = 0 => Base64(raw) = <<>>
  BY <1>6, <1>7
<1>. QED BY <1>2, <1>5, <1>6, <1>7, <1>8, <1>9

-----------------------------------------------------------------------------
(* What hybiReadAndDecode reads: n bytes, appended to those carried over.  *)

N == IF Asked > 0 THEN Upto(Asked) ELSE 0
Raw == ws.carry \o [j \in 1 .. N |-> ws.nPayload + j - 1]
Complete == N = Remaining(ws)
Kept == Carried(Raw, Complete)
ToReturn == Len(Raw) - Kept
Taken == [ws EXCEPT !.nPayload = @ + N, !.carry = SubSeq(Raw, ToReturn + 1, Len(Raw))]
Part == SubSeq(Raw, 1, ToReturn)
B == IF Taken.op = "TEXT" THEN Base64(Part) ELSE Unmask(Part)

BodyStep ==
  \/ /\ Taken.op = "CLOSE" /\ Complete
     /\ ws' = FrameComplete(Taken)
     /\ gone' = "error"
     /\ UNCHANGED <<pc, todo, got>>
  \/ /\ Taken.op = "CLOSE" /\ ~Complete
     /\ ws' = [Taken EXCEPT !.st = "CLOSING"]
     /\ Again(pos + N) /\ UNCHANGED <<todo, got, gone>>
  \/ /\ Taken.op = "PING" \/ (Taken.op # "CLOSE" /\ B = <<>>)
     /\ ws' = IF Complete THEN FrameComplete(Taken) ELSE Taken
     /\ Again(pos + N) /\ UNCHANGED <<todo, got, gone>>
  \/ /\ Taken.op \notin {"PING", "CLOSE"} /\ B # <<>>
     /\ ReturnData(Taken, B)
     /\ UNCHANGED gone

LEMMA BodyIs ==
  ASSUME ReadAndDecode
  PROVE  /\ gone = "no" /\ pc = "read" /\ ws.st \in {"NEEDED", "CLOSING"}
         /\ Asked > 0 => Some
         /\ TakeBytes(N) /\ UNCHANGED <<stream, tls, hup>>
         /\ BodyStep
  BY DEF ReadAndDecode, N, Raw, Complete, Kept, ToReturn, Taken, Part, B, BodyStep

\* The frame that is being received.
LEMMA FrameIs ==
  ASSUME Typed, ws.st # "HEADER"
  PROVE  /\ ws.frame \in 1 .. Len(stream) /\ stream \in Streams /\ ws \in Context
         /\ Current.len \in Nat /\ Current.head \in {6, 8, 14} /\ Current.pad \in 0 .. 2
         /\ ws.nPayload \in Nat /\ ws.nPayload <= Current.len /\ Remaining(ws) = Current.len - ws.nPayload
         /\ ws.carry \in Seq(Nat) /\ Len(ws.carry) \in 0 .. 3 /\ Len(ws.carry) <= ws.nPayload
         /\ ws.op \in Ops /\ ws.op # "INVALID"
<1>1. /\ ws.frame > 0 /\ ws.nPayload <= Current.len /\ ws.op # "INVALID"
      /\ Len(ws.carry) <= 3 /\ Len(ws.carry) <= ws.nPayload
      /\ ws \in Context /\ ws.frame <= Len(stream) /\ stream \in Streams
  BY DEF Typed, ContextTyped, InFrame, SocketTyped
<1>2. /\ ws.frame \in Nat /\ ws.nPayload \in Nat /\ ws.carry \in Seq(Nat) /\ ws.op \in Ops
  BY <1>1 DEF Context
<1>3. Len(stream) \in Nat /\ Len(ws.carry) \in Nat
  BY <1>1, <1>2, StreamTyped
<1>4. ws.frame \in 1 .. Len(stream) /\ Len(ws.carry) \in 0 .. 3
  <2>1. PICK f \in Nat, l \in Nat, c \in Nat : f = ws.frame /\ l = Len(stream) /\ c = Len(ws.carry)
    BY <1>2, <1>3
  <2>2. f > 0 /\ f <= l /\ c <= 3
    BY <1>1, <2>1
  <2>3. f \in 1 .. l /\ c \in 0 .. 3
    BY <2>2
  <2>. QED BY <2>1, <2>3
<1>5. Current.len \in Nat /\ Current.head \in {6, 8, 14} /\ Current.pad \in 0 .. 2
  BY <1>1, <1>4, FrameTyped DEF Current
<1>6. Remaining(ws) = Current.len - ws.nPayload
  BY DEF Remaining, Current
<1>. QED BY <1>1, <1>2, <1>4, <1>5, <1>6

\* The bytes that the buffer has room for.
LEMMA RoomIs ==
  ASSUME Typed, ws.st # "HEADER"
  PROVE  /\ BufSize \in Nat /\ WritePos \in Nat
         /\ ws.op \in {"TEXT", "BINARY"} => BufSize = BufLen - Current.head - Len(ws.carry) - 1
         /\ ws.op \notin {"TEXT", "BINARY"} => BufSize = BufLen - Current.head - ws.nPayload - 1
<1>1. /\ Current.head \in {6, 8, 14} /\ ws.nPayload \in Nat /\ Len(ws.carry) \in 0 .. 3
      /\ Len(ws.carry) <= ws.nPayload
  BY FrameIs
<1>2. PICK h \in {6, 8, 14}, p \in Nat, c \in 0 .. 3, b \in Nat :
        h = Current.head /\ p = ws.nPayload /\ c = Len(ws.carry) /\ b = BufLen /\ c <= p
  BY <1>1, Room
<1>3. WritePos + c < b
  BY <1>2 DEF Typed, ContextTyped, InFrame
<1>4. BufSize = b - (WritePos + c) - 1
  BY <1>2 DEF BufSize
<1>5. CASE ws.op \in {"TEXT", "BINARY"}
  <2>1. WritePos = h + 0
    BY <1>2, <1>5 DEF WritePos
  <2>2. WritePos = h /\ h \in Nat
    BY <1>2, <2>1
  <2>3. h + c < b /\ BufSize = b - (h + c) - 1
    BY <1>3, <1>4, <2>2
  <2>4. BufSize = b - h - c - 1 /\ BufSize \in Nat
    BY <1>2, <2>3
  <2>. QED BY <1>2, <1>5, <2>2, <2>4
<1>6. CASE ws.op \notin {"TEXT", "BINARY"}
  <2>1. WritePos = h + (p - c)
    BY <1>2, <1>6 DEF WritePos
  <2>0. c <= p
    BY <1>2
  <2>2. PICK w \in Nat : w = h + (p - c)
    BY <2>0
  <2>5. w = WritePos
    BY <2>1, <2>2
  <2>3. w + c < b /\ BufSize = b - (w + c) - 1
    BY <1>3, <1>4, <2>5
  <2>4. BufSize = b - h - p - 1 /\ BufSize \in Nat
    <3>1. w + c = h + p
      BY <2>2
    <3>2. b - (w + c) - 1 = b - h - p - 1 /\ b - (w + c) - 1 \in Nat
      BY <2>3, <3>1
    <3>. QED BY <2>3, <3>2
  <2>. QED BY <1>2, <1>6, <2>5, <2>4
<1>. QED BY <1>5, <1>6

LEMMA TakenHowMany ==
  ASSUME Typed, ws.st \in {"NEEDED", "CLOSING"}, pc = "read", Asked > 0 => Some
  PROVE  /\ N \in Nat /\ N <= Current.len - ws.nPayload /\ N <= BufSize /\ pos + N <= Arrived
         /\ Asked \in Nat
<1>1. Typed /\ ws.st # "HEADER"
  OBVIOUS
<1>2. PICK l \in Nat, p \in Nat, b \in Nat :
        l = Current.len /\ p = ws.nPayload /\ b = BufSize /\ p <= l /\ Remaining(ws) = l - p
  BY <1>1, FrameIs, RoomIs
<1>3. PICK d \in Nat : d = l - p
  BY <1>2
<1>4. Asked = Min({d, b})
  BY <1>1, <1>2, <1>3 DEF Asked
<1>5. Asked \in Nat /\ Asked <= d /\ Asked <= b
  BY <1>4, MinOfTwo
<1>6. N \in Nat /\ N <= Asked /\ pos + N <= Arrived
  <2>1. CASE Asked > 0
    BY <1>1, <1>5, <2>1, UptoTyped DEF N
  <2>2. CASE ~(Asked > 0)
    <3>1. N = 0
      BY <2>2 DEF N
    <3>2. pos \in Nat /\ pos <= Arrived
      BY EndsTyped
    <3>. QED BY <1>5, <3>1, <3>2
  <2>. QED BY <2>1, <2>2
<1>. QED BY <1>2, <1>3, <1>5, <1>6

LEMMA CarriedIs ==
  ASSUME NEW raw \in Seq(Nat), NEW complete \in BOOLEAN, NEW n \in Nat, n = Len(raw)
  PROVE  /\ Carried(raw, complete) \in 0 .. 3 /\ Carried(raw, complete) <= n
         /\ complete => Carried(raw, complete) = 0
         /\ ~complete => (n - Carried(raw, complete)) % 4 = 0
<1>1. n % 4 \in 0 .. 3 /\ n % 4 <= n /\ (n - (n % 4)) % 4 = 0
  OBVIOUS
<1>2. PICK r \in 0 .. 3 : r = n % 4 /\ r <= n /\ (n - r) % 4 = 0
  BY <1>1
<1>3. Carried(raw, complete) = IF complete THEN 0 ELSE r
  BY <1>2 DEF Carried
<1>4. CASE complete
  BY <1>3, <1>4
<1>5. CASE ~complete
  BY <1>2, <1>3, <1>5
<1>. QED BY <1>4, <1>5

LEMMA RawIs ==
  ASSUME Typed, ws.st \in {"NEEDED", "CLOSING"}, pc = "read", Asked > 0 => Some
  PROVE  /\ Raw \in Seq(Nat) /\ Len(Raw) = Len(ws.carry) + N
         /\ \A j \in 1 .. Len(ws.carry) : Raw[j] = ws.carry[j]
         /\ \A j \in 1 .. N : Raw[Len(ws.carry) + j] = ws.nPayload + j - 1
         /\ Kept \in 0 .. 3 /\ ToReturn \in Nat /\ Len(Raw) \in Nat /\ ToReturn + Kept = Len(Raw)
         /\ Complete => Kept = 0
         /\ ~Complete => ToReturn % 4 = 0
         /\ Part \in Seq(Nat) /\ Len(Part) = ToReturn
         /\ \A j \in 1 .. ToReturn : Part[j] = Raw[j]
<1>0. Typed /\ ws.st # "HEADER" /\ N \in Nat
  BY TakenHowMany
<1>. DEFINE more == [j \in 1 .. N |-> ws.nPayload + j - 1]
<1>1. PICK p \in Nat, c \in 0 .. 3 : p = ws.nPayload /\ c = Len(ws.carry) /\ ws.carry \in Seq(Nat)
  BY <1>0, FrameIs
<1>2. PICK k \in Nat : k = N
  BY <1>0
<1>3. more \in Seq(Nat) /\ Len(more) = k /\ \A j \in 1 .. k : more[j] = p + j - 1
  <2>1. more = [j \in 1 .. k |-> p + j - 1]
    BY <1>1, <1>2
  <2>2. [j \in 1 .. k |-> p + j - 1] \in Seq(Nat) /\ Len([j \in 1 .. k |-> p + j - 1]) = k
    OBVIOUS
  <2>3. \A j \in 1 .. k : [i \in 1 .. k |-> p + i - 1][j] = p + j - 1
    OBVIOUS
  <2>. HIDE DEF more
  <2>. QED BY <2>1, <2>2, <2>3
<1>4. Raw = ws.carry \o more
  BY DEF Raw
<1>. HIDE DEF more
<1>5. /\ Raw \in Seq(Nat) /\ Len(Raw) = c + k
      /\ \A j \in 1 .. c : Raw[j] = ws.carry[j]
  BY <1>1, <1>3, <1>4, ConcatAt
<1>6. \A j \in 1 .. k : Raw[c + j] = p + j - 1
  <2>1. ASSUME NEW j \in 1 .. k PROVE Raw[c + j] = more[j]
    <3>1. c + j \in 1 .. c + k /\ c + j > c /\ (c + j) - c = j
      OBVIOUS
    <3>2. \A i \in 1 .. c + k : i > c => Raw[i] = more[i - c]
      <4>1. \A i \in 1 .. Len(ws.carry) + Len(more) :
              i > Len(ws.carry) => (ws.carry \o more)[i] = more[i - Len(ws.carry)]
        <5>1. ws.carry \in Seq(Nat) /\ more \in Seq(Nat)
          BY <1>1, <1>3
        <5>. QED BY <5>1, ConcatAt
      <4>. QED BY <1>1, <1>3, <1>4, <4>1
    <3>. QED BY <3>1, <3>2
  <2>. QED BY <1>3, <2>1
<1>7. PICK n \in Nat : n = Len(Raw)
  BY <1>5
<1>8. Complete \in BOOLEAN
  BY DEF Complete
<1>9. Kept \in 0 .. 3 /\ Kept <= n /\ (Complete => Kept = 0) /\ (~Complete => (n - Kept) % 4 = 0)
  BY <1>5, <1>7, <1>8, CarriedIs DEF Kept
<1>10. PICK r \in Nat : r = ToReturn /\ r = n - Kept /\ r + Kept = n /\ r <= n
  <2>1. ToReturn = n - Kept
    BY <1>7 DEF ToReturn
  <2>. QED BY <1>9, <2>1
<1>11. Part = SubSeq(Raw, 0 + 1, r)
  BY <1>10 DEF Part
<1>12. Part \in Seq(Nat) /\ Len(Part) = r - 0 /\ \A j \in 1 .. r - 0 : SubSeq(Raw, 0 + 1, r)[j] = Raw[0 + j]
  <2>1. r <= Len(Raw) /\ 0 <= r
    BY <1>7, <1>10
  <2>. QED BY <1>5, <1>11, <2>1, PartTyped
<1>13. \A j \in 1 .. r : Part[j] = Raw[j]
  BY <1>11, <1>12
<1>14. Len(Part) = r
  BY <1>12
<1>. QED BY <1>1, <1>2, <1>5, <1>6, <1>7, <1>9, <1>10, <1>12, <1>13, <1>14

LEMMA TakenIs ==
  ASSUME Typed, ws.st \in {"NEEDED", "CLOSING"}, pc = "read", Asked > 0 => Some
  PROVE  /\ Taken \in Context /\ Taken.st = ws.st /\ Taken.op = ws.op /\ Taken.frame = ws.frame
         /\ Taken.nRead = ws.nRead /\ Taken.ready = ws.ready /\ Taken.cont = ws.cont
         /\ Taken.nPayload = ws.nPayload + N
         /\ Taken.carry \in Seq(Nat) /\ Len(Taken.carry) = Kept
         /\ \A j \in 1 .. Kept : Taken.carry[j] = Raw[ToReturn + j]
<1>0. /\ Typed /\ ws.st # "HEADER" /\ N \in Nat /\ Raw \in Seq(Nat)
      /\ Kept \in 0 .. 3 /\ ToReturn \in Nat /\ ToReturn + Kept = Len(Raw)
  BY TakenHowMany, RawIs
<1>1. ws \in Context /\ ws.nPayload \in Nat
  BY <1>0, FrameIs
<1>. DEFINE c == SubSeq(Raw, ToReturn + 1, Len(Raw))
            a == ws.nPayload + N
<1>2. a \in Nat
  BY <1>0, <1>1
<1>3. c \in Seq(Nat) /\ Len(c) = Kept /\ \A j \in 1 .. Kept : c[j] = Raw[ToReturn + j]
  <2>1. PICK r \in Nat, n \in Nat : r = ToReturn /\ n = Len(Raw) /\ r <= n /\ n - r = Kept
    BY <1>0
  <2>2. /\ SubSeq(Raw, r + 1, n) \in Seq(Nat) /\ Len(SubSeq(Raw, r + 1, n)) = n - r
        /\ \A k \in 1 .. n - r : SubSeq(Raw, r + 1, n)[k] = Raw[r + k]
    BY <1>0, <2>1, PartTyped
  <2>. QED BY <2>1, <2>2
<1>4. Taken = [ws EXCEPT !.nPayload = a, !.carry = c]
  BY DEF Taken
<1>. HIDE DEF a, c
<1>5. /\ Taken = [st |-> ws.st, nRead |-> ws.nRead, op |-> ws.op, frame |-> ws.frame, nPayload |-> a,
                  carry |-> c, ready |-> ws.ready, cont |-> ws.cont]
      /\ Taken \in Context
  BY <1>1, <1>2, <1>3, <1>4, SetPayloadCarry
<1>6. /\ Taken.st = ws.st /\ Taken.op = ws.op /\ Taken.frame = ws.frame
      /\ Taken.nRead = ws.nRead /\ Taken.ready = ws.ready /\ Taken.cont = ws.cont
      /\ Taken.nPayload = a /\ Taken.carry = c
  BY <1>5
<1>. QED BY <1>3, <1>5, <1>6 DEF a

LEMMA BTyped ==
  ASSUME Typed, ws.st \in {"NEEDED", "CLOSING"}, pc = "read", Asked > 0 => Some
  PROVE  /\ B \in Seq(Bytes) /\ Len(B) \in Nat /\ Len(B) <= ToReturn
         /\ ws.op \in {"TEXT", "BINARY"} => Len(B) < BufLen
<1>0. Typed /\ ws.st # "HEADER" /\ Taken.op = ws.op
  BY TakenIs
<1>1. /\ N \in Nat /\ N <= BufSize /\ ToReturn \in Nat /\ Part \in Seq(Nat) /\ Len(Part) = ToReturn
      /\ Kept \in 0 .. 3 /\ ToReturn + Kept = Len(Raw) /\ Len(Raw) = Len(ws.carry) + N
  BY TakenHowMany, RawIs
<1>2. ws.frame \in Nat /\ Current.pad \in 0 .. 2 /\ Current.head \in {6, 8, 14} /\ Len(ws.carry) \in 0 .. 3
  <2>1. Len(stream) \in Nat
    BY StreamTyped DEF Typed, SocketTyped
  <2>. QED BY <1>0, <2>1, FrameIs
<1>3. Unmask(Part) \in Seq(Bytes) /\ Len(Unmask(Part)) = Len(Part)
  BY <1>1, <1>2, UnmaskTyped
<1>4. Base64(Part) \in Seq(Bytes) /\ Len(Base64(Part)) <= Len(Part)
  <2>1. PICK m \in Int : m = 3 * (Len(Part) \div 4) - (IF Padded(Part) THEN Current.pad ELSE 0)
    BY <1>1, <1>2
  <2>. QED BY <1>1, <1>2, <2>1, Base64Typed
<1>5. B \in Seq(Bytes) /\ Len(B) <= ToReturn
  BY <1>0, <1>1, <1>3, <1>4 DEF B
<1>6. Len(B) \in Nat
  BY <1>5
<1>7. ASSUME ws.op \in {"TEXT", "BINARY"} PROVE Len(B) < BufLen
  <2>1. PICK n \in Nat, b \in Nat, h \in {6, 8, 14}, c \in 0 .. 3, r \in Nat, l \in Nat, x \in Nat, k \in 0 .. 3 :
          /\ n = N /\ b = BufLen /\ h = Current.head /\ c = Len(ws.carry) /\ r = ToReturn /\ l = Len(B)
          /\ x = BufSize /\ k = Kept
    BY <1>0, <1>1, <1>2, <1>6, Room, RoomIs
  <2>2. x = b - h - c - 1
    BY <1>0, <1>7, <2>1, RoomIs
  <2>3. n <= x /\ r + k = c + n /\ l <= r
    BY <1>1, <1>5, <2>1
  <2>4. l < b
    BY <2>2, <2>3
  <2>. QED BY <2>1, <2>4
<1>. QED BY <1>5, <1>6, <1>7

\* A frame that goes on being received.
LEMMA FrameContext ==
  ASSUME SocketTyped, stream' = stream, ws' \in Context, ws'.st # "HEADER", ws'.op # "INVALID",
         ws'.frame \in 1 .. Len(stream), ws'.nPayload <= stream[ws'.frame].len,
         Len(ws'.carry) <= 3, Len(ws'.carry) <= ws'.nPayload,
         ws'.op \notin {"TEXT", "BINARY"} => stream[ws'.frame].head + ws'.nPayload < BufLen,
         pc' # "rest", IsReady'
  PROVE  ContextTyped'
<1>1. /\ SocketTyped /\ stream' = stream /\ ws' \in Context /\ ws'.st # "HEADER" /\ ws'.op # "INVALID"
      /\ ws'.nPayload <= stream[ws'.frame].len /\ Len(ws'.carry) <= 3 /\ Len(ws'.carry) <= ws'.nPayload
      /\ pc' # "rest" /\ IsReady'
      /\ ws'.op \notin {"TEXT", "BINARY"} => stream[ws'.frame].head + ws'.nPayload < BufLen
  OBVIOUS
<1>2. PICK i \in 1 .. Len(stream) : i = ws'.frame
  OBVIOUS
<1>3. stream[i].head \in {6, 8, 14} /\ Len(stream) \in Nat /\ Current' = stream[i]
  <2>1. stream \in Streams
    BY DEF SocketTyped
  <2>. QED BY <1>1, <1>2, <2>1, FrameTyped DEF Current
<1>4. ws'.nPayload \in Nat /\ Len(ws'.carry) \in Nat
  BY <1>1 DEF Context
<1>5. PICK h \in {6, 8, 14}, p \in Nat, c \in Nat, b \in Nat :
        h = Current'.head /\ p = ws'.nPayload /\ c = Len(ws'.carry) /\ b = BufLen /\ b >= 19
  BY <1>3, <1>4, Room
<1>6. c <= 3 /\ c <= p
  BY <1>1, <1>5
<1>7. WritePos' + Len(ws'.carry) < BufLen
  <2>1. CASE ws'.op \in {"TEXT", "BINARY"}
    <3>1. WritePos' = h + 0
      BY <1>5, <2>1 DEF WritePos
    <3>2. (h + 0) + c < b
      BY <1>5, <1>6
    <3>. QED BY <1>5, <3>1, <3>2
  <2>2. CASE ws'.op \notin {"TEXT", "BINARY"}
    <3>1. WritePos' = h + (p - c)
      BY <1>5, <2>2 DEF WritePos
    <3>2. h + p < b
      BY <1>1, <1>2, <1>3, <1>5, <2>2
    <3>3. (h + (p - c)) + c < b
      BY <3>2
    <3>. QED BY <1>5, <3>1, <3>3
  <2>. QED BY <2>1, <2>2
<1>8. ws'.nPayload <= Current'.len
  BY <1>1, <1>2, <1>3
<1>9. ws'.frame > 0 /\ ws'.frame <= Len(stream')
  BY <1>1, <1>2, <1>3
<1>10. InFrame'
  BY <1>1, <1>7, <1>8, <1>9 DEF InFrame
<1>11. AtRest' /\ InRest'
  BY <1>1 DEF AtRest, InRest
<1>. QED BY <1>1, <1>9, <1>10, <1>11 DEF ContextTyped

\* What hybiReturnData does with the bytes b when n of them are asked for.
ReturnStep(w, b, n) ==
  \/ /\ n < Len(b)
     /\ ws' = [w EXCEPT !.st = "AVAILABLE", !.ready = SubSeq(b, n + 1, Len(b))]
  \/ /\ n = Len(b) /\ Remaining(w) = 0 /\ ws' = FrameComplete(w)
  \/ /\ n = Len(b) /\ Remaining(w) # 0 /\ ws' = [w EXCEPT !.st = "NEEDED", !.ready = <<>>]

LEMMA ReturnIs ==
  ASSUME NEW w \in Context, NEW b \in Seq(Bytes), b # <<>>, ReturnData(w, b),
         todo \in Seq(Nat \ {0}), todo # <<>>, got \in Seq(Bytes)
  PROVE  /\ todo' \in Seq(Nat \ {0}) /\ pc' \in {"read", "loop"} /\ (pc' = "read" => todo' # <<>>)
         /\ \E n \in Nat \ {0} :
              /\ n <= Len(b)
              /\ got' = got \o SubSeq(b, 1, n) /\ got' \in Seq(Bytes)
              /\ ReturnStep(w, b, n)
<1>1. PICK t \in Nat \ {0}, l \in Nat : t = Head(todo) /\ l = Len(b) /\ l > 0 /\ Tail(todo) \in Seq(Nat \ {0})
  BY HeadTail
<1>2. PICK n \in Nat \ {0} : n = Min({t, l}) /\ n <= t /\ n <= l
  <2>1. t \in Nat /\ l \in Nat
    OBVIOUS
  <2>2. PICK m \in Nat : m = Min({t, l}) /\ m <= t /\ m <= l /\ (m = t \/ m = l)
    BY <2>1, MinOfTwo
  <2>3. m # 0
    BY <1>1, <2>2
  <2>. QED BY <2>2, <2>3
<1>3. /\ got' = got \o SubSeq(b, 1, n) /\ Returned(n)
      /\ LET rest == SubSeq(b, n + 1, Len(b))
         IN ws' = IF rest # <<>> THEN [w EXCEPT !.st = "AVAILABLE", !.ready = rest]
                  ELSE IF Remaining(w) = 0 THEN FrameComplete(w)
                  ELSE [w EXCEPT !.st = "NEEDED", !.ready = <<>>]
  BY <1>1, <1>2 DEF ReturnData
<1>4. /\ SubSeq(b, n + 1, l) \in Seq(Bytes) /\ Len(SubSeq(b, n + 1, l)) = l - n
  <2>1. n \in Nat /\ l \in Nat /\ n <= l /\ l <= Len(b)
    BY <1>1, <1>2
  <2>. QED BY <2>1, PartTyped
<1>5. SubSeq(b, n + 1, l) # <<>> <=> n < l
  <2>1. PICK y \in Seq(Bytes) : y = SubSeq(b, n + 1, l)
    BY <1>4
  <2>2. Len(y) = l - n
    BY <1>4, <2>1
  <2>3. n <= l
    BY <1>2
  <2>4. y # <<>> <=> n < l
    BY <2>2, <2>3
  <2>. QED BY <2>1, <2>4
<1>6. SubSeq(b, 1, n) \in Seq(Bytes)
  <2>1. SubSeq(b, 0 + 1, n) \in Seq(Bytes)
    <3>1. n \in Nat /\ 0 \in Nat /\ 0 <= n /\ n <= Len(b)
      BY <1>1, <1>2
    <3>. QED BY <3>1, PartTyped
  <2>. QED BY <2>1
<1>7. ReturnStep(w, b, n)
  <2>1. CASE n < l
    BY <1>1, <1>3, <1>5, <2>1 DEF ReturnStep
  <2>2. CASE n = l
    <3>1. SubSeq(b, n + 1, l) = <<>>
      BY <1>5, <2>2
    <3>. QED BY <1>1, <1>3, <2>2, <3>1 DEF ReturnStep
  <2>. QED BY <1>2, <2>1, <2>2
<1>8. todo' \in Seq(Nat \ {0}) /\ pc' \in {"read", "loop"} /\ (pc' = "read" => todo' # <<>>)
  <2>1. CASE n = t
    BY <1>1, <1>3, <2>1 DEF Returned
  <2>2. CASE n # t
    <3>1. t - n \in Nat \ {0}
      BY <1>2, <2>2
    <3>2. <<t - n>> \o Tail(todo) \in Seq(Nat \ {0}) /\ <<t - n>> \o Tail(todo) # <<>>
      BY <1>1, <3>1, ToSetCons
    <3>3. todo' = <<t - n>> \o Tail(todo)
      BY <1>1, <1>3, <2>2 DEF Returned
    <3>4. pc' = "read"
      BY <1>1, <1>3, <2>2, <3>2 DEF Returned
    <3>. QED BY <3>2, <3>3, <3>4
  <2>. QED BY <2>1, <2>2
<1>9. got' \in Seq(Bytes)
  BY <1>3, <1>6
<1>. QED BY <1>1, <1>2, <1>3, <1>7, <1>8, <1>9

\* A frame complete: the context is clear.
LEMMA CompleteContext ==
  ASSUME SocketTyped, stream' = stream, NEW w \in Context, ws' = FrameComplete(w), pc' # "rest"
  PROVE  ContextTyped'
<1>1. w.cont \in Conts /\ "INVALID" \in Conts
  BY Cleanups DEF Conts
<1>2. ws' = Cleared("INVALID") \/ ws' = Cleared(w.cont)
  BY FrameCompleteIs
<1>. QED BY <1>1, <1>2, ClearedTyped

LEMMA ReturnContext ==
  ASSUME SocketTyped, stream' = stream, NEW w \in Context, NEW b \in Seq(Bytes), NEW n \in Nat, n > 0, n <= Len(b),
         Len(b) < BufLen, ReturnStep(w, b, n),
         w.op \in {"TEXT", "BINARY"}, w.frame \in 1 .. Len(stream), w.nPayload <= stream[w.frame].len,
         Len(w.carry) <= 3, Len(w.carry) <= w.nPayload, pc' \in {"read", "loop"}
  PROVE  ContextTyped'
<1>1. /\ SocketTyped /\ stream' = stream /\ ReturnStep(w, b, n) /\ n > 0 /\ n <= Len(b) /\ Len(b) < BufLen
      /\ w.op \in {"TEXT", "BINARY"} /\ w.frame \in 1 .. Len(stream) /\ w.nPayload <= stream[w.frame].len
      /\ Len(w.carry) <= 3 /\ Len(w.carry) <= w.nPayload /\ pc' \in {"read", "loop"}
  OBVIOUS
<1>. DEFINE Same == /\ ws'.op = w.op /\ ws'.frame = w.frame /\ ws'.nPayload = w.nPayload
                    /\ ws'.carry = w.carry /\ ws' \in Context
<1>2. ASSUME Same, ws'.st # "HEADER", IsReady' PROVE ContextTyped'
  <2>1. ws'.op # "INVALID" /\ ws'.op \in {"TEXT", "BINARY"} /\ pc' # "rest"
    BY <1>1, <1>2
  <2>. QED BY <1>1, <1>2, <2>1, FrameContext
<1>3. CASE n < Len(b) /\ ws' = [w EXCEPT !.st = "AVAILABLE", !.ready = SubSeq(b, n + 1, Len(b))]
  <2>. DEFINE r == SubSeq(b, n + 1, Len(b))
  <2>1. r \in Seq(Bytes) /\ Len(r) = Len(b) - n
    <3>1. PICK l \in Nat : l = Len(b) /\ n <= l
      BY <1>1
    <3>2. SubSeq(b, n + 1, l) \in Seq(Bytes) /\ Len(SubSeq(b, n + 1, l)) = l - n
      BY <3>1, PartTyped
    <3>. QED BY <3>1, <3>2
  <2>2. ws' = [w EXCEPT !.st = "AVAILABLE", !.ready = r]
    BY <1>3
  <2>. HIDE DEF r
  <2>3. Len(r) < BufLen /\ r # <<>>
    <3>1. PICK l \in Nat, m \in Nat, x \in Nat :
            l = Len(b) /\ m = Len(r) /\ x = BufLen /\ l < x /\ n < l /\ m = l - n
      BY <1>1, <1>3, <2>1, Room
    <3>2. m < x /\ m # 0
      BY <3>1
    <3>. QED BY <3>1, <3>2
  <2>4. ws' = [st |-> "AVAILABLE", nRead |-> w.nRead, op |-> w.op, frame |-> w.frame, nPayload |-> w.nPayload,
               carry |-> w.carry, ready |-> r, cont |-> w.cont] /\ ws' \in Context
    BY <2>1, <2>2, SetStReady
  <2>5. Same /\ ws'.st = "AVAILABLE" /\ ws'.ready = r
    BY <2>4
  <2>6. IsReady'
    BY <1>1, <2>3, <2>5 DEF IsReady
  <2>. QED BY <1>2, <2>5, <2>6
<1>4. CASE ws' = FrameComplete(w)
  BY <1>1, <1>4, CompleteContext
<1>5. CASE ws' = [w EXCEPT !.st = "NEEDED", !.ready = <<>>]
  <2>1. <<>> \in Seq(Bytes)
    OBVIOUS
  <2>2. ws' = [st |-> "NEEDED", nRead |-> w.nRead, op |-> w.op, frame |-> w.frame, nPayload |-> w.nPayload,
               carry |-> w.carry, ready |-> <<>>, cont |-> w.cont] /\ ws' \in Context
    BY <1>5, <2>1, SetStReady
  <2>3. Same /\ ws'.st = "NEEDED" /\ ws'.ready = <<>>
    BY <2>2
  <2>4. IsReady'
    BY <2>3 DEF IsReady
  <2>. QED BY <1>2, <2>3, <2>4
<1>. QED BY <1>1, <1>3, <1>4, <1>5 DEF ReturnStep

LEMMA ReturnReadyTyped == Typed /\ ReturnReady => Typed'
<1>. SUFFICES ASSUME Typed, ReturnReady PROVE Typed'
  OBVIOUS
<1>1. /\ gone = "no" /\ pc = "read" /\ ws.st = "AVAILABLE" /\ ReturnData(ws, ws.ready)
      /\ UNCHANGED <<stream, tls, ends, hup, pos, gone>>
  BY DEF ReturnReady, wire
<1>2. /\ SocketTyped /\ ws \in Context /\ ws.ready \in Seq(Bytes) /\ ws.ready # <<>> /\ Len(ws.ready) < BufLen
      /\ ws.op \in {"TEXT", "BINARY"}
      /\ todo \in Seq(Nat \ {0}) /\ todo # <<>> /\ got \in Seq(Bytes)
  BY <1>1 DEF Typed, ContextTyped, ThreadTyped, IsReady, Context
<1>3. /\ todo' \in Seq(Nat \ {0}) /\ pc' \in {"read", "loop"} /\ (pc' = "read" => todo' # <<>>)
      /\ \E n \in Nat \ {0} : n <= Len(ws.ready) /\ got' \in Seq(Bytes) /\ ReturnStep(ws, ws.ready, n)
  BY <1>1, <1>2, ReturnIs
<1>4. PICK n \in Nat : n > 0 /\ n <= Len(ws.ready) /\ got' \in Seq(Bytes) /\ ReturnStep(ws, ws.ready, n)
  BY <1>3
<1>5. /\ ws.frame \in 1 .. Len(stream) /\ Len(ws.carry) <= 3 /\ Len(ws.carry) <= ws.nPayload
      /\ ws.nPayload <= stream[ws.frame].len
  <2>1. ws.st # "HEADER"
    BY <1>1
  <2>2. /\ ws.frame \in 1 .. Len(stream) /\ Len(ws.carry) \in 0 .. 3 /\ Len(ws.carry) <= ws.nPayload
        /\ ws.nPayload <= Current.len
    BY <2>1, FrameIs
  <2>3. Current = stream[ws.frame]
    BY DEF Current
  <2>4. PICK c \in 0 .. 3 : c = Len(ws.carry)
    BY <2>2
  <2>5. c <= 3
    OBVIOUS
  <2>6. Len(ws.carry) <= 3
    BY <2>4, <2>5
  <2>7. ws.nPayload <= stream[ws.frame].len
    BY <2>2, <2>3
  <2>. QED BY <2>2, <2>6, <2>7
<1>6. ContextTyped'
  BY <1>1, <1>2, <1>3, <1>4, <1>5, ReturnContext
<1>7. SocketTyped'
  BY <1>1, <1>2 DEF SocketTyped
<1>8. ThreadTyped'
  BY <1>1, <1>3, <1>4 DEF Typed, ThreadTyped
<1>. QED BY <1>6, <1>7, <1>8 DEF Typed

LEMMA DecodeTyped == Typed /\ ReadAndDecode => Typed'
<1>. SUFFICES ASSUME Typed, ReadAndDecode PROVE Typed'
  OBVIOUS
<1>1. /\ gone = "no" /\ pc = "read" /\ ws.st \in {"NEEDED", "CLOSING"} /\ (Asked > 0 => Some)
      /\ TakeBytes(N) /\ UNCHANGED <<stream, tls, hup>>
      /\ BodyStep
  BY BodyIs
<1>2. /\ N \in Nat /\ N <= Current.len - ws.nPayload /\ N <= BufSize /\ pos + N <= Arrived
      /\ Kept \in 0 .. 3 /\ ToReturn \in Nat /\ ToReturn + Kept = Len(Raw) /\ Len(Raw) = Len(ws.carry) + N
  BY <1>1, TakenHowMany, RawIs
<1>3. /\ Taken \in Context /\ Taken.st = ws.st /\ Taken.op = ws.op /\ Taken.frame = ws.frame
      /\ Taken.ready = ws.ready /\ Taken.nPayload = ws.nPayload + N
      /\ Taken.carry \in Seq(Nat) /\ Len(Taken.carry) = Kept
      /\ Taken.nRead = ws.nRead /\ Taken.cont = ws.cont
  BY <1>1, TakenIs
<1>4. SocketTyped /\ SocketTyped' /\ stream' = stream
  BY <1>1, <1>2, SocketTaken DEF Typed
<1>5. /\ ws.frame \in 1 .. Len(stream) /\ Current = stream[ws.frame]
      /\ Current.len \in Nat /\ Current.head \in {6, 8, 14} /\ ws.nPayload \in Nat /\ ws.nPayload <= Current.len
      /\ Len(ws.carry) \in 0 .. 3 /\ Len(ws.carry) <= ws.nPayload /\ ws.op \in Ops /\ ws.op # "INVALID"
  BY <1>1, FrameIs DEF Current
<1>6. Taken.nPayload <= stream[Taken.frame].len /\ Len(Taken.carry) <= 3 /\ Len(Taken.carry) <= Taken.nPayload
  <2>1. PICK n \in Nat, l \in Nat, p \in Nat, c \in 0 .. 3, k \in 0 .. 3, r \in Nat :
          n = N /\ l = Current.len /\ p = ws.nPayload /\ c = Len(ws.carry) /\ k = Kept /\ r = ToReturn
    BY <1>2, <1>5
  <2>2. n <= l - p /\ r + k = c + n /\ c <= p
    BY <1>2, <1>5, <2>1
  <2>3. p + n <= l /\ k <= 3 /\ k <= p + n
    BY <2>2
  <2>. QED BY <1>3, <1>5, <2>1, <2>3
<1>7. Taken.op \notin {"TEXT", "BINARY"} => stream[Taken.frame].head + Taken.nPayload < BufLen
  <2>. SUFFICES ASSUME Taken.op \notin {"TEXT", "BINARY"} PROVE Current.head + (ws.nPayload + N) < BufLen
    BY <1>3, <1>5
  <2>1. PICK n \in Nat, h \in {6, 8, 14}, p \in Nat, b \in Nat :
          n = N /\ h = Current.head /\ p = ws.nPayload /\ b = BufLen
    BY <1>2, <1>5, Room
  <2>2. BufSize = b - h - p - 1
    BY <1>1, <1>3, <2>1, RoomIs
  <2>3. n <= b - h - p - 1
    BY <1>2, <2>1, <2>2
  <2>4. h + (p + n) < b
    BY <2>3
  <2>. QED BY <2>1, <2>4
<1>8. ws.ready = <<>>
  BY <1>1 DEF Typed, ContextTyped, IsReady
<1>9. todo \in Seq(Nat \ {0}) /\ todo # <<>> /\ got \in Seq(Bytes)
  BY <1>1 DEF Typed, ThreadTyped
<1>10. CASE Taken.op = "CLOSE" /\ Complete /\ ws' = FrameComplete(Taken) /\ gone' = "error" /\ UNCHANGED <<pc, todo, got>>
  <2>1. ContextTyped'
    BY <1>1, <1>3, <1>4, <1>10, CompleteContext
  <2>2. ThreadTyped'
    BY <1>1, <1>10 DEF Typed, ThreadTyped
  <2>. QED BY <1>4, <2>1, <2>2 DEF Typed
<1>11. ASSUME Again(pos + N), UNCHANGED <<todo, got, gone>>
       PROVE  ThreadTyped' /\ pc' \in {"read", "wait"}
  <2>1. pc' \in {"read", "wait"}
    BY <1>11, AgainIs
  <2>. QED BY <1>1, <1>11, <2>1 DEF Typed, ThreadTyped
<1>12. CASE Taken.op = "CLOSE" /\ ~Complete /\ ws' = [Taken EXCEPT !.st = "CLOSING"] /\ Again(pos + N) /\ UNCHANGED <<todo, got, gone>>
  <2>1. ws' \in Context /\ ws'.st = "CLOSING" /\ ws'.op = Taken.op /\ ws'.frame = Taken.frame
        /\ ws'.nPayload = Taken.nPayload /\ ws'.carry = Taken.carry /\ ws'.ready = Taken.ready
    BY <1>3, <1>12 DEF Context
  <2>2. IsReady'
    BY <1>3, <1>8, <2>1 DEF IsReady
  <2>3. pc' # "rest" /\ ws'.op # "INVALID" /\ ws'.st # "HEADER"
    BY <1>3, <1>5, <1>11, <1>12, <2>1
  <2>4. ContextTyped'
    BY <1>3, <1>4, <1>5, <1>6, <1>7, <2>1, <2>2, <2>3, FrameContext
  <2>. QED BY <1>4, <1>11, <1>12, <2>4 DEF Typed
<1>13. CASE ws' = FrameComplete(Taken) /\ Again(pos + N) /\ UNCHANGED <<todo, got, gone>>
  <2>1. pc' # "rest"
    BY <1>11, <1>13
  <2>2. ContextTyped'
    BY <1>3, <1>4, <1>13, <2>1, CompleteContext
  <2>. QED BY <1>4, <1>11, <1>13, <2>2 DEF Typed
<1>14. CASE ws' = Taken /\ Again(pos + N) /\ UNCHANGED <<todo, got, gone>>
  <2>1. IsReady' /\ pc' # "rest" /\ ws'.op # "INVALID" /\ ws'.st # "HEADER"
    BY <1>1, <1>3, <1>5, <1>8, <1>11, <1>14 DEF IsReady
  <2>2. ContextTyped'
    BY <1>3, <1>4, <1>5, <1>6, <1>7, <1>14, <2>1, FrameContext
  <2>. QED BY <1>4, <1>11, <1>14, <2>2 DEF Typed
<1>15. CASE Taken.op \notin {"PING", "CLOSE"} /\ B # <<>> /\ ReturnData(Taken, B) /\ UNCHANGED gone
  <2>1. B \in Seq(Bytes) /\ Len(B) < BufLen /\ Taken.op \in {"TEXT", "BINARY"}
    <3>1. Taken.op \in {"TEXT", "BINARY"}
      BY <1>3, <1>5, <1>15 DEF Ops
    <3>. QED BY <1>1, <1>3, <3>1, BTyped
  <2>2. /\ todo' \in Seq(Nat \ {0}) /\ pc' \in {"read", "loop"} /\ (pc' = "read" => todo' # <<>>)
        /\ \E n \in Nat \ {0} : n <= Len(B) /\ got' \in Seq(Bytes) /\ ReturnStep(Taken, B, n)
    BY <1>3, <1>9, <1>15, <2>1, ReturnIs
  <2>3. PICK n \in Nat : n > 0 /\ n <= Len(B) /\ got' \in Seq(Bytes) /\ ReturnStep(Taken, B, n)
    BY <2>2
  <2>4. ContextTyped'
    BY <1>3, <1>4, <1>5, <1>6, <2>1, <2>2, <2>3, ReturnContext
  <2>5. ThreadTyped'
    BY <1>1, <1>15, <2>2, <2>3 DEF Typed, ThreadTyped
  <2>. QED BY <1>4, <2>4, <2>5 DEF Typed
<1>. QED
  <2>. HIDE DEF Complete
  <2>. QED BY <1>1, <1>10, <1>12, <1>13, <1>14, <1>15 DEF BodyStep

LEMMA TypedStep == Typed /\ [Next]_vars => Typed'
<1>. SUFFICES ASSUME Typed, [Next]_vars PROVE Typed'
  OBVIOUS
<1>1. CASE Arrive
  BY <1>1, ArriveTyped
<1>2. CASE HangUp \/ CheckFds \/ NextMessage \/ Waited \/ Timeout
  BY <1>2, WaitsTyped
<1>3. CASE ReadHeader
  BY <1>3, ReadHeaderTyped
<1>4. CASE ReadRest
  BY <1>4, ReadRestTyped
<1>5. CASE ReadFails
  BY <1>5, ReadFailsTyped
<1>6. CASE ReadAndDecode
  BY <1>6, DecodeTyped
<1>7. CASE ReturnReady
  BY <1>7, ReturnReadyTyped
<1>8. CASE UNCHANGED vars
  BY <1>8 DEF vars, Typed, SocketTyped, ThreadTyped, ContextTyped, AtRest, InRest, InFrame, IsReady,
              WritePos, Current
<1>. QED BY <1>1, <1>2, <1>3, <1>4, <1>5, <1>6, <1>7, <1>8 DEF Next, Server

\* In every reachable state the socket, the thread and the context have their types:
\* a context between frames holds nothing, one inside a payload names its frame and
\* what it carries over, and decoded bytes wait only for a thread that reads.
THEOREM Invariant == Spec => []Typed
<1>. QED BY TypedInit, TypedStep, PTL DEF Spec

LEMMA TypedOK == Typed => TypeOK
<1>. SUFFICES ASSUME Typed PROVE TypeOK
  OBVIOUS
<1>1. pos \in Nat /\ pos <= Arrived /\ Arrived <= Total(stream)
  BY EndsTyped
<1>2. /\ ws \in Context /\ ws.frame <= Len(stream) /\ AtRest /\ InFrame /\ IsReady /\ ThreadTyped /\ stream \in Streams
  BY DEF Typed, ContextTyped, SocketTyped
<1>3. /\ ws.st \in {"HEADER", "NEEDED", "CLOSING", "AVAILABLE"}
      /\ ws.op \in {"INVALID", "TEXT", "BINARY", "PING", "CLOSE"} /\ ws.cont \in {"INVALID", "TEXT", "BINARY"}
      /\ ws.nRead \in 0 .. 14 /\ ws.frame \in Nat /\ ws.nPayload \in Nat
  BY <1>2 DEF Context, Ops
<1>4. ws.frame \in 0 .. Len(stream) /\ Len(stream) \in Nat
  BY <1>2, <1>3, StreamTyped
<1>5. ws.frame > 0 => ws.nPayload \in 0 .. Current.len
  <2>. SUFFICES ASSUME ws.frame > 0 PROVE ws.nPayload \in 0 .. Current.len
    OBVIOUS
  <2>1. Current.len \in Nat
    <3>1. PICK i \in 1 .. Len(stream) : i = ws.frame
      BY <1>4
    <3>. QED BY <1>2, <3>1, FrameTyped DEF Current
  <2>2. ws.nPayload <= Current.len
    BY <1>2, <1>3, <2>1 DEF AtRest, InFrame
  <2>. QED BY <1>3, <2>1, <2>2
<1>6. Len(ws.carry) <= 3 /\ (ws.st \in {"NEEDED", "CLOSING"} => WritePos + Len(ws.carry) < BufLen)
  BY <1>2 DEF AtRest, InFrame
<1>7. Len(ws.ready) < BufLen
  <2>1. CASE ws.st = "AVAILABLE"
    BY <1>2, <2>1 DEF IsReady
  <2>2. CASE ws.st # "AVAILABLE"
    <3>1. Len(ws.ready) = 0
      BY <1>2, <2>2 DEF IsReady
    <3>. QED BY <3>1, Room
  <2>. QED BY <2>1, <2>2
<1>8. /\ pc \in {"select", "read", "rest", "wait", "loop"} /\ gone \in {"no", "timeout", "closed", "error"}
      /\ pc = "read" => todo # <<>> /\ Head(todo) > 0
  <2>1. todo # <<>> => Head(todo) \in Nat \ {0}
    BY <1>2, HeadTail DEF ThreadTyped
  <2>. QED BY <1>2, <2>1 DEF ThreadTyped
<1>. QED BY <1>1, <1>3, <1>4, <1>5, <1>6, <1>7, <1>8 DEF TypeOK

\* What is carried over and what is decoded fit the buffer, in whatever pieces the
\* bytes arrive and whatever the browser sends.
THEOREM TypeCorrect == Spec => []TypeOK
<1>. QED BY Invariant, TypedOK, PTL

-----------------------------------------------------------------------------
(* The operation of a frame and the message it belongs to.                 *)

\* The message that is open where the frame i begins.
LEMMA ContTyped == ASSUME NEW s, NEW i PROVE ContBefore(s, i) \in Conts /\ (ContBefore(s, i) # "INVALID" <=> Fragmented(s, i))
  BY DEF ContBefore, Conts

LEMMA FirstCont == ASSUME NEW s PROVE ContBefore(s, 1) = "INVALID"
<1>1. ~Fragmented(s, 1)
  BY DEF Fragmented
<1>. QED BY <1>1 DEF ContBefore

\* The text to which the frame i belongs began before it, or in it.
LEMMA TextIs ==
  ASSUME NEW s \in Streams, NEW i \in 1 .. Len(s), ~Control(s[i])
  PROVE  /\ s[i].op = "TEXT" => Base64Text(s, i)
         /\ s[i].op = "BINARY" => ~Base64Text(s, i)
         /\ s[i].op = "CONT" => (Base64Text(s, i) <=> TextStarted(s, i))
<1>1. i \in Nat /\ i >= 1
  BY StreamTyped
<1>2. ASSUME s[i].op = "TEXT" PROVE Base64Text(s, i)
  <2>1. i \in 1 .. i /\ \A k \in (i + 1) .. i : s[k].op # "BINARY"
    BY <1>1
  <2>. QED BY <1>2, <2>1 DEF Base64Text
<1>3. ASSUME s[i].op = "BINARY", Base64Text(s, i) PROVE FALSE
  <2>1. PICK j \in 1 .. i : s[j].op = "TEXT" /\ \A k \in (j + 1) .. i : s[k].op # "BINARY"
    BY <1>3 DEF Base64Text
  <2>2. j # i
    BY <1>3, <2>1
  <2>3. i \in (j + 1) .. i
    BY <1>1, <2>2
  <2>. QED BY <1>3, <2>1, <2>3
<1>4. ASSUME s[i].op = "CONT", Base64Text(s, i) PROVE TextStarted(s, i)
  <2>1. PICK j \in 1 .. i : s[j].op = "TEXT" /\ \A k \in (j + 1) .. i : s[k].op # "BINARY"
    BY <1>4 DEF Base64Text
  <2>2. j # i
    BY <1>4, <2>1
  <2>3. j \in 1 .. (i - 1) /\ (j + 1) .. (i - 1) \subseteq (j + 1) .. i
    BY <1>1, <2>2
  <2>. QED BY <2>1, <2>3 DEF TextStarted
<1>5. ASSUME s[i].op = "CONT", TextStarted(s, i) PROVE Base64Text(s, i)
  <2>1. PICK j \in 1 .. (i - 1) : s[j].op = "TEXT" /\ \A k \in (j + 1) .. (i - 1) : s[k].op # "BINARY"
    BY <1>5 DEF TextStarted
  <2>2. j \in 1 .. i
    BY <1>1
  <2>3. ASSUME NEW k \in (j + 1) .. i PROVE s[k].op # "BINARY"
    <3>1. k = i \/ k \in (j + 1) .. (i - 1)
      BY <1>1
    <3>. QED BY <1>5, <2>1, <3>1
  <2>. QED BY <2>1, <2>2, <2>3 DEF Base64Text
<1>. QED BY <1>2, <1>3, <1>4, <1>5

\* The first two bytes of the frame i are read, with the message c open, or read
\* again.
LEMMA InterpretedIs ==
  ASSUME NEW s \in Streams, NEW i \in 1 .. Len(s),
         \/ ws.cont = ContBefore(s, i) /\ ~BadStart(ws, s[i])
         \/ ws.cont = ContWithin(s, i) /\ GoodStart(s, i)
  PROVE  /\ NewOp(s[i]) = Op(s, i) /\ NewCont(s[i]) = ContWithin(s, i)
         /\ GoodStart(s, i) /\ ~BadStart(ws, s[i])
<1>. DEFINE f == s[i]
<1>1. /\ f.op \in {"TEXT", "BINARY", "CONT", "PING", "CLOSE"} /\ f.fin \in BOOLEAN /\ f.masked \in BOOLEAN
      /\ Control(f) <=> f.op \in {"PING", "CLOSE"}
  BY FrameTyped DEF Control
<1>2. GoodStart(s, i) /\ ~BadStart(ws, f)
  BY <1>1, ContTyped DEF GoodStart, BadStart, ContWithin
<1>3. f.op = "CONT" => ws.cont = ContBefore(s, i) /\ ContBefore(s, i) # "INVALID"
  BY <1>1, <1>2, ContTyped DEF GoodStart, ContWithin
<1>4. CASE Control(f)
  <2>1. f.op # "CONT" /\ f.op \notin {"TEXT", "BINARY"}
    BY <1>1, <1>4
  <2>2. ws.cont = ContBefore(s, i)
    BY <2>1 DEF ContWithin
  <2>. QED BY <1>2, <1>4, <2>1, <2>2 DEF NewOp, NewCont, Op, ContWithin
<1>5. CASE f.op = "CONT"
  <2>1. ~Control(f) /\ f.op \notin {"TEXT", "BINARY"}
    BY <1>1, <1>5
  <2>2. Op(s, i) = ContBefore(s, i)
    BY <1>3, <1>5, <2>1, TextIs DEF Op, ContBefore
  <2>3. NewOp(f) = ws.cont /\ NewCont(f) = ws.cont /\ ContWithin(s, i) = ContBefore(s, i)
    BY <1>5, <2>1 DEF NewOp, NewCont, ContWithin
  <2>. QED BY <1>2, <1>3, <1>5, <2>2, <2>3
<1>6. CASE f.op \in {"TEXT", "BINARY"}
  <2>1. ~Control(f) /\ f.op # "CONT"
    BY <1>1, <1>6
  <2>2. Op(s, i) = f.op
    BY <1>6, <2>1, TextIs DEF Op
  <2>. QED BY <1>2, <1>6, <2>1, <2>2 DEF NewOp, NewCont, ContWithin
<1>. QED BY <1>1, <1>4, <1>5, <1>6

\* A frame that begins as it must not.
LEMMA BadIs ==
  ASSUME NEW s \in Streams, NEW i \in 1 .. Len(s), ws.cont = ContBefore(s, i), BadStart(ws, s[i])
  PROVE  Forbidden(s, i)
  BY ContTyped DEF BadStart, Forbidden

\* The message that is open behind the frame i.
LEMMA ContAfter ==
  ASSUME NEW s \in Streams, NEW i \in 1 .. Len(s), GoodStart(s, i)
  PROVE  ContBefore(s, i + 1) = IF s[i].fin /\ ~Control(s[i]) THEN "INVALID" ELSE ContWithin(s, i)
<1>. DEFINE f == s[i]
<1>1. /\ f.op \in {"TEXT", "BINARY", "CONT", "PING", "CLOSE"} /\ f.fin \in BOOLEAN
      /\ Control(f) <=> f.op \in {"PING", "CLOSE"}
  BY FrameTyped DEF Control
<1>2. i \in Nat /\ i >= 1 /\ (i + 1) - 1 = i
  BY StreamTyped
<1>3. Fragmented(s, i + 1) <=> ~(f.fin /\ ~Control(f)) /\ (f.op \in {"TEXT", "BINARY"} \/ Fragmented(s, i))
  <2>1. ASSUME Fragmented(s, i + 1)
        PROVE  ~(f.fin /\ ~Control(f)) /\ (f.op \in {"TEXT", "BINARY"} \/ Fragmented(s, i))
    <3>1. PICK j \in 1 .. i : /\ s[j].op \in {"TEXT", "BINARY"} /\ ~s[j].fin
                              /\ \A k \in (j + 1) .. i : ~s[k].fin \/ Control(s[k])
      BY <1>2, <2>1 DEF Fragmented
    <3>2. CASE j = i
      BY <3>1, <3>2
    <3>3. CASE j # i
      <4>1. j \in 1 .. (i - 1) /\ i \in (j + 1) .. i /\ (j + 1) .. (i - 1) \subseteq (j + 1) .. i
        BY <1>2, <3>3
      <4>2. Fragmented(s, i)
        BY <3>1, <4>1 DEF Fragmented
      <4>. QED BY <3>1, <4>1, <4>2
    <3>. QED BY <3>2, <3>3
  <2>2. ASSUME ~(f.fin /\ ~Control(f)), f.op \in {"TEXT", "BINARY"}
        PROVE  Fragmented(s, i + 1)
    <3>1. ~f.fin
      BY <1>1, <2>2
    <3>2. i \in 1 .. ((i + 1) - 1) /\ \A k \in (i + 1) .. ((i + 1) - 1) : ~s[k].fin \/ Control(s[k])
      BY <1>2
    <3>. QED BY <2>2, <3>1, <3>2 DEF Fragmented
  <2>3. ASSUME ~(f.fin /\ ~Control(f)), Fragmented(s, i)
        PROVE  Fragmented(s, i + 1)
    <3>1. PICK j \in 1 .. (i - 1) : /\ s[j].op \in {"TEXT", "BINARY"} /\ ~s[j].fin
                                    /\ \A k \in (j + 1) .. (i - 1) : ~s[k].fin \/ Control(s[k])
      BY <2>3 DEF Fragmented
    <3>2. j \in 1 .. ((i + 1) - 1)
      BY <1>2
    <3>3. ASSUME NEW k \in (j + 1) .. ((i + 1) - 1) PROVE ~s[k].fin \/ Control(s[k])
      <4>1. k = i \/ k \in (j + 1) .. (i - 1)
        BY <1>2
      <4>. QED BY <2>3, <3>1, <4>1
    <3>. QED BY <3>1, <3>2, <3>3 DEF Fragmented
  <2>. QED BY <2>1, <2>2, <2>3
<1>4. TextStarted(s, i + 1) <=> f.op = "TEXT" \/ (f.op # "BINARY" /\ TextStarted(s, i))
  <2>1. ASSUME TextStarted(s, i + 1) PROVE f.op = "TEXT" \/ (f.op # "BINARY" /\ TextStarted(s, i))
    <3>1. PICK j \in 1 .. i : s[j].op = "TEXT" /\ \A k \in (j + 1) .. i : s[k].op # "BINARY"
      BY <1>2, <2>1 DEF TextStarted
    <3>2. CASE j = i
      BY <3>1, <3>2
    <3>3. CASE j # i
      <4>1. j \in 1 .. (i - 1) /\ i \in (j + 1) .. i /\ (j + 1) .. (i - 1) \subseteq (j + 1) .. i
        BY <1>2, <3>3
      <4>2. TextStarted(s, i)
        BY <3>1, <4>1 DEF TextStarted
      <4>. QED BY <3>1, <4>1, <4>2
    <3>. QED BY <3>2, <3>3
  <2>2. ASSUME f.op = "TEXT" PROVE TextStarted(s, i + 1)
    <3>1. i \in 1 .. ((i + 1) - 1) /\ \A k \in (i + 1) .. ((i + 1) - 1) : s[k].op # "BINARY"
      BY <1>2
    <3>. QED BY <2>2, <3>1 DEF TextStarted
  <2>3. ASSUME f.op # "BINARY", TextStarted(s, i) PROVE TextStarted(s, i + 1)
    <3>1. PICK j \in 1 .. (i - 1) : s[j].op = "TEXT" /\ \A k \in (j + 1) .. (i - 1) : s[k].op # "BINARY"
      BY <2>3 DEF TextStarted
    <3>2. j \in 1 .. ((i + 1) - 1)
      BY <1>2
    <3>3. ASSUME NEW k \in (j + 1) .. ((i + 1) - 1) PROVE s[k].op # "BINARY"
      <4>1. k = i \/ k \in (j + 1) .. (i - 1)
        BY <1>2
      <4>. QED BY <2>3, <3>1, <4>1
    <3>. QED BY <3>1, <3>2, <3>3 DEF TextStarted
  <2>. QED BY <2>1, <2>2, <2>3
<1>5. f.op = "CONT" => Fragmented(s, i)
  BY DEF GoodStart
<1>6. Control(f) => f.fin
  BY DEF GoodStart
<1>. HIDE DEF f
<1>. DEFINE Now == ContBefore(s, i + 1)
            Want == IF f.fin /\ ~Control(f) THEN "INVALID" ELSE ContWithin(s, i)
<1>7. Now = Want
  <2>1. CASE f.fin /\ ~Control(f)
    <3>1. ~Fragmented(s, i + 1)
      BY <1>3, <2>1
    <3>. QED BY <2>1, <3>1 DEF ContBefore
  <2>2. CASE Control(f)
    <3>1. f.op \notin {"TEXT", "BINARY"}
      BY <1>1, <2>2
    <3>2. (Fragmented(s, i + 1) <=> Fragmented(s, i)) /\ (TextStarted(s, i + 1) <=> TextStarted(s, i))
      BY <1>3, <1>4, <2>2, <3>1
    <3>3. Now = ContBefore(s, i)
      BY <3>2 DEF ContBefore
    <3>. QED BY <2>2, <3>1, <3>3 DEF ContWithin, f
  <2>3. CASE ~f.fin /\ f.op \in {"TEXT", "BINARY"}
    <3>1. Fragmented(s, i + 1) /\ (TextStarted(s, i + 1) <=> f.op = "TEXT")
      BY <1>3, <1>4, <2>3
    <3>2. Now = f.op
      BY <2>3, <3>1 DEF ContBefore
    <3>. QED BY <2>3, <3>2 DEF ContWithin, f
  <2>4. CASE ~f.fin /\ f.op = "CONT"
    <3>1. Fragmented(s, i + 1) /\ Fragmented(s, i) /\ (TextStarted(s, i + 1) <=> TextStarted(s, i))
      BY <1>3, <1>4, <1>5, <2>4
    <3>2. Now = ContBefore(s, i)
      BY <3>1 DEF ContBefore
    <3>. QED BY <2>4, <3>2 DEF ContWithin, f
  <2>. QED BY <1>1, <1>6, <2>1, <2>2, <2>3, <2>4
<1>. QED BY <1>7 DEF f

-----------------------------------------------------------------------------
(* Where the bytes may stop.                                               *)

\* Inside a frame they stop in the first bytes of its header.
LEMMA CutInside ==
  ASSUME NEW s \in Streams, NEW t \in BOOLEAN, NEW e \in Nat, WholeAt(s, t, e), NEW i \in 1 .. Len(s),
         Start(s, i) < e, e < Start(s, i) + s[i].head + s[i].len
  PROVE  /\ e < Start(s, i) + s[i].head => e <= Start(s, i) + 5
         /\ ~t => e <= Start(s, i) + (IF s[i].head = 6 THEN 5 ELSE 1)
<1>0. Len(s) \in Nat
  BY StreamTyped
<1>1. ASSUME NEW k \in 1 .. Len(s)
      PROVE  /\ Start(s, k) \in Nat /\ s[k].len \in Nat /\ s[k].head \in {6, 8, 14}
             /\ (Start(s, k) <= e /\ e < Start(s, k) + s[k].head + s[k].len) => k = i
             /\ e # Start(s, k) + s[k].head + s[k].len
  <2>1. /\ Start(s, k) \in Nat /\ s[k].len \in Nat /\ s[k].head \in {6, 8, 14}
        /\ Start(s, i) \in Nat /\ s[i].len \in Nat /\ s[i].head \in {6, 8, 14}
    BY <1>0, FrameTyped, StartAt
  <2>2. ASSUME Start(s, k) <= e, e < Start(s, k) + s[k].head + s[k].len PROVE k = i
    <3>1. Start(s, i) <= e /\ i \in 1 .. Len(s) + 1
      BY <1>0, <2>1
    <3>. QED BY <2>2, <3>1, OneFrame
  <2>4. PICK a \in Nat, b \in {6, 8, 14}, c \in Nat : a = Start(s, k) /\ b = s[k].head /\ c = s[k].len
    BY <2>1
  <2>5. PICK f \in Nat, g \in {6, 8, 14}, h \in Nat : f = Start(s, i) /\ g = s[i].head /\ h = s[i].len
    BY <2>1
  <2>6. f < e /\ e < f + g + h
    BY <2>5
  <2>3. e # Start(s, k) + s[k].head + s[k].len
    <3>1. CASE k < i
      <4>1. Start(s, k) + s[k].head + s[k].len <= Start(s, i)
        BY <1>0, <3>1, StartsGrow
      <4>2. a + b + c <= f
        BY <2>4, <2>5, <4>1
      <4>3. e # a + b + c
        BY <2>6, <4>2
      <4>. QED BY <2>4, <4>3
    <3>2. CASE k = i
      BY <2>5, <2>6, <3>2
    <3>3. CASE i < k
      <4>1. Start(s, i) + s[i].head + s[i].len <= Start(s, k)
        BY <1>0, <3>3, StartsGrow
      <4>2. f + g + h <= a
        BY <2>4, <2>5, <4>1
      <4>3. e # a + b + c
        BY <2>6, <4>2
      <4>. QED BY <2>4, <4>3
    <3>. QED BY <1>0, <3>1, <3>2, <3>3
  <2>. QED BY <2>1, <2>2, <2>3
<1>2. e # Total(s)
  <2>1. Start(s, Len(s) + 1) = Start(s, Len(s)) + s[Len(s)].head + s[Len(s)].len /\ Len(s) \in 1 .. Len(s)
    BY <1>0, StartAt
  <2>. QED BY <1>1, <2>1 DEF Total
<1>3. PICK k \in 1 .. Len(s) :
       \/ e = Start(s, k)
       \/ e - Start(s, k) \in 1 .. (IF s[k].head = 6 THEN 5 ELSE 1)
       \/ t /\ e - Start(s, k) \in (2 .. 5) \cup (s[k].head .. (s[k].head + s[k].len))
  BY <1>2 DEF WholeAt
<1>4. PICK x \in Nat, h \in {6, 8, 14}, l \in Nat : x = Start(s, k) /\ h = s[k].head /\ l = s[k].len
  BY <1>1
<1>5. /\ x <= e /\ e < x + h + l => k = i
      /\ e # x + h + l
  BY <1>1, <1>4
<1>6. \/ e = x
      \/ e - x \in 1 .. (IF h = 6 THEN 5 ELSE 1)
      \/ t /\ e - x \in (2 .. 5) \cup (h .. (h + l))
  BY <1>3, <1>4
<1>7. x <= e /\ e < x + h + l
  BY <1>5, <1>6
<1>8. k = i
  BY <1>5, <1>7
<1>9. x < e
  BY <1>4, <1>8
<1>10. e < x + h => e <= x + 5
  BY <1>6, <1>9
<1>11. ~t => e <= x + (IF h = 6 THEN 5 ELSE 1)
  BY <1>6, <1>9
<1>. QED BY <1>4, <1>8, <1>10, <1>11

\* On a plain socket the frames of one message come together.
LEMMA CutBefore ==
  ASSUME NEW s \in Streams, NEW i \in 1 .. Len(s), WholeAt(s, FALSE, Start(s, i))
  PROVE  ~Fragmented(s, i)
<1>. DEFINE e == Start(s, i)
<1>0. Len(s) \in Nat
  BY StreamTyped
<1>1. ASSUME NEW k \in 1 .. Len(s)
      PROVE  /\ Start(s, k) \in Nat /\ s[k].len \in Nat /\ s[k].head \in {6, 8, 14}
             /\ (Start(s, k) <= e /\ e < Start(s, k) + s[k].head + s[k].len) => k = i
  <2>1. /\ Start(s, k) \in Nat /\ s[k].len \in Nat /\ s[k].head \in {6, 8, 14}
        /\ Start(s, i) \in Nat /\ s[i].len \in Nat /\ s[i].head \in {6, 8, 14}
    BY <1>0, FrameTyped, StartAt
  <2>2. ASSUME Start(s, k) <= e, e < Start(s, k) + s[k].head + s[k].len PROVE k = i
    <3>1. Start(s, i) <= e /\ i \in 1 .. Len(s) + 1 /\ e < Start(s, i) + s[i].head + s[i].len /\ e \in Nat
      BY <1>0, <2>1
    <3>. QED BY <2>2, <3>1, OneFrame
  <2>. QED BY <2>1, <2>2
<1>2. e # Total(s)
  <2>1. i < Len(s) + 1 /\ Len(s) + 1 \in 1 .. Len(s) + 1
    BY <1>0
  <2>2. Start(s, i) + s[i].head + s[i].len <= Start(s, Len(s) + 1) /\ Start(s, Len(s) + 1) \in Nat
    BY <2>1, StartsGrow, StartAt
  <2>3. PICK x \in Nat, h \in {6, 8, 14}, l \in Nat : x = Start(s, i) /\ h = s[i].head /\ l = s[i].len
    BY <1>1
  <2>4. x + h + l <= Start(s, Len(s) + 1)
    BY <2>2, <2>3
  <2>5. x # Start(s, Len(s) + 1)
    BY <2>2, <2>4
  <2>. QED BY <2>3, <2>5 DEF Total
<1>. HIDE DEF e
<1>3. PICK k \in 1 .. Len(s) :
       \/ e = Start(s, k) /\ ~Fragmented(s, k)
       \/ e - Start(s, k) \in 1 .. (IF s[k].head = 6 THEN 5 ELSE 1)
  BY <1>2 DEF WholeAt, e
<1>4. PICK x \in Nat, h \in {6, 8, 14}, l \in Nat : x = Start(s, k) /\ h = s[k].head /\ l = s[k].len
  BY <1>1
<1>5. e \in Nat
  BY <1>1 DEF e
<1>6. e = x \/ e - x \in 1 .. (IF h = 6 THEN 5 ELSE 1)
  BY <1>3, <1>4
<1>7. x <= e /\ e < x + h + l
  BY <1>5, <1>6
<1>8. k = i
  BY <1>1, <1>4, <1>7
<1>9. ~(e - x \in 1 .. (IF h = 6 THEN 5 ELSE 1))
  BY <1>4, <1>5, <1>8 DEF e
<1>. QED BY <1>3, <1>4, <1>8, <1>9

-----------------------------------------------------------------------------
(* How far a frame is decoded.                                             *)

LEMMA DecodedTyped ==
  ASSUME NEW s \in Streams, NEW i \in 1 .. Len(s), NEW b \in Nat, b <= s[i].len
  PROVE  /\ Decoded(s, i, b) \in Nat /\ Decoded(s, i, b) <= DataLen(s, i)
         /\ Decoded(s, i, s[i].len) = DataLen(s, i) /\ Decoded(s, i, 0) = 0
<1>1. PICK l \in Nat, p \in 0 .. 2, d \in Nat : l = s[i].len /\ p = s[i].pad /\ d = DataLen(s, i) /\ b <= l
  BY FrameTyped, DataTyped
<1>2. CASE Control(s[i])
  BY <1>1, <1>2 DEF Decoded, DataLen
<1>3. CASE ~Control(s[i]) /\ ~Base64Text(s, i)
  BY <1>1, <1>3 DEF Decoded, DataLen
<1>4. CASE ~Control(s[i]) /\ Base64Text(s, i)
  <2>1. d = 3 * (l \div 4) - p
    BY <1>1, <1>4 DEF DataLen
  <2>2. l % 4 = 0 /\ (l = 0 => p = 0)
    BY <1>1, <1>4, TextAssumption
  <2>3. ASSUME NEW c \in Nat, c < l PROVE 3 * (c \div 4) \in Nat /\ 3 * (c \div 4) <= d
    <3>1. PICK q \in Nat : q = l \div 4 /\ l = 4 * q
      BY <2>2
    <3>2. PICK r \in Nat : r = c \div 4 /\ 4 * r <= c
      OBVIOUS
    <3>3. r < q
      BY <2>3, <3>1, <3>2
    <3>4. 3 * r <= 3 * q - p /\ 3 * r \in Nat
      BY <3>3
    <3>5. d = 3 * q - p
      BY <2>1, <3>1
    <3>6. 3 * r \in Nat /\ 3 * r <= d
      BY <3>4, <3>5
    <3>. QED BY <3>2, <3>6
  <2>4. l = 0 => d = 0
    <3>1. 3 * (0 \div 4) - 0 = 0
      OBVIOUS
    <3>2. ASSUME l = 0 PROVE d = 3 * (0 \div 4) - 0
      BY <2>1, <2>2, <3>2
    <3>. QED BY <3>1, <3>2
  <2>5. \A c \in Nat : Decoded(s, i, c) = IF c = l THEN d ELSE 3 * (c \div 4)
    BY <1>1, <1>4 DEF Decoded
  <2>6. Decoded(s, i, b) \in Nat /\ Decoded(s, i, b) <= d
    <3>1. CASE b = l
      BY <1>1, <2>5, <3>1
    <3>2. CASE b < l
      <4>1. Decoded(s, i, b) = 3 * (b \div 4)
        BY <2>5, <3>2
      <4>. QED BY <2>3, <3>2, <4>1
    <3>. QED BY <1>1, <3>1, <3>2
  <2>7. Decoded(s, i, l) = d
    BY <2>5
  <2>8. Decoded(s, i, 0) = 0
    <3>1. 3 * (0 \div 4) = 0
      OBVIOUS
    <3>. QED BY <2>4, <2>5, <3>1
  <2>. QED BY <1>1, <2>6, <2>7, <2>8
<1>. QED BY <1>2, <1>3, <1>4

LEMMA FrontTyped ==
  ASSUME NEW s \in Streams, NEW n \in Nat, n <= Len(All(s))
  PROVE  /\ Span(s, 1, n) \in Seq(Bytes) /\ Len(Span(s, 1, n)) = n
         /\ IsPrefix(Span(s, 1, n), Payload(s, Len(s)))
         /\ \A i \in 0 .. Len(s) : Off(s, i) <= n => IsPrefix(Payload(s, i), Span(s, 1, n))
<1>1. All(s) \in Seq(Bytes) /\ Len(All(s)) \in Nat
  BY AllTyped
<1>2. PICK m \in Nat : m = Len(All(s)) /\ n <= m
  BY <1>1
<1>3. Span(s, 1, n) = SubSeq(All(s), 1, n)
  BY DEF Span, All
<1>4. SubSeq(All(s), 0 + 1, n) \in Seq(Bytes) /\ Len(SubSeq(All(s), 0 + 1, n)) = n - 0
  BY <1>1, <1>2, PartTyped
<1>5. IsPrefix(SubSeq(All(s), 1, n), SubSeq(All(s), 1, m))
  BY <1>1, <1>2, PrefixOf
<1>6. SubSeq(All(s), 1, m) = All(s)
  BY <1>1, <1>2
<1>7. Payload(s, Len(s)) = All(s)
  BY DEF All
<1>8. ASSUME NEW i \in 0 .. Len(s), Off(s, i) <= n PROVE IsPrefix(Payload(s, i), Span(s, 1, n))
  <2>1. PICK a \in Nat : a = Off(s, i) /\ a <= n
    BY <1>8, AllTyped
  <2>2. IsPrefix(SubSeq(All(s), 1, a), SubSeq(All(s), 1, n))
    BY <1>1, <1>2, <2>1, PrefixOf
  <2>3. Payload(s, i) = Span(s, 1, a)
    BY <2>1, PayloadSpan
  <2>. QED BY <1>3, <2>2, <2>3 DEF Span, All
<1>9. IsPrefix(Span(s, 1, n), Payload(s, Len(s)))
  BY <1>2, <1>3, <1>5, <1>6, <1>7
<1>10. Span(s, 1, n) \in Seq(Bytes) /\ Len(Span(s, 1, n)) = n
  BY <1>3, <1>4
<1>. QED BY <1>8, <1>9, <1>10

\* Two frames do not begin at one place.
LEMMA SamePlace ==
  ASSUME NEW s \in Streams, NEW i \in 1 .. Len(s) + 1, NEW j \in 1 .. Len(s), Start(s, i) = Start(s, j)
  PROVE  i = j
<1>0. Len(s) \in Nat
  BY StreamTyped
<1>1. PICK x \in Nat, h \in {6, 8, 14}, l \in Nat : x = Start(s, j) /\ h = s[j].head /\ l = s[j].len
  BY <1>0, FrameTyped, StartAt
<1>2. x < x + h + l
  OBVIOUS
<1>3. i <= Len(s) => x < Start(s, i) + s[i].head + s[i].len
  <2>. SUFFICES ASSUME i <= Len(s) PROVE x < Start(s, i) + s[i].head + s[i].len
    OBVIOUS
  <2>1. i \in 1 .. Len(s)
    BY <1>0
  <2>2. PICK g \in {6, 8, 14}, m \in Nat : g = s[i].head /\ m = s[i].len
    BY <2>1, FrameTyped
  <2>3. x < x + g + m
    OBVIOUS
  <2>. QED BY <1>1, <2>2, <2>3
<1>4. Start(s, j) \in Nat /\ Start(s, i) <= Start(s, j) /\ Start(s, j) <= Start(s, j)
  BY <1>1
<1>5. /\ i <= Len(s) => Start(s, j) < Start(s, i) + s[i].head + s[i].len
      /\ Start(s, j) < Start(s, j) + s[j].head + s[j].len
  BY <1>1, <1>2, <1>3
<1>. QED BY <1>4, <1>5, OneFrame

\* A place before the end of the frame k is no later start.
LEMMA BeforeEnd ==
  ASSUME NEW s \in Streams, NEW k \in 1 .. Len(s), NEW p \in Nat, p < Start(s, k) + s[k].head + s[k].len,
         NEW i \in 0 .. Len(s), Start(s, i + 1) <= p
  PROVE  i <= k - 1
<1>0. Len(s) \in Nat /\ i + 1 \in 1 .. Len(s) + 1
  BY StreamTyped
<1>1. PICK x \in Nat, h \in {6, 8, 14}, l \in Nat : x = Start(s, k) /\ h = s[k].head /\ l = s[k].len
  <2>1. Start(s, k) \in Nat
    <3>1. k \in 1 .. Len(s) + 1
      BY <1>0
    <3>. QED BY <3>1, StartAt
  <2>. QED BY <2>1, FrameTyped
<1>2. PICK y \in Nat : y = Start(s, i + 1)
  BY <1>0, StartAt
<1>3. CASE k < i + 1
  <2>1. Start(s, k) + s[k].head + s[k].len <= Start(s, i + 1)
    BY <1>0, <1>3, StartsGrow
  <2>2. x + h + l <= y /\ y <= p /\ p < x + h + l
    BY <1>1, <1>2, <2>1
  <2>. QED BY <2>2
<1>. QED BY <1>0, <1>3

-----------------------------------------------------------------------------
(* Where the decoder is.                                                   *)

\* A part that is empty.
LEMMA EmptyPart ==
  ASSUME NEW s \in Streams, NEW m \in Nat, NEW n \in Nat, m <= n, n <= Len(All(s)),
         Span(s, m + 1, n) = <<>>
  PROVE  m = n
<1>1. All(s) \in Seq(Bytes)
  BY AllTyped
<1>2. Len(SubSeq(All(s), m + 1, n)) = n - m
  BY <1>1, PartTyped
<1>3. Len(SubSeq(All(s), m + 1, n)) = 0
  BY DEF Span, All
<1>. QED BY <1>2, <1>3

\* A frame that is being received, and the bytes before it.
BodyAt(i, x, h, l, p, c, o, d) ==
  /\ i = ws.frame /\ x = Start(stream, i) /\ h = stream[i].head /\ l = stream[i].len
  /\ p = ws.nPayload /\ c = Len(ws.carry) /\ c <= p /\ p <= l
  /\ pos = x + h + p
  /\ p - c \in Nat /\ p - c = Base /\ ((p - c) % 4 = 0 \/ p = l)
  /\ (p = l => c = 0) /\ (p = l /\ ws.st # "AVAILABLE" => l = 0 /\ pc = "read")
  /\ o = Off(stream, i - 1) /\ d = Decoded(stream, i, p - c)
  /\ d <= DataLen(stream, i)
  /\ o + d <= Len(All(stream))
  /\ Len(got) \in Nat /\ Len(got) <= o + d
  /\ got = Span(stream, 1, Len(got))
  /\ ws.ready = Span(stream, Len(got) + 1, o + d)
  /\ Allowed(i)
  /\ ws.cont = ContWithin(stream, i) /\ ws.op = Op(stream, i)
  /\ \A j \in 1 .. c : ws.carry[j] = (p - c) + j - 1

LEMMA AtBodyIs ==
  ASSUME Typed, Live, ws.st # "HEADER"
  PROVE  \E i \in 1 .. Len(stream), x \in Nat, h \in {6, 8, 14}, l \in Nat, p \in Nat, c \in 0 .. 3, o \in Nat, d \in Nat :
           BodyAt(i, x, h, l, p, c, o, d)
<1>1. Typed /\ ws.st # "HEADER" /\ stream \in Streams /\ got \in Seq(Bytes)
  BY DEF Typed, SocketTyped, ThreadTyped
<1>2. /\ ws.frame \in 1 .. Len(stream) /\ Current = stream[ws.frame]
      /\ Current.len \in Nat /\ Current.head \in {6, 8, 14}
      /\ ws.nPayload \in Nat /\ ws.nPayload <= Current.len
      /\ Len(ws.carry) \in 0 .. 3 /\ Len(ws.carry) <= ws.nPayload
  BY <1>1, FrameIs DEF Current
<1>3. PICK i \in 1 .. Len(stream), h \in {6, 8, 14}, l \in Nat, p \in Nat, c \in 0 .. 3 :
        /\ i = ws.frame /\ h = stream[i].head /\ l = stream[i].len /\ p = ws.nPayload /\ c = Len(ws.carry)
        /\ c <= p /\ p <= l
  BY <1>2
<1>4. PICK x \in Nat : x = Start(stream, i)
  <2>1. Len(stream) \in Nat
    BY <1>1, StreamTyped
  <2>2. i \in 1 .. Len(stream) + 1
    BY <2>1
  <2>. QED BY <1>1, <2>2, StartAt
<1>5. AtBody(i)
  BY <1>1, <1>3 DEF Live
<1>6. PICK b \in Nat : b = p - c /\ b <= l
  BY <1>3
<1>7. Base = b
  BY <1>3, <1>6 DEF Base
<1>8. PICK o \in Nat, d \in Nat : /\ o = Off(stream, i - 1) /\ d = Decoded(stream, i, b)
                                  /\ d <= DataLen(stream, i) /\ o + d <= Len(All(stream))
  <2>1. b <= stream[i].len
    BY <1>3, <1>6
  <2>2. PICK d \in Nat : d = Decoded(stream, i, b) /\ d <= DataLen(stream, i)
    BY <1>1, <1>6, <2>1, DecodedTyped
  <2>3. PICK o \in Nat, u \in Nat, v \in Nat, w \in Nat :
          /\ o = Off(stream, i - 1) /\ u = Off(stream, i) /\ v = DataLen(stream, i) /\ w = Len(All(stream))
          /\ u = o + v /\ u <= w
    BY <1>1, DataAt, DataTyped, AllTyped
  <2>4. o + d <= w
    BY <2>2, <2>3
  <2>. QED BY <2>2, <2>3, <2>4
<1>9. /\ pos = x + h + p
      /\ b % 4 = 0 \/ p = l
      /\ p = l => ws.carry = <<>>
      /\ p = l /\ ws.st # "AVAILABLE" => l = 0 /\ pc = "read"
      /\ Len(got) <= o + d /\ got = Span(stream, 1, Len(got)) /\ ws.ready = Span(stream, Len(got) + 1, o + d)
      /\ Allowed(i)
      /\ ws.cont = ContWithin(stream, i) /\ ws.op = Op(stream, i)
      /\ \A j \in 1 .. c : ws.carry[j] = b + j - 1
  BY <1>3, <1>4, <1>5, <1>7, <1>8 DEF AtBody
<1>10. p = l => c = 0
  BY <1>3, <1>9
<1>11. Len(got) \in Nat
  BY <1>1
<1>. QED
  <2>. HIDE DEF Base
  <2>1. (p - c) % 4 = 0 \/ p = l
    BY <1>6, <1>9
  <2>2. d = Decoded(stream, i, p - c)
    BY <1>6, <1>8
  <2>3. \A j \in 1 .. c : ws.carry[j] = (p - c) + j - 1
    BY <1>6, <1>9
  <2>4. p - c \in Nat /\ p - c = Base
    BY <1>6, <1>7
  <2>5. BodyAt(i, x, h, l, p, c, o, d)
    BY <1>3, <1>4, <1>8, <1>9, <1>10, <1>11, <2>1, <2>2, <2>3, <2>4 DEF BodyAt
  <2>. QED BY <2>5

\* A header that is being received.
HeadAt(i, x, m, o) ==
  /\ AtHeader(i)
  /\ x = Start(stream, i) /\ m = ws.nRead /\ pos = x + m
  /\ o = Off(stream, i - 1) /\ o <= Len(All(stream)) /\ got = Span(stream, 1, o)
  /\ i - 1 \in 0 .. Len(stream)

LEMMA AtHeaderIs ==
  ASSUME Typed, Live, ws.st = "HEADER"
  PROVE  \E i \in 1 .. Len(stream) + 1, x \in Nat, m \in 0 .. 14, o \in Nat : HeadAt(i, x, m, o)
<1>1. Typed /\ ws.st = "HEADER" /\ stream \in Streams /\ pos \in Nat
  BY DEF Typed, SocketTyped
<1>2. PICK i \in 1 .. Len(stream) + 1 : AtHeader(i)
  BY <1>1 DEF Live
<1>3. PICK m \in 0 .. 14 : m = ws.nRead
  BY <1>1, HeaderIs DEF Typed
<1>4. PICK x \in Nat : x = Start(stream, i)
  BY <1>1, StartAt
<1>5. pos - m = x /\ got = Span(stream, 1, Off(stream, i - 1))
  BY <1>2, <1>3, <1>4 DEF AtHeader
<1>6. pos = x + m
  BY <1>1, <1>5
<1>7. i - 1 \in 0 .. Len(stream)
  BY <1>1, StreamTyped
<1>8. PICK o \in Nat : o = Off(stream, i - 1) /\ o <= Len(All(stream))
  BY <1>1, <1>7, AllTyped
<1>9. HeadAt(i, x, m, o)
  BY <1>2, <1>3, <1>4, <1>5, <1>6, <1>7, <1>8 DEF HeadAt
<1>. QED BY <1>9

LEMMA LivePrefix ==
  ASSUME Typed, Live
  PROVE  IsPrefix(got, Payload(stream, Len(stream)))
<1>1. Typed /\ Live /\ stream \in Streams
  BY DEF Typed, SocketTyped
<1>2. CASE ws.st = "HEADER"
  <2>1. PICK i \in 1 .. Len(stream) + 1, x \in Nat, m \in 0 .. 14, o \in Nat : HeadAt(i, x, m, o)
    BY <1>1, <1>2, AtHeaderIs
  <2>. QED BY <1>1, <2>1, FrontTyped DEF HeadAt
<1>3. CASE ws.st # "HEADER"
  <2>0. PICK i \in 1 .. Len(stream), x \in Nat, h \in {6, 8, 14}, l \in Nat, p \in Nat, c \in 0 .. 3, o \in Nat, d \in Nat :
           BodyAt(i, x, h, l, p, c, o, d)
    BY <1>1, <1>3, AtBodyIs
  <2>1. PICK g \in Nat, n \in Nat : g = Len(got) /\ got = Span(stream, 1, g) /\ g <= n /\ n <= Len(All(stream))
    <3>1. o + d \in Nat
      OBVIOUS
    <3>. QED BY <2>0, <3>1 DEF BodyAt
  <2>2. PICK w \in Nat : w = Len(All(stream))
    BY <1>1, AllTyped
  <2>3. g <= Len(All(stream))
    BY <2>1, <2>2
  <2>. QED BY <1>1, <2>1, <2>3, FrontTyped
<1>. QED BY <1>2, <1>3

\* When nothing decoded waits, the frames that were read are with the readers.
LEMMA HandedOver ==
  ASSUME Typed, Live, gone = "no", ws.st # "AVAILABLE", NEW k \in 0 .. Len(stream), Start(stream, k + 1) <= pos
  PROVE  IsPrefix(Payload(stream, k), got)
<1>1. /\ Typed /\ Live /\ gone = "no" /\ stream \in Streams /\ pos \in Nat /\ ws.st # "AVAILABLE"
      /\ Len(stream) \in Nat
  BY StreamTyped DEF Typed, SocketTyped
<1>. DEFINE O(i) == Off(stream, i)
<1>2. ASSUME NEW i \in 0 .. Len(stream), k <= i PROVE O(k) <= O(i) /\ O(k) \in Nat /\ O(i) \in Nat
  BY <1>1, <1>2, PayloadGrows, AllTyped
<1>3. CASE ws.st = "HEADER"
  <2>0. PICK i \in 1 .. Len(stream) + 1, x \in Nat, m \in 0 .. 14, o \in Nat : HeadAt(i, x, m, o)
    BY <1>1, <1>3, AtHeaderIs
  <2>1. /\ AtHeader(i)
        /\ x = Start(stream, i) /\ m = ws.nRead /\ pos = x + m
        /\ o = O(i - 1) /\ o <= Len(All(stream)) /\ got = Span(stream, 1, o)
        /\ i - 1 \in 0 .. Len(stream)
    BY <2>0 DEF HeadAt
  <2>2. k <= i - 1
    <3>1. CASE i = Len(stream) + 1
      BY <1>1, <3>1
    <3>2. CASE i # Len(stream) + 1
      <4>1. i \in 1 .. Len(stream)
        BY <1>1, <3>2
      <4>2. PICK h \in {6, 8, 14}, l \in Nat : h = stream[i].head /\ l = stream[i].len
        BY <1>1, <4>1, FrameTyped
      <4>3. m < h
        <5>1. CASE pc = "rest"
          <6>1. ws.nRead > 0 /\ ws.nRead <= 6 /\ Current.head \in {8, 14}
            BY <1>1, <5>1, RestIs
          <6>2. ws.frame = i
            BY <2>1, <6>1 DEF AtHeader
          <6>3. h \in {8, 14} /\ m <= 6
            BY <2>1, <4>2, <6>1, <6>2 DEF Current
          <6>. QED BY <6>3
        <5>2. CASE pc # "rest"
          <6>1. m <= 5
            BY <2>1, <5>2 DEF AtHeader
          <6>. QED BY <6>1
        <5>. QED BY <5>1, <5>2
      <4>4. pos < Start(stream, i) + stream[i].head + stream[i].len
        <5>1. x + m < x + h + l
          BY <4>3
        <5>. QED BY <2>1, <4>2, <5>1
      <4>. QED BY <1>1, <4>1, <4>4, BeforeEnd
    <3>. QED BY <3>1, <3>2
  <2>3. O(k) <= o
    BY <1>2, <2>1, <2>2
  <2>. QED BY <1>1, <2>1, <2>3, FrontTyped
<1>4. CASE ws.st # "HEADER"
  <2>0. PICK i \in 1 .. Len(stream), x \in Nat, h \in {6, 8, 14}, l \in Nat, p \in Nat, c \in 0 .. 3, o \in Nat, d \in Nat :
           BodyAt(i, x, h, l, p, c, o, d)
    BY <1>1, <1>4, AtBodyIs
  <2>8. PICK g \in Nat : g = Len(got)
    BY <2>0 DEF BodyAt
  <2>1. /\ i = ws.frame /\ x = Start(stream, i) /\ h = stream[i].head /\ l = stream[i].len
        /\ p <= l /\ pos = x + h + p /\ (p = l => c = 0)
        /\ o = O(i - 1) /\ d = Decoded(stream, i, p - c)
        /\ o + d <= Len(All(stream))
        /\ g = Len(got) /\ g <= o + d
        /\ got = Span(stream, 1, g)
        /\ ws.ready = Span(stream, g + 1, o + d)
    BY <2>0, <2>8 DEF BodyAt
  <2>2. ws.ready = <<>>
    BY <1>1 DEF Typed, ContextTyped, IsReady
  <2>3. PICK n \in Nat : n = o + d
    OBVIOUS
  <2>4. g = n
    BY <1>1, <2>1, <2>2, <2>3, EmptyPart
  <2>5. got = Span(stream, 1, n) /\ n <= Len(All(stream))
    BY <2>1, <2>3, <2>4
  <2>6. i - 1 \in 0 .. Len(stream) /\ i \in 0 .. Len(stream)
    BY <1>1
  <2>7. O(k) <= n
    <3>1. CASE p < l
      <4>1. x + h + p < x + h + l
        BY <3>1
      <4>2. pos < Start(stream, i) + stream[i].head + stream[i].len
        BY <2>1, <4>1
      <4>3. k <= i - 1
        BY <1>1, <4>2, BeforeEnd
      <4>4. O(k) <= O(i - 1) /\ O(k) \in Nat
        BY <1>2, <2>6, <4>3
      <4>5. PICK q \in Nat : q = O(k) /\ q <= o
        BY <2>1, <4>4
      <4>6. q <= n
        BY <2>3, <4>5
      <4>. QED BY <4>5, <4>6
    <3>2. CASE p = l
      <4>1. d = DataLen(stream, i) /\ O(i) = o + d
        <5>0. c = 0
          BY <2>1, <3>2
        <5>1. p - c = l
          BY <3>2, <5>0
        <5>2. 0 \in Nat /\ 0 <= stream[i].len
          <6>1. 0 <= l
            OBVIOUS
          <6>. QED BY <2>1, <6>1
        <5>3. Decoded(stream, i, stream[i].len) = DataLen(stream, i)
          BY <1>1, <5>2, DecodedTyped
        <5>4. O(i) = O(i - 1) + DataLen(stream, i)
          BY <1>1, DataAt
        <5>. QED BY <2>1, <5>1, <5>3, <5>4
      <4>2. k <= i
        <5>1. CASE i = Len(stream)
          BY <1>1, <5>1
        <5>2. CASE i # Len(stream)
          <6>1. i + 1 \in 1 .. Len(stream)
            BY <1>1, <5>2
          <6>2. PICK y \in Nat, f \in {6, 8, 14}, e \in Nat : y = Start(stream, i + 1) /\ f = stream[i + 1].head /\ e = stream[i + 1].len
            <7>1. i + 1 \in 1 .. Len(stream) + 1
              BY <1>1, <6>1
            <7>. QED BY <1>1, <6>1, <7>1, FrameTyped, StartAt
          <6>3. y = x + h + l
            BY <1>1, <2>1, <6>2, StartAt
          <6>4. pos < y + f + e
            <7>1. x + h + p < y + f + e
              BY <3>2, <6>3
            <7>. QED BY <2>1, <7>1
          <6>5. k <= (i + 1) - 1
            BY <1>1, <6>1, <6>2, <6>4, BeforeEnd
          <6>. QED BY <6>5
        <5>. QED BY <5>1, <5>2
      <4>3. O(k) <= O(i)
        BY <1>2, <2>6, <4>2
      <4>. QED BY <2>3, <4>1, <4>3
    <3>3. p < l \/ p = l
      <4>1. p <= l
        BY <2>1
      <4>. QED BY <4>1
    <3>. QED BY <3>1, <3>2, <3>3
  <2>. QED BY <1>1, <2>5, <2>7, FrontTyped
<1>. QED BY <1>3, <1>4

-----------------------------------------------------------------------------
(* The steps that read nothing.                                            *)

LEMMA LiveSame ==
  ASSUME Live, UNCHANGED <<stream, tls, pos, ws, got>>, EndsWhole',
         pc' \in {"select", "wait"} => pos \in ends' \/ ~tls,
         ws.st = "HEADER" /\ ws.nRead > 0 =>
           pc' \in {"read", "wait", "rest"} /\ (pc' = "read" /\ ~tls => Some' \/ hup'),
         pc = "rest" => pc' = "rest",
         ws.st \notin {"HEADER", "AVAILABLE"} /\ pc = "read" => pc' = "read"
  PROVE  Live'
<1>1. /\ stream' = stream /\ tls' = tls /\ pos' = pos /\ ws' = ws /\ got' = got
  OBVIOUS
<1>2. pc' \in {"select", "wait"} => ~PendingAt(pos)'
  BY <1>1 DEF PendingAt
<1>3. ASSUME ws.st = "HEADER" PROVE \E i \in 1 .. Len(stream) + 1 : AtHeader(i)'
  <2>1. PICK i \in 1 .. Len(stream) + 1 : AtHeader(i)
    BY <1>3 DEF Live
  <2>2. AtHeader(i)'
    BY <1>1, <1>3, <2>1 DEF AtHeader, Allowed
  <2>. QED BY <2>2
<1>4. ASSUME ws.st # "HEADER" PROVE AtBody(ws.frame)'
  <2>1. AtBody(ws.frame)
    BY <1>4 DEF Live
  <2>2. ws'.nPayload = stream'[ws'.frame].len /\ ws'.st # "AVAILABLE" => stream'[ws'.frame].len = 0 /\ pc' = "read"
    BY <1>1, <1>4, <2>1 DEF AtBody
  <2>3. Base' = Base
    BY <1>1 DEF Base
  <2>. QED BY <1>1, <2>1, <2>2, <2>3 DEF AtBody, Allowed
<1>. QED BY <1>1, <1>2, <1>3, <1>4 DEF Live

LEMMA InitLive ==
  ASSUME Framed, Init
  PROVE  PInv
<1>1. /\ stream \in Streams /\ ends = {0} /\ pos = 0 /\ pc = "select" /\ got = <<>> /\ gone = "no"
      /\ ws.st = "HEADER" /\ ws.nRead = 0 /\ ws.cont = "INVALID" /\ tls \in BOOLEAN
  BY DEF Init
<1>2. Len(stream) \in Nat /\ Start(stream, 1) = 0
  BY <1>1, StreamTyped, StartAt
<1>3. EndsWhole
  <2>1. WholeAt(stream, tls, 0)
    <3>1. CASE Len(stream) = 0
      BY <1>2, <3>1 DEF WholeAt, Total
    <3>2. CASE Len(stream) # 0
      <4>1. 1 \in 1 .. Len(stream)
        BY <1>2, <3>2
      <4>2. ~Fragmented(stream, 1)
        BY DEF Fragmented
      <4>. QED BY <1>2, <4>1, <4>2 DEF WholeAt
    <3>. QED BY <3>1, <3>2
  <2>. QED BY <1>1, <2>1 DEF EndsWhole
<1>4. ~PendingAt(pos)
  BY <1>1 DEF PendingAt
<1>5. AtHeader(1)
  <2>1. 1 \in 1 .. (Len(stream) + 1)
    BY <1>2
  <2>2. Allowed(1 - 1)
    BY DEF Allowed
  <2>3. got = Span(stream, 1, Off(stream, 1 - 1))
    <3>1. Off(stream, 0) = 0 /\ 1 - 1 = 0
      BY <1>1, OffRule
    <3>2. SubSeq(All(stream), 0 + 1, 0) \in Seq(Bytes) /\ Len(SubSeq(All(stream), 0 + 1, 0)) = 0 - 0
      <4>1. All(stream) \in Seq(Bytes) /\ Len(All(stream)) \in Nat
        BY <1>1, AllTyped
      <4>. QED BY <4>1, PartTyped
    <3>3. SubSeq(All(stream), 1, 0) = <<>>
      BY <3>2
    <3>. QED BY <1>1, <3>1, <3>3 DEF Span, All
  <2>4. ws.cont = ContBefore(stream, 1)
    BY <1>1, FirstCont
  <2>5. pos - ws.nRead = Start(stream, 1)
    BY <1>1, <1>2
  <2>. QED BY <1>1, <2>1, <2>2, <2>3, <2>4, <2>5 DEF AtHeader
<1>. QED BY <1>1, <1>2, <1>3, <1>4, <1>5 DEF PInv, Live

\* The pieces that wait end where the bytes may stop.
LEMMA CutWhole ==
  ASSUME Framed, Typed, NEW e \in Cuts[stream][tls] \cup {Total(stream)}
  PROVE  WholeAt(stream, tls, e)
<1>1. stream \in Streams /\ tls \in BOOLEAN
  BY DEF Typed, SocketTyped
<1>. QED BY <1>1 DEF Framed, WholeAt

LEMMA ArriveLive ==
  ASSUME Framed, Typed, Typed', PInv, Arrive
  PROVE  PInv'
<1>1. /\ Typed /\ Typed' /\ Live /\ gone = "no" /\ UNCHANGED <<stream, tls, hup, pos, ws, pc, todo, got, gone>>
  BY DEF Arrive, PInv
<1>2. PICK e \in Cuts[stream][tls] \cup {Total(stream)} :
        e > Arrived /\ ends' = IF tls THEN ends \cup {e} ELSE {e}
  BY DEF Arrive
<1>3. WholeAt(stream, tls, e)
  BY <1>2, CutWhole
<1>4. EndsWhole /\ (pc \in {"select", "wait"} => ~PendingAt(pos))
  BY <1>1 DEF Live
<1>5. EndsWhole'
  BY <1>1, <1>2, <1>3, <1>4 DEF EndsWhole
<1>6. ~tls => Some'
  <2>. SUFFICES ASSUME ~tls PROVE Some'
    OBVIOUS
  <2>1. ends' = {e}
    BY <1>2
  <2>5. e \in Nat
    <3>1. Total(stream) \in Nat /\ Cuts[stream][tls] \subseteq 0 .. Total(stream)
      BY <1>1, EndsTyped, CutsAssumption DEF Typed, SocketTyped
    <3>. QED BY <1>2, <3>1
  <2>3. Arrived' = e
    <3>1. PICK E : E = {e}
      OBVIOUS
    <3>2. E \subseteq e .. e /\ E # {}
      BY <2>5, <3>1
    <3>3. Max(E) \in E
      BY <2>5, <3>2, MaxIn
    <3>. QED BY <2>1, <3>1, <3>3 DEF Arrived
  <2>4. pos \in Nat /\ Arrived \in Nat /\ pos <= Arrived
    BY <1>1, EndsTyped
  <2>6. e > pos
    BY <1>2, <2>4, <2>5
  <2>. QED BY <1>1, <2>3, <2>6 DEF Some
<1>7. pc' \in {"select", "wait"} => pos \in ends' \/ ~tls
  BY <1>1, <1>2, <1>4 DEF PendingAt
<1>8. ws.st = "HEADER" /\ ws.nRead > 0 => pc \in {"read", "wait", "rest"}
  BY <1>1 DEF Live, AtHeader
<1>9. Live'
  BY <1>1, <1>5, <1>6, <1>7, <1>8, LiveSame
<1>. QED BY <1>1, <1>9 DEF PInv

LEMMA WaitsLive ==
  ASSUME Framed, Typed, Typed', PInv, HangUp \/ CheckFds \/ NextMessage \/ Waited \/ Timeout
  PROVE  PInv'
<1>1. /\ Typed /\ Live /\ gone = "no" /\ UNCHANGED <<stream, tls, ends, pos, ws, got>>
  BY DEF HangUp, CheckFds, NextMessage, Waited, Timeout, wire, PInv
<1>2. /\ EndsWhole /\ (pc \in {"select", "wait"} => ~PendingAt(pos))
      /\ ws.st = "HEADER" /\ ws.nRead > 0 =>
           pc \in {"read", "wait", "rest"} /\ (pc = "read" /\ ~tls => Some \/ hup)
  BY <1>1 DEF Live, AtHeader
<1>3. EndsWhole' /\ (Some' <=> Some)
  BY <1>1, <1>2 DEF EndsWhole, Some, Arrived
<1>4. CASE HangUp
  <2>1. pc' = pc /\ gone' = gone /\ hup'
    BY <1>4 DEF HangUp
  <2>2. Live'
    BY <1>1, <1>2, <1>3, <2>1, LiveSame DEF PendingAt
  <2>. QED BY <1>1, <2>1, <2>2 DEF PInv
<1>5. CASE CheckFds
  <2>1. pc = "select" /\ pc' = "read" /\ gone' = gone
    BY <1>5 DEF CheckFds, ProcessMessage
  <2>2. Live'
    BY <1>1, <1>2, <1>3, <2>1, LiveSame
  <2>. QED BY <1>1, <2>1, <2>2 DEF PInv
<1>6. CASE NextMessage
  <2>1. pc = "loop" /\ gone' = gone /\ (pc' = "read" \/ (pc' = "select" /\ ~PendingAt(pos)))
    BY <1>6 DEF NextMessage, ProcessMessage, HasDataInBuffer
  <2>2. Live'
    BY <1>1, <1>2, <1>3, <2>1, LiveSame DEF PendingAt
  <2>. QED BY <1>1, <2>1, <2>2 DEF PInv
<1>7. CASE Waited
  <2>1. pc = "wait" /\ pc' = "read" /\ gone' = gone /\ Readable /\ hup' = hup
    BY <1>7 DEF Waited, wire
  <2>2. ~tls => Some' \/ hup'
    BY <1>3, <2>1 DEF Readable
  <2>3. Live'
    BY <1>1, <1>2, <1>3, <2>1, <2>2, LiveSame
  <2>. QED BY <1>1, <2>1, <2>3 DEF PInv
<1>8. CASE Timeout
  <2>1. gone' = "timeout"
    BY <1>8 DEF Timeout
  <2>2. IsPrefix(got', Payload(stream', Len(stream')))
    BY <1>1, LivePrefix
  <2>. QED BY <2>1, <2>2 DEF PInv, Ended
<1>. QED BY <1>4, <1>5, <1>6, <1>7, <1>8

-----------------------------------------------------------------------------
(* The steps that read a header.                                           *)

LEMMA TakeWhole ==
  ASSUME Typed, Live, NEW n \in Nat, TakeBytes(n), UNCHANGED <<stream, tls>>
  PROVE  /\ EndsWhole'
         /\ Again(pos + n) => /\ pc' \in {"read", "wait"} /\ (pc' = "read" => tls)
                              /\ (pc' \in {"select", "wait"} => ~PendingAt(pos)')
<1>1. EndsWhole /\ ends' \subseteq ends /\ pos' = pos + n /\ stream' = stream /\ tls' = tls
  BY DEF Live, TakeBytes
<1>2. EndsWhole'
  BY <1>1 DEF EndsWhole
<1>3. ASSUME Again(pos + n) PROVE pc' \in {"read", "wait"} /\ (pc' = "read" => tls) /\ (pc' = "wait" => ~tls \/ pos + n \in ends)
  BY <1>3 DEF Again, PendingAt
<1>4. pos + n \in ends => pos' \in ends'
  <2>1. pos + n \in Nat
    BY DEF Typed, SocketTyped
  <2>2. pos + n >= pos + n
    BY <2>1
  <2>. QED BY <2>2 DEF TakeBytes
<1>. QED BY <1>1, <1>2, <1>3, <1>4 DEF PendingAt

LEMMA HeaderOn ==
  ASSUME NEW i \in 1 .. Len(stream), NEW m \in 0 .. 14, NEW k \in 1 .. 14, NEW n \in Nat, k = m + n,
         NEW op, NEW c, AtHeader(i), m = ws.nRead, pos \in Nat, pos' = pos + n, UNCHANGED <<stream, tls, hup, got>>,
         ws' = Reading(k, op, i, c), pc' \in {"read", "wait", "rest"}, pc' # "rest" => k <= 5, pc' = "read" => tls,
         IF k < 2 THEN c = ContBefore(stream, i)
         ELSE c = ContWithin(stream, i) /\ op = Op(stream, i) /\ GoodStart(stream, i)
  PROVE  AtHeader(i)'
<1>1. ws'.nRead = k /\ ws'.frame = i /\ ws'.op = op /\ ws'.cont = c
  BY DEF Reading
<1>2. i \in 1 .. (Len(stream) + 1) /\ Allowed(i - 1) /\ got = Span(stream, 1, Off(stream, i - 1))
  BY DEF AtHeader
<1>3. pos' - ws'.nRead = Start(stream, i)
  <2>1. pos - m = Start(stream, i)
    BY DEF AtHeader
  <2>2. (pos + n) - (m + n) = pos - m
    OBVIOUS
  <2>. QED BY <1>1, <2>1, <2>2
<1>4. /\ ws'.nRead > 0 => ws'.frame = i /\ pc' \in {"read", "wait", "rest"}
      /\ pc' # "rest" => ws'.nRead <= 5
      /\ ws'.nRead > 0 /\ pc' = "read" /\ ~tls' => Some' \/ hup'
  BY <1>1
<1>5. IF ws'.nRead < 2 THEN ws'.cont = ContBefore(stream, i)
      ELSE ws'.cont = ContWithin(stream, i) /\ ws'.op = Op(stream, i) /\ GoodStart(stream, i)
  BY <1>1
<1>6. UNCHANGED <<stream, got>>
  OBVIOUS
<1>7. Allowed(i - 1)'
  BY <1>2, <1>6 DEF Allowed
<1>. QED BY <1>2, <1>3, <1>4, <1>5, <1>6, <1>7 DEF AtHeader

LEMMA NothingLess == ASSUME NEW a \in Nat, NEW b \in Nat, a = b PROVE a - b = 0
  OBVIOUS

LEMMA BodyBegins ==
  ASSUME stream \in Streams, NEW i \in 1 .. Len(stream), NEW k, NEW op, NEW c, AtHeader(i),
         ws' = Begun(k, op, i, c), pos' = Start(stream, i) + stream[i].head, UNCHANGED <<stream, got>>,
         ~Forbidden(stream, i), c = ContWithin(stream, i), op = Op(stream, i), pc' = "read"
  PROVE  AtBody(i)'
<1>1. /\ ws'.st = "NEEDED" /\ ws'.nPayload = 0 /\ ws'.carry = <<>> /\ ws'.ready = <<>> /\ ws'.frame = i
      /\ ws'.op = op /\ ws'.cont = c
  BY DEF Begun
<1>2. Allowed(i - 1) /\ got = Span(stream, 1, Off(stream, i - 1)) /\ stream' = stream /\ got' = got
  BY DEF AtHeader
<1>3. PICK l \in Nat, h \in {6, 8, 14}, x \in Nat : l = stream[i].len /\ h = stream[i].head /\ x = Start(stream, i)
  <2>1. Len(stream) \in Nat
    BY StreamTyped
  <2>2. i \in 1 .. Len(stream) + 1
    BY <2>1
  <2>. QED BY <2>2, FrameTyped, StartAt
<1>4. Allowed(i)
  <2>1. Len(stream) \in Nat
    BY StreamTyped
  <2>2. ASSUME NEW j \in 1 .. i PROVE j = i \/ j \in 1 .. (i - 1)
    BY <2>1
  <2>. QED BY <1>2, <2>2 DEF Allowed
<1>5. Base' = 0
  <2>1. Base' = 0 - Len(<<>>)
    BY <1>1 DEF Base
  <2>2. PICK q \in Nat : q = Len(<<>>) /\ q = 0
    OBVIOUS
  <2>3. 0 - q = 0
    BY <2>2, NothingLess
  <2>. QED BY <2>1, <2>2, <2>3
<1>6. 0 % 4 = 0 /\ x + h = x + h + 0 /\ (0 = l => l = 0)
  OBVIOUS
<1>7. PICK o \in Nat, w \in Nat : o = Off(stream, i - 1) /\ w = Len(All(stream)) /\ o <= w
  <2>1. i - 1 \in 0 .. Len(stream)
    BY StreamTyped
  <2>. QED BY <2>1, AllTyped
<1>8. Decoded(stream, i, 0) = 0
  <2>1. 0 <= stream[i].len
    BY <1>3
  <2>. QED BY <2>1, DecodedTyped
<1>9. Len(got) = o
  BY <1>2, <1>7, FrontTyped
<1>10. Span(stream, o + 1, o) = <<>>
  <2>1. SubSeq(All(stream), o + 1, o) \in Seq(Bytes) /\ Len(SubSeq(All(stream), o + 1, o)) = o - o
    <3>1. All(stream) \in Seq(Bytes) /\ o <= o /\ o <= Len(All(stream))
      BY <1>7, AllTyped
    <3>. QED BY <3>1, PartTyped
  <2>2. Len(SubSeq(All(stream), o + 1, o)) = 0
    BY <2>1
  <2>3. SubSeq(All(stream), o + 1, o) = <<>>
    BY <2>1, <2>2
  <2>. QED BY <2>3 DEF Span, All
<1>11. /\ Len(got') <= o + 0 /\ got' = Span(stream, 1, Len(got')) /\ ws'.ready = Span(stream, Len(got') + 1, o + 0)
  <2>1. o <= o + 0 /\ o + 0 = o
    OBVIOUS
  <2>. QED BY <1>1, <1>2, <1>7, <1>9, <1>10, <2>1
<1>12. pos' = Start(stream, i) + stream[i].head + ws'.nPayload
  BY <1>1, <1>3, <1>6
<1>13. Allowed(i)'
  BY <1>2, <1>4 DEF Allowed
<1>14. Off(stream', i - 1) + Decoded(stream', i, Base') = o + 0
  BY <1>2, <1>5, <1>7, <1>8
<1>15. Base' % 4 = 0
  BY <1>5, <1>6
<1>16. \A j \in 1 .. Len(ws'.carry) : ws'.carry[j] = Base' + j - 1
  BY <1>1
<1>17. ws'.nPayload = stream[i].len => stream[i].len = 0
  BY <1>1
<1>. QED BY <1>1, <1>2, <1>11, <1>12, <1>13, <1>14, <1>15, <1>16, <1>17 DEF AtBody

\* The thread found the frame a header belongs to.
LEMMA SameFrame ==
  ASSUME Typed, Live, ws.st = "HEADER", NEW i \in 1 .. Len(stream), Start(stream, i) = pos - ws.nRead
  PROVE  AtHeader(i)
<1>1. stream \in Streams /\ Typed /\ Live /\ ws.st = "HEADER"
  BY DEF Typed, SocketTyped
<1>2. PICK j \in 1 .. Len(stream) + 1 : AtHeader(j)
  BY <1>1 DEF Live
<1>3. Start(stream, j) = Start(stream, i)
  BY <1>2 DEF AtHeader
<1>4. j = i
  BY <1>1, <1>3, SamePlace
<1>. QED BY <1>2, <1>4

LEMMA FrontIs ==
  ASSUME stream \in Streams, NEW i \in 1 .. Len(stream), AtHeader(i)
  PROVE  /\ got = Payload(stream, i - 1) /\ \A j \in 1 .. (i - 1) : ~Forbidden(stream, j)
         /\ IsPrefix(got, Payload(stream, Len(stream)))
<1>1. i - 1 \in 0 .. Len(stream)
  BY StreamTyped
<1>2. got = Span(stream, 1, Off(stream, i - 1)) /\ Allowed(i - 1)
  BY DEF AtHeader
<1>3. Off(stream, i - 1) \in Nat /\ Off(stream, i - 1) <= Len(All(stream))
  BY <1>1, AllTyped
<1>. QED BY <1>1, <1>2, <1>3, PayloadSpan, FrontTyped DEF Allowed

\* A frame that is forbidden ends the connection.
LEMMA RefusedHere ==
  ASSUME stream \in Streams, NEW i \in 1 .. Len(stream), AtHeader(i), Forbidden(stream, i),
         UNCHANGED <<stream, got>>, gone' = "error"
  PROVE  PInv'
<1>1. /\ got = Payload(stream, i - 1) /\ \A j \in 1 .. (i - 1) : ~Forbidden(stream, j)
      /\ IsPrefix(got, Payload(stream, Len(stream)))
  BY FrontIs
<1>. QED BY <1>1 DEF PInv, Ended

LEMMA ReadHeaderLive ==
  ASSUME Framed, Typed, PInv, ReadHeader
  PROVE  PInv'
<1>1. Typed /\ gone = "no" /\ pc = "read" /\ ws.st = "HEADER" /\ Some /\ Live /\ stream \in Streams /\ pos \in Nat
  BY DEF ReadHeader, PInv, Typed, SocketTyped
<1>2. PICK i \in 1 .. Len(stream), n \in 1 .. 6 :
           /\ n = Upto(6 - ws.nRead) /\ n <= 6 - ws.nRead /\ Start(stream, i) = pos - ws.nRead
           /\ TakeBytes(n) /\ UNCHANGED <<stream, tls, hup, todo, got>>
           /\ HeaderStep(i, n)
  BY HeaderTaken
<1>3. AtHeader(i)
  BY <1>1, <1>2, SameFrame
<1>4. PICK m \in 0 .. 14 : m = ws.nRead
  BY <1>1, HeaderIs DEF Typed
<1>. DEFINE f == stream[i]
<1>5. PICK k \in 1 .. 14 : k = m + n /\ k <= 6
  <2>1. n <= 6 - m
    BY <1>2, <1>4
  <2>. QED BY <2>1
<1>6. n \in Nat /\ pos' = pos + n
  BY <1>2 DEF TakeBytes
<1>7. /\ EndsWhole'
      /\ Again(pos + n) => /\ pc' \in {"read", "wait"} /\ (pc' = "read" => tls)
                           /\ (pc' \in {"select", "wait"} => ~PendingAt(pos)')
  BY <1>1, <1>2, <1>6, TakeWhole
<1>8. IF m < 2 THEN ws.cont = ContBefore(stream, i)
      ELSE ws.cont = ContWithin(stream, i) /\ ws.op = Op(stream, i) /\ GoodStart(stream, i)
  <2>1. i <= Len(stream)
    BY <1>1, StreamTyped
  <2>. QED BY <1>3, <1>4, <2>1 DEF AtHeader
<1>9. ~BadStart(ws, f) => NewOp(f) = Op(stream, i) /\ NewCont(f) = ContWithin(stream, i) /\ GoodStart(stream, i)
  BY <1>1, <1>8, InterpretedIs
<1>10. i \in 1 .. Len(stream) + 1
  BY <1>1, StreamTyped
<1>11. CASE k < 2 /\ ws' = Reading(k, ws.op, i, ws.cont) /\ Again(pos + n) /\ gone' = gone
  <2>1. pc' \in {"read", "wait", "rest"} /\ (pc' # "rest" => k <= 5) /\ (pc' = "read" => tls)
    BY <1>7, <1>11
  <2>2. ws.cont = ContBefore(stream, i)
    <3>1. m < 2
      BY <1>5, <1>11
    <3>. QED BY <1>8, <3>1
  <2>3. AtHeader(i)'
    BY <1>1, <1>2, <1>3, <1>4, <1>5, <1>6, <1>11, <2>1, <2>2, HeaderOn
  <2>4. ws'.st = "HEADER"
    BY <1>11 DEF Reading
  <2>. QED BY <1>1, <1>2, <1>7, <1>10, <1>11, <2>3, <2>4 DEF PInv, Live
<1>12. CASE BadStart(ws, f) /\ gone' = "error"
  <2>1. ws.cont = ContBefore(stream, i)
    <3>1. CASE m < 2
      BY <1>8, <3>1
    <3>2. CASE ~(m < 2)
      BY <1>1, <1>8, <1>12, <3>2, InterpretedIs
    <3>. QED BY <3>1, <3>2
  <2>2. Forbidden(stream, i)
    BY <1>1, <1>12, <2>1, BadIs
  <2>. QED BY <1>1, <1>2, <1>3, <1>12, <2>2, RefusedHere
<1>13. CASE /\ k >= 2 /\ ~BadStart(ws, f) /\ ws' = Reading(k, NewOp(f), i, NewCont(f)) /\ gone' = gone
            /\ pc' = "rest" \/ (k <= 5 /\ Again(pos + n))
  <2>1. pc' \in {"read", "wait", "rest"} /\ (pc' # "rest" => k <= 5) /\ (pc' = "read" => tls)
        /\ (pc' \in {"select", "wait"} => ~PendingAt(pos)')
    BY <1>7, <1>13
  <2>2. NewOp(f) = Op(stream, i) /\ NewCont(f) = ContWithin(stream, i) /\ GoodStart(stream, i) /\ ~(k < 2)
    BY <1>9, <1>13
  <2>3. AtHeader(i)'
    BY <1>1, <1>2, <1>3, <1>4, <1>5, <1>6, <1>13, <2>1, <2>2, HeaderOn
  <2>4. ws'.st = "HEADER"
    BY <1>13 DEF Reading
  <2>. QED BY <1>1, <1>2, <1>7, <1>10, <1>13, <2>1, <2>3, <2>4 DEF PInv, Live
<1>14. CASE k = 6 /\ ~BadStart(ws, f) /\ f.head = 6 /\ ws' = Begun(6, NewOp(f), i, NewCont(f)) /\ pc' = pc /\ gone' = gone
  <2>1. NewOp(f) = Op(stream, i) /\ NewCont(f) = ContWithin(stream, i) /\ GoodStart(stream, i)
    BY <1>9, <1>14
  <2>2. ~Forbidden(stream, i)
    BY <1>14, <2>1 DEF Forbidden, GoodStart
  <2>3. pos' = Start(stream, i) + f.head
    <3>1. PICK x \in Nat : x = Start(stream, i)
      BY <1>1, <1>10, StartAt
    <3>2. x = pos - m
      BY <1>2, <1>4, <3>1
    <3>3. pos + n = x + 6
      BY <1>1, <1>5, <1>14, <3>2
    <3>. QED BY <1>6, <1>14, <3>1, <3>3
  <2>4. pc' = "read"
    BY <1>1, <1>14
  <2>5. AtBody(i)'
    BY <1>1, <1>2, <1>3, <1>14, <2>1, <2>2, <2>3, <2>4, BodyBegins
  <2>6. ws'.st = "NEEDED" /\ ws'.frame = i
    BY <1>14 DEF Begun
  <2>. QED BY <1>1, <1>7, <1>14, <2>4, <2>5, <2>6 DEF PInv, Live
<1>. QED
  <2>1. ws.nRead + n = k
    BY <1>4, <1>5
  <2>2. k \in 2 .. 5 => k >= 2 /\ k <= 5
    OBVIOUS
  <2>. HIDE DEF f
  <2>3. \/ k < 2 /\ ws' = Reading(k, ws.op, i, ws.cont) /\ Again(pos + n) /\ gone' = gone
        \/ BadStart(ws, f) /\ gone' = "error"
        \/ k >= 2 /\ ~BadStart(ws, f) /\ ws' = Reading(k, NewOp(f), i, NewCont(f)) /\ gone' = gone /\ pc' = "rest"
        \/ k \in 2 .. 5 /\ ~BadStart(ws, f) /\ ws' = Reading(k, NewOp(f), i, NewCont(f)) /\ gone' = gone /\ Again(pos + n)
        \/ k = 6 /\ ~BadStart(ws, f) /\ f.head = 6 /\ ws' = Begun(6, NewOp(f), i, NewCont(f)) /\ pc' = pc /\ gone' = gone
    BY <1>2, <2>1 DEF HeaderStep, f
  <2>. QED BY <1>11, <1>12, <1>13, <1>14, <2>2, <2>3

\* The thread is in the header of the frame the context names.
LEMMA RestFrame ==
  ASSUME Typed, Live, gone = "no", pc = "rest"
  PROVE  /\ ws.frame \in 1 .. Len(stream) /\ AtHeader(ws.frame)
         /\ ws.cont = ContWithin(stream, ws.frame) /\ ws.op = Op(stream, ws.frame)
         /\ GoodStart(stream, ws.frame)
<1>1. /\ ws.st = "HEADER" /\ ws.frame \in 1 .. Len(stream) /\ ws.nRead \in 2 .. 6 /\ stream \in Streams
  BY RestIs DEF Typed, SocketTyped
<1>2. PICK j \in 1 .. Len(stream) + 1 : AtHeader(j)
  BY <1>1 DEF Live
<1>3. PICK m \in 2 .. 6 : m = ws.nRead
  BY <1>1
<1>4. m > 0 /\ ~(m < 2)
  OBVIOUS
<1>5. ws.frame = j
  BY <1>2, <1>3, <1>4 DEF AtHeader
<1>6. AtHeader(ws.frame)
  BY <1>2, <1>5
<1>7. PICK i \in 1 .. Len(stream) : i = ws.frame
  BY <1>1
<1>8. i <= Len(stream)
  BY <1>1, StreamTyped
<1>9. ws.cont = ContWithin(stream, i) /\ ws.op = Op(stream, i) /\ GoodStart(stream, i)
  BY <1>3, <1>4, <1>6, <1>7, <1>8 DEF AtHeader
<1>. QED BY <1>1, <1>6, <1>7, <1>9

LEMMA ReadRestLive ==
  ASSUME Framed, Typed, PInv, ReadRest
  PROVE  PInv'
<1>1. Typed /\ gone = "no" /\ pc = "rest" /\ Some /\ Live /\ stream \in Streams /\ pos \in Nat
  BY DEF ReadRest, PInv, Typed, SocketTyped
<1>2. PICK n \in 1 .. 12 :
           /\ n = Upto(Current.head - ws.nRead) /\ n <= Current.head - ws.nRead
           /\ TakeBytes(n) /\ UNCHANGED <<stream, tls, hup, todo, got>>
           /\ RestStep(n)
  BY RestTaken
<1>3. /\ ws.st = "HEADER" /\ ws.frame \in 1 .. Len(stream) /\ ws.op # "INVALID"
      /\ Current.head \in {8, 14} /\ ws.nRead \in 2 .. 6
  BY <1>1, RestIs
<1>4. PICK i \in 1 .. Len(stream), h \in {8, 14}, m \in 2 .. 6 :
        i = ws.frame /\ h = Current.head /\ m = ws.nRead /\ Current = stream[i] /\ h = stream[i].head
  BY <1>3 DEF Current
<1>5. /\ AtHeader(i) /\ ws.cont = ContWithin(stream, i) /\ ws.op = Op(stream, i) /\ GoodStart(stream, i)
  BY <1>1, <1>4, RestFrame
<1>6. PICK k \in 3 .. 14 : k = m + n /\ k <= h
  <2>1. n <= h - m
    BY <1>2, <1>4
  <2>. QED BY <2>1
<1>7. n \in Nat /\ pos' = pos + n
  BY <1>2 DEF TakeBytes
<1>8. /\ EndsWhole'
      /\ Again(pos + n) => /\ pc' \in {"read", "wait"} /\ (pc' = "read" => tls)
                           /\ (pc' \in {"select", "wait"} => ~PendingAt(pos)')
  BY <1>1, <1>2, <1>7, TakeWhole
<1>9. PICK x \in Nat : x = Start(stream, i) /\ x = pos - m /\ pos + n = x + k
  <2>1. i \in 1 .. Len(stream) + 1
    BY <1>1, StreamTyped
  <2>2. PICK x \in Nat : x = Start(stream, i)
    BY <1>1, <2>1, StartAt
  <2>3. pos - m = x
    BY <1>4, <1>5, <2>2 DEF AtHeader
  <2>. QED BY <1>1, <1>6, <2>2, <2>3
<1>10. PICK l \in Nat : l = stream[i].len
  BY <1>1, FrameTyped
<1>11. CASE k = h /\ Short /\ gone' = "error"
  <2>1. Forbidden(stream, i)
    BY <1>4, <1>11 DEF Forbidden, Short
  <2>. QED BY <1>1, <1>2, <1>5, <1>11, <2>1, RefusedHere
<1>12. CASE k = h /\ ~Short /\ ws' = Begun(k, ws.op, i, ws.cont) /\ pc' = "read" /\ gone' = gone
  <2>1. ~Forbidden(stream, i)
    <3>1. (h = 8 => ~(stream[i].len < Extended)) /\ (h = 14 => ~(stream[i].len < Long))
      BY <1>4, <1>12 DEF Short
    <3>2. stream[i].head = 8 => h = 8
      BY <1>4
    <3>3. stream[i].head = 14 => h = 14
      BY <1>4
    <3>. QED BY <1>5, <3>1, <3>2, <3>3 DEF Forbidden, GoodStart
  <2>2. pos' = Start(stream, i) + stream[i].head
    BY <1>4, <1>7, <1>9, <1>12
  <2>3. UNCHANGED <<stream, got>>
    BY <1>2
  <2>4. AtBody(i)'
    BY <1>1, <1>5, <1>12, <2>1, <2>2, <2>3, BodyBegins
  <2>5. ws'.st = "NEEDED" /\ ws'.frame = i
    BY <1>12 DEF Begun
  <2>. QED BY <1>1, <1>8, <1>12, <2>4, <2>5 DEF PInv, Live
<1>13. CASE k < h /\ ws' = Reading(k, ws.op, i, ws.cont) /\ Again(pos + n) /\ gone' = gone
  <2>1. k <= 5
    <3>1. PICK a \in Nat : a = h - m /\ a > 0
      OBVIOUS
    <3>2. n = Upto(a) /\ n < a
      BY <1>2, <1>4, <1>6, <1>13, <3>1, SMTT(30)
    <3>3. pos + n \in ends
      BY <1>1, <3>1, <3>2, UptoTyped
    <3>4. WholeAt(stream, tls, pos + n)
      BY <1>1, <3>3 DEF Live, EndsWhole
    <3>5. PICK e \in Nat : e = pos + n /\ e = x + k
      BY <1>1, <1>7, <1>9
    <3>6. x < e /\ e < x + h /\ e < x + h + l
      BY <1>13, <3>5
    <3>7. Start(stream, i) < e /\ e < Start(stream, i) + stream[i].head + stream[i].len /\ e < Start(stream, i) + stream[i].head
      BY <1>4, <1>9, <1>10, <3>6
    <3>8. tls \in BOOLEAN
      BY <1>1 DEF Typed, SocketTyped
    <3>9. e <= Start(stream, i) + 5
      BY <1>1, <3>4, <3>5, <3>7, <3>8, CutInside
    <3>10. x + k <= x + 5
      BY <1>9, <3>5, <3>9
    <3>. QED BY <3>10
  <2>2. pc' \in {"read", "wait", "rest"} /\ (pc' # "rest" => k <= 5) /\ (pc' = "read" => tls)
    BY <1>8, <1>13, <2>1
  <2>3. k \in 1 .. 14 /\ m \in 0 .. 14 /\ ~(k < 2) /\ UNCHANGED <<stream, tls, hup, got>>
    BY <1>2
  <2>4. AtHeader(i)'
    BY <1>1, <1>4, <1>5, <1>6, <1>7, <1>13, <2>2, <2>3, HeaderOn
  <2>5. ws'.st = "HEADER"
    BY <1>13 DEF Reading
  <2>6. i \in 1 .. Len(stream) + 1
    BY <1>1, StreamTyped
  <2>. QED BY <1>1, <1>2, <1>8, <1>13, <2>2, <2>4, <2>5, <2>6 DEF PInv, Live
<1>. QED
  <2>1. \/ k = h /\ Short /\ gone' = "error"
        \/ k = h /\ ~Short /\ ws' = Begun(k, ws.op, i, ws.cont) /\ pc' = "read" /\ gone' = gone
        \/ k < h /\ ws' = Reading(k, ws.op, i, ws.cont) /\ Again(pos + n) /\ gone' = gone
    <3>1. ws.nRead + n = k /\ ws.frame = i /\ Current.head = h
      BY <1>4, <1>6
    <3>. QED BY <1>2, <3>1 DEF RestStep
  <2>. QED BY <1>11, <1>12, <1>13, <2>1

\* A read that returns nothing was asked for a byte, and none is there.
LEMMA FailsAsked ==
  ASSUME Typed, Live, ReadFails
  PROVE  /\ gone = "no" /\ pc \in {"read", "rest"} /\ ws.st # "AVAILABLE"
         /\ ws' = Cleared("INVALID") /\ UNCHANGED <<stream, tls, ends, hup, pos, todo, got>>
         /\ ~Some /\ (tls => hup)
         /\ gone' = IF hup THEN "closed" ELSE "no"
         /\ pc' = IF gone' = "no" THEN "wait" ELSE pc
         /\ ws.st # "HEADER" => ws.nPayload # stream[ws.frame].len
<1>1. /\ Typed /\ Live /\ gone = "no" /\ pc \in {"read", "rest"} /\ ws.st # "AVAILABLE"
      /\ IF Asked > 0 THEN ~Some /\ (tls => hup) ELSE ws.st = "HEADER"
      /\ ws' = CleanupComplete(ws)
      /\ gone' = IF Asked < 0 THEN "error" ELSE IF Asked = 0 \/ hup THEN "closed" ELSE "no"
      /\ pc' = IF gone' = "no" THEN "wait" ELSE pc
      /\ UNCHANGED <<stream, tls, ends, hup, pos, todo, got>>
  BY DEF ReadFails, wire
<1>2. ws' = Cleared("INVALID")
  BY <1>1, Cleanups DEF Typed, ContextTyped
<1>3. Asked \in Int /\ (ws.st = "HEADER" => Asked > 0)
  <2>1. CASE pc = "rest"
    <3>1. Current.head \in {8, 14} /\ ws.nRead \in 2 .. 6
      BY <1>1, <2>1, RestIs
    <3>2. Asked = Current.head - ws.nRead
      BY <2>1 DEF Asked
    <3>3. PICK h \in {8, 14}, m \in 2 .. 6 : h = Current.head /\ m = ws.nRead
      BY <3>1
    <3>4. h - m > 0 /\ h - m \in Int
      OBVIOUS
    <3>. QED BY <3>2, <3>3, <3>4
  <2>2. CASE pc # "rest" /\ ws.st = "HEADER"
    <3>1. PICK i \in 1 .. Len(stream) + 1, x \in Nat, m \in 0 .. 14, o \in Nat : HeadAt(i, x, m, o)
      BY <1>1, <2>2, AtHeaderIs
    <3>2. m = ws.nRead /\ m <= 5
      BY <2>2, <3>1 DEF HeadAt, AtHeader
    <3>3. Asked = 6 - m
      BY <2>2, <3>2 DEF Asked
    <3>4. 6 - m > 0 /\ 6 - m \in Int
      BY <3>2
    <3>. QED BY <3>3, <3>4
  <2>3. CASE pc # "rest" /\ ws.st # "HEADER"
    <3>1. PICK l \in Nat, p \in Nat, b \in Nat :
            l = Current.len /\ p = ws.nPayload /\ b = BufSize /\ p <= l /\ Remaining(ws) = l - p
      BY <1>1, <2>3, FrameIs, RoomIs
    <3>2. PICK d \in Nat : d = l - p
      BY <3>1
    <3>3. Asked = Min({d, b})
      BY <2>3, <3>1, <3>2 DEF Asked
    <3>. QED BY <2>3, <3>3, MinOfTwo
  <2>. QED BY <2>1, <2>2, <2>3
<1>4. Asked > 0
  BY <1>1, <1>3
<1>5. ~(Asked < 0) /\ Asked # 0
  BY <1>3, <1>4
<1>6. ASSUME ws.st # "HEADER" PROVE ws.nPayload # stream[ws.frame].len
  <2>. SUFFICES ASSUME ws.nPayload = Current.len PROVE FALSE
    BY DEF Current
  <2>1. pc = "read"
    <3>1. pc # "rest"
      BY <1>1, <1>6, RestIs
    <3>. QED BY <1>1, <3>1
  <2>2. Remaining(ws) = Current.len - ws.nPayload /\ Current.len \in Nat /\ BufSize \in Nat
    BY <1>1, <1>6, FrameIs, RoomIs
  <2>3. PICK d \in Nat, b \in Nat : d = Remaining(ws) /\ b = BufSize /\ d = 0
    BY <2>2, NothingLess
  <2>4. Asked = Min({d, b})
    BY <1>6, <2>1, <2>3 DEF Asked
  <2>5. Min({d, b}) \in Nat /\ Min({d, b}) <= d
    BY MinOfTwo
  <2>. QED BY <1>4, <2>3, <2>4, <2>5
<1>. QED BY <1>1, <1>2, <1>4, <1>5, <1>6

\* On a plain socket the bytes stop, with nothing more to read, only where a
\* frame begins and no message is open.
LEMMA StopsBetween ==
  ASSUME Typed, Live, ReadFails, ~tls, ~hup
  PROVE  \E i \in 1 .. Len(stream) + 1 :
           /\ AtHeader(i) /\ pos = Start(stream, i)
           /\ i <= Len(stream) => ContBefore(stream, i) = "INVALID"
<1>1. /\ Typed /\ Live /\ gone = "no" /\ pc \in {"read", "rest"} /\ ws.st # "AVAILABLE"
      /\ ~Some /\ (ws.st # "HEADER" => ws.nPayload # stream[ws.frame].len) /\ stream \in Streams /\ pos \in Nat
  BY FailsAsked DEF Typed, SocketTyped
<1>2. pos \in ends
  <2>1. Arrived \in ends /\ Arrived \in Nat /\ pos <= Arrived
    BY <1>1, EndsTyped
  <2>2. ~(Arrived > pos)
    BY <1>1 DEF Some
  <2>3. Arrived = pos
    BY <1>1, <2>1, <2>2
  <2>. QED BY <2>1, <2>3
<1>3. WholeAt(stream, FALSE, pos)
  <2>1. tls = FALSE
    BY <1>1 DEF Typed, SocketTyped
  <2>. QED BY <1>1, <1>2, <2>1 DEF Live, EndsWhole
<1>4. ASSUME ws.st # "HEADER" PROVE FALSE
  <2>1. PICK i \in 1 .. Len(stream), x \in Nat, h \in {6, 8, 14}, l \in Nat, p \in Nat, c \in 0 .. 3, o \in Nat, d \in Nat :
           BodyAt(i, x, h, l, p, c, o, d)
    BY <1>1, <1>4, AtBodyIs
  <2>2. i = ws.frame /\ x = Start(stream, i) /\ h = stream[i].head /\ l = stream[i].len /\ p = ws.nPayload
        /\ p <= l /\ pos = x + h + p
    BY <2>1 DEF BodyAt
  <2>3. p < l
    <3>1. p # l /\ p <= l
      BY <1>1, <1>4, <2>2
    <3>. QED BY <3>1
  <2>4. PICK e \in Nat : e = pos /\ e = x + h + p
    BY <2>2
  <2>5. x < e /\ e < x + h + l
    BY <2>3, <2>4
  <2>6. Start(stream, i) < e /\ e < Start(stream, i) + stream[i].head + stream[i].len
    BY <2>2, <2>5
  <2>7. e <= Start(stream, i) + (IF stream[i].head = 6 THEN 5 ELSE 1)
    BY <1>1, <1>3, <2>4, <2>6, CutInside
  <2>8. e <= x + (IF h = 6 THEN 5 ELSE 1)
    BY <2>2, <2>7
  <2>. QED BY <2>4, <2>8
<1>5. PICK i \in 1 .. Len(stream) + 1, x \in Nat, m \in 0 .. 14, o \in Nat : HeadAt(i, x, m, o)
  BY <1>1, <1>4, AtHeaderIs
<1>6. /\ AtHeader(i) /\ x = Start(stream, i) /\ m = ws.nRead /\ pos = x + m
  BY <1>5 DEF HeadAt
<1>7. m = 0
  <2>1. CASE pc = "rest"
    <3>1. ws.frame \in 1 .. Len(stream) /\ AtHeader(ws.frame)
      BY <1>1, <2>1, RestFrame
    <3>2. Current.head \in {8, 14} /\ ws.nRead \in 2 .. 6
      BY <1>1, <2>1, RestIs
    <3>3. PICK f \in 1 .. Len(stream), h \in {8, 14}, l \in Nat :
            f = ws.frame /\ AtHeader(f) /\ h = stream[f].head /\ l = stream[f].len
      BY <1>1, <3>1, <3>2, FrameTyped DEF Current
    <3>4. Start(stream, f) = x
      BY <1>6, <3>3 DEF AtHeader
    <3>5. m \in 2 .. 6
      BY <1>6, <3>2
    <3>6. PICK e \in Nat : e = pos /\ e = x + m
      <4>1. x + m \in Nat
        OBVIOUS
      <4>. QED BY <1>6, <4>1
    <3>7. x < e /\ e < x + h + l /\ ~(e <= x + 1)
      BY <3>5, <3>6
    <3>8. Start(stream, f) < e /\ e < Start(stream, f) + stream[f].head + stream[f].len
      BY <3>3, <3>4, <3>7
    <3>9. e <= Start(stream, f) + (IF stream[f].head = 6 THEN 5 ELSE 1)
      BY <1>1, <1>3, <3>6, <3>8, CutInside
    <3>10. e <= x + (IF h = 6 THEN 5 ELSE 1)
      BY <3>3, <3>4, <3>9
    <3>. QED BY <3>7, <3>10
  <2>2. CASE pc = "read"
    <3>1. ~(m > 0)
      BY <1>1, <1>6, <2>2 DEF AtHeader
    <3>. QED BY <3>1
  <2>. QED BY <1>1, <2>1, <2>2
<1>8. pos = Start(stream, i)
  <2>1. x + 0 = x
    OBVIOUS
  <2>. QED BY <1>6, <1>7, <2>1
<1>9. ASSUME i <= Len(stream) PROVE ContBefore(stream, i) = "INVALID"
  <2>1. i \in 1 .. Len(stream)
    BY <1>1, <1>9, StreamTyped
  <2>2. ~Fragmented(stream, i)
    BY <1>1, <1>3, <1>8, <2>1, CutBefore
  <2>. QED BY <2>2 DEF ContBefore
<1>. QED BY <1>6, <1>8, <1>9

LEMMA ReadFailsLive ==
  ASSUME Framed, Typed, PInv, ReadFails
  PROVE  PInv'
<1>0. gone = "no"
  BY DEF ReadFails
<1>1. Typed /\ Live /\ stream \in Streams /\ pos \in Nat
  BY <1>0 DEF PInv, Typed, SocketTyped
<1>2. /\ pc \in {"read", "rest"} /\ ws.st # "AVAILABLE"
      /\ ws' = Cleared("INVALID") /\ UNCHANGED <<stream, tls, ends, hup, pos, todo, got>>
      /\ ~Some /\ (tls => hup)
      /\ gone' = IF hup THEN "closed" ELSE "no"
      /\ pc' = IF gone' = "no" THEN "wait" ELSE pc
  BY <1>1, FailsAsked
<1>3. CASE hup
  <2>1. \A k \in 0 .. Len(stream) : Start(stream, k + 1) <= pos => IsPrefix(Payload(stream, k), got)
    BY <1>0, <1>1, <1>2, HandedOver
  <2>2. IsPrefix(got, Payload(stream, Len(stream)))
    BY <1>1, LivePrefix
  <2>. QED BY <1>2, <1>3, <2>1, <2>2 DEF PInv, Ended
<1>4. CASE ~hup
  <2>1. PICK i \in 1 .. Len(stream) + 1 :
           /\ AtHeader(i) /\ pos = Start(stream, i)
           /\ i <= Len(stream) => ContBefore(stream, i) = "INVALID"
    BY <1>1, <1>2, <1>4, StopsBetween
  <2>2. gone' = "no" /\ pc' = "wait" /\ ~tls
    BY <1>2, <1>4
  <2>3. ws'.st = "HEADER" /\ ws'.nRead = 0 /\ ws'.cont = "INVALID"
    BY <1>2 DEF Cleared
  <2>4. i \in 1 .. (Len(stream) + 1) /\ Allowed(i - 1) /\ got = Span(stream, 1, Off(stream, i - 1))
    BY <2>1 DEF AtHeader
  <2>5. pos' - ws'.nRead = Start(stream', i)
    BY <1>1, <1>2, <2>1, <2>3
  <2>6. Allowed(i - 1)'
    BY <1>2, <2>4 DEF Allowed
  <2>7. AtHeader(i)'
    BY <1>2, <2>1, <2>2, <2>3, <2>4, <2>5, <2>6 DEF AtHeader
  <2>8. EndsWhole' /\ ~PendingAt(pos)'
    BY <1>1, <1>2, <2>2 DEF Live, EndsWhole, PendingAt
  <2>. QED BY <1>2, <2>1, <2>2, <2>3, <2>7, <2>8 DEF PInv, Live
<1>. QED BY <1>3, <1>4

-----------------------------------------------------------------------------
(* The steps that decode.                                                  *)

\* The bytes b, b + 1, ... of a payload, from a group of four on.
Consecutive(raw, b, r) == /\ raw \in Seq(Nat) /\ Len(raw) = r
                          /\ \A j \in 1 .. r : raw[j] = b + j - 1

\* What is decoded from them are the bytes of the message.
Decodes(out, i, b, r) ==
  /\ out \in Seq(Bytes) /\ Len(out) \in Nat
  /\ Decoded(stream, i, b + r) = Decoded(stream, i, b) + Len(out)
  /\ \A k \in 1 .. Len(out) : out[k] = <<i, Decoded(stream, i, b) + k - 1>>

LEMMA UnmaskPart ==
  ASSUME stream \in Streams, ws.frame \in 1 .. Len(stream), ~Control(stream[ws.frame]), ~Base64Text(stream, ws.frame),
         NEW b \in Nat, NEW r \in Nat, NEW raw, Consecutive(raw, b, r), b % 4 = 0
  PROVE  Decodes(Unmask(raw), ws.frame, b, r)
<1>1. raw \in Seq(Nat) /\ Len(raw) = r /\ (\A j \in 1 .. r : raw[j] = b + j - 1) /\ ws.frame \in Nat
  BY StreamTyped DEF Consecutive
<1>2. /\ Unmask(raw) \in Seq(Bytes) /\ Len(Unmask(raw)) = r
      /\ \A j \in 1 .. r : raw[j] % 4 = (j - 1) % 4 => Unmask(raw)[j] = <<ws.frame, raw[j]>>
  BY <1>1, UnmaskTyped
<1>3. ASSUME NEW j \in 1 .. r PROVE Unmask(raw)[j] = <<ws.frame, b + j - 1>>
  <2>1. (b + j - 1) % 4 = (j - 1) % 4
    <3>1. PICK u \in Nat : b = 4 * u
      OBVIOUS
    <3>2. PICK x \in Nat : x = j - 1
      OBVIOUS
    <3>3. (4 * u + x) % 4 = x % 4
      OBVIOUS
    <3>. QED BY <3>1, <3>2, <3>3
  <2>. QED BY <1>1, <1>2, <2>1
<1>4. \A x \in Nat : Decoded(stream, ws.frame, x) = x
  BY DEF Decoded
<1>5. Decoded(stream, ws.frame, b + r) = b + r /\ Decoded(stream, ws.frame, b) = b
  BY <1>4
<1>. QED BY <1>2, <1>3, <1>5 DEF Decodes

LEMMA Base64Part ==
  ASSUME stream \in Streams, ws.frame \in 1 .. Len(stream), ~Control(stream[ws.frame]), Base64Text(stream, ws.frame),
         NEW b \in Nat, NEW r \in Nat, NEW raw, Consecutive(raw, b, r), b % 4 = 0,
         b + r <= Current.len, b + r # Current.len => r % 4 = 0
  PROVE  Decodes(Base64(raw), ws.frame, b, r)
<1>1. raw \in Seq(Nat) /\ Len(raw) = r /\ (\A j \in 1 .. r : raw[j] = b + j - 1) /\ ws.frame \in Nat
  BY StreamTyped DEF Consecutive
<1>2. PICK i \in 1 .. Len(stream), l \in Nat, q \in 0 .. 2, y \in Nat :
        i = ws.frame /\ l = Current.len /\ q = Current.pad /\ y = DataLen(stream, i)
  <2>1. stream[ws.frame].len \in Nat /\ stream[ws.frame].pad \in 0 .. 2 /\ DataLen(stream, ws.frame) \in Nat
    BY FrameTyped, DataTyped
  <2>. QED BY <2>1 DEF Current
<1>3. l % 4 = 0 /\ (l = 0 => q = 0)
  BY <1>2, TextAssumption DEF Current
<1>4. y = 3 * (l \div 4) - q
  BY <1>2 DEF DataLen, Current
<1>5. \A x \in Nat : Decoded(stream, i, x) = IF x = l THEN y ELSE 3 * (x \div 4)
  BY <1>2 DEF Decoded, Current
<1>6. PICK u \in Nat, w \in Nat : b = 4 * u /\ l = 4 * w
  BY <1>3
<1>7. r % 4 = 0
  <2>1. CASE b + r = l
    <3>1. 4 * u + r = 4 * w
      BY <1>6, <2>1
    <3>. QED BY <3>1
  <2>2. CASE b + r # l
    BY <1>2, <2>2
  <2>. QED BY <2>1, <2>2
<1>8. PICK v \in Nat : r = 4 * v
  BY <1>7
<1>9. b \div 4 = u /\ r \div 4 = v /\ l \div 4 = w /\ (b + r) \div 4 = u + v
  <2>1. (4 * u) \div 4 = u /\ (4 * v) \div 4 = v /\ (4 * w) \div 4 = w /\ (4 * u + 4 * v) \div 4 = u + v
    OBVIOUS
  <2>. QED BY <1>6, <1>8, <2>1
<1>10. u + v <= w /\ (b + r = l <=> u + v = w) /\ (b = l <=> u = w) /\ (r = 0 <=> v = 0)
  <2>1. b + r <= l
    BY <1>2
  <2>. QED BY <1>6, <1>8, <2>1
<1>11. Padded(raw) <=> v # 0 /\ u + v = w
  <2>1. CASE r = 0
    BY <1>1, <1>10, <2>1 DEF Padded
  <2>2. CASE r # 0
    <3>1. raw # <<>> /\ r \in 1 .. r
      BY <1>1, <2>2
    <3>2. raw[Len(raw)] = b + r - 1
      BY <1>1, <3>1
    <3>3. Padded(raw) <=> b + r - 1 = l - 1
      BY <1>2, <3>1, <3>2 DEF Padded
    <3>4. b + r - 1 = l - 1 <=> b + r = l
      OBVIOUS
    <3>. QED BY <1>10, <2>2, <3>3, <3>4
  <2>. QED BY <2>1, <2>2
<1>12. PICK m \in Nat : /\ m = 3 * (r \div 4) - (IF Padded(raw) THEN q ELSE 0)
                        /\ m <= 3 * v
                        /\ m = IF v # 0 /\ u + v = w THEN 3 * v - q ELSE 3 * v
  <2>1. CASE v # 0 /\ u + v = w
    <3>1. 3 * v - q \in Nat /\ 3 * v - q <= 3 * v
      BY <2>1
    <3>. QED BY <1>9, <1>11, <2>1, <3>1
  <2>2. CASE ~(v # 0 /\ u + v = w)
    <3>1. 3 * v - 0 = 3 * v /\ 3 * v \in Nat /\ 3 * v <= 3 * v
      OBVIOUS
    <3>. QED BY <1>9, <1>11, <2>2, <3>1
  <2>. QED BY <2>1, <2>2
<1>13. /\ Base64(raw) \in Seq(Bytes) /\ Len(Base64(raw)) = m
       /\ \A k \in 1 .. m : Base64(raw)[k] = Base64At(raw, k)
  <2>1. m = 3 * (Len(raw) \div 4) - (IF Padded(raw) THEN Current.pad ELSE 0)
    BY <1>1, <1>2, <1>12
  <2>2. m \in Int /\ Current.pad \in 0 .. 2
    BY <1>2
  <2>. QED BY <1>1, <2>1, <2>2, Base64Typed
<1>14. Decoded(stream, i, b) = IF u = w THEN 3 * w - q ELSE 3 * u
  BY <1>4, <1>5, <1>9, <1>10
<1>15. Decoded(stream, i, b + r) = IF u + v = w THEN 3 * w - q ELSE 3 * (u + v)
  <2>1. b + r \in Nat
    OBVIOUS
  <2>2. Decoded(stream, i, b + r) = IF b + r = l THEN y ELSE 3 * ((b + r) \div 4)
    BY <1>5, <2>1
  <2>3. y = 3 * w - q
    BY <1>4, <1>9
  <2>. QED BY <1>9, <1>10, <2>2, <2>3
<1>16. Decoded(stream, i, b + r) = Decoded(stream, i, b) + m
  <2>1. CASE v = 0
    BY <1>12, <1>14, <1>15, <2>1
  <2>2. CASE v # 0
    <3>1. u # w
      BY <1>10, <2>2
    <3>. QED BY <1>12, <1>14, <1>15, <2>2, <3>1
  <2>. QED BY <2>1, <2>2
<1>17. ASSUME NEW k \in 1 .. m PROVE Base64(raw)[k] = <<i, Decoded(stream, i, b) + k - 1>>
  <2>1. k \in 1 .. 3 * (r \div 4)
    BY <1>9, <1>12
  <2>2. PICK g \in Nat, t \in 0 .. 2 : g = (k - 1) \div 3 /\ t = (k - 1) % 3 /\ 4 * g + 4 <= r /\ k = 3 * g + t + 1
    BY <2>1, GroupOf
  <2>3. ASSUME NEW j \in 1 .. 4 PROVE raw[4 * g + j] = 4 * (u + g) + (j - 1)
    <3>1. 4 * g + j \in 1 .. r
      BY <2>2
    <3>2. raw[4 * g + j] = b + (4 * g + j) - 1
      BY <1>1, <3>1
    <3>. QED BY <1>6, <3>2
  <2>4. raw[4 * g + 1] = 4 * (u + g)
    <3>1. raw[4 * g + 1] = 4 * (u + g) + (1 - 1)
      BY <2>3
    <3>2. 4 * (u + g) + (1 - 1) = 4 * (u + g)
      OBVIOUS
    <3>. QED BY <3>1, <3>2
  <2>5. InGroup(raw, g)
    <3>1. ASSUME NEW j \in 1 .. 4
          PROVE  raw[4 * g + j] = raw[4 * g + 1] + j - 1 /\ raw[4 * g + j] % 4 = j - 1
      <4>1. 4 * (u + g) + (j - 1) = 4 * (u + g) + j - 1
        OBVIOUS
      <4>2. (4 * (u + g) + (j - 1)) % 4 = j - 1
        <5>1. PICK z \in Nat : z = u + g
          OBVIOUS
        <5>2. PICK e \in 0 .. 3 : e = j - 1
          OBVIOUS
        <5>3. (4 * z + e) % 4 = e
          OBVIOUS
        <5>. QED BY <5>1, <5>2, <5>3
      <4>. QED BY <2>3, <2>4, <4>1, <4>2
    <3>. QED BY <3>1 DEF InGroup
  <2>6. raw[4 * g + 1] \div 4 = u + g
    <3>1. PICK z \in Nat : z = u + g
      OBVIOUS
    <3>2. (4 * z) \div 4 = z
      OBVIOUS
    <3>. QED BY <2>4, <3>1, <3>2
  <2>7. Base64At(raw, k) = <<ws.frame, 3 * (u + g) + t>>
    BY <2>2, <2>5, <2>6 DEF Base64At
  <2>8. Decoded(stream, i, b) = 3 * u
    <3>1. v # 0
      BY <1>12
    <3>2. u # w
      BY <1>10, <3>1
    <3>. QED BY <1>14, <3>2
  <2>9. 3 * (u + g) + t = 3 * u + k - 1
    BY <2>2
  <2>. QED BY <1>2, <1>13, <2>7, <2>8, <2>9
<1>. QED BY <1>2, <1>13, <1>16, <1>17 DEF Decodes

\* How far the part that is decoded takes the frame i.
Progress(i, b, r, n) ==
  /\ b % 4 = 0 /\ Consecutive(Part, b, r) /\ r = ToReturn
  /\ Complete <=> n = stream[i].len
  /\ Complete => b + r = stream[i].len /\ Taken.carry = <<>>
  /\ ~Complete => r % 4 = 0 /\ (b + r) % 4 = 0 /\ b + r # stream[i].len
  /\ b + r <= stream[i].len
  /\ n = Taken.nPayload /\ n - Len(Taken.carry) = b + r
  /\ \A j \in 1 .. Len(Taken.carry) : Taken.carry[j] = (b + r) + j - 1

Progressed(i, p, c, b, r, n) == b = p - c /\ n = p + N /\ Progress(i, b, r, n)

LEMMA Difference == ASSUME NEW a \in Nat, NEW c \in 0 .. 3, c <= a PROVE a - c \in Nat /\ a = (a - c) + c
  OBVIOUS

LEMMA ProgressIs ==
  ASSUME Typed, Live, ws.st \in {"NEEDED", "CLOSING"}, pc = "read", Asked > 0 => Some,
         NEW i \in 1 .. Len(stream), NEW x \in Nat, NEW h \in {6, 8, 14}, NEW l \in Nat, NEW p \in Nat,
         NEW c \in 0 .. 3, NEW o \in Nat, NEW d \in Nat, BodyAt(i, x, h, l, p, c, o, d)
  PROVE  \E b \in Nat, r \in Nat, n \in Nat : Progressed(i, p, c, b, r, n)
<1>1. /\ i = ws.frame /\ l = stream[i].len /\ p = ws.nPayload /\ c = Len(ws.carry) /\ c <= p /\ p <= l
      /\ (p - c) % 4 = 0 \/ p = l
      /\ p = l => c = 0
      /\ p = l /\ ws.st # "AVAILABLE" => l = 0
      /\ \A j \in 1 .. c : ws.carry[j] = (p - c) + j - 1
  BY DEF BodyAt
<1>2. PICK b \in Nat : b = p - c /\ p = b + c
  <2>1. c <= p
    BY <1>1
  <2>2. p - c \in Nat /\ p = (p - c) + c
    BY <2>1, Difference
  <2>. QED BY <2>2
<1>3. b % 4 = 0
  <2>1. CASE p = l
    <3>1. p = 0
      BY <1>1, <2>1
    <3>2. b = 0
      BY <1>2, <3>1
    <3>. QED BY <3>2
  <2>2. CASE p # l
    BY <1>1, <1>2, <2>2
  <2>. QED BY <2>1, <2>2
<1>4. /\ N \in Nat /\ N <= Current.len - ws.nPayload
      /\ Raw \in Seq(Nat) /\ Len(Raw) = Len(ws.carry) + N
      /\ \A j \in 1 .. Len(ws.carry) : Raw[j] = ws.carry[j]
      /\ \A j \in 1 .. N : Raw[Len(ws.carry) + j] = ws.nPayload + j - 1
      /\ Kept \in 0 .. 3 /\ ToReturn \in Nat /\ Len(Raw) \in Nat /\ ToReturn + Kept = Len(Raw)
      /\ Complete => Kept = 0
      /\ ~Complete => ToReturn % 4 = 0
      /\ Part \in Seq(Nat) /\ Len(Part) = ToReturn
      /\ \A j \in 1 .. ToReturn : Part[j] = Raw[j]
  BY TakenHowMany, RawIs
<1>5. PICK k \in Nat, t \in 0 .. 3, r \in Nat : k = N /\ t = Kept /\ r = ToReturn
  BY <1>4
<1>6. k <= l - p /\ r + t = c + k /\ (Complete => t = 0) /\ (~Complete => r % 4 = 0)
  BY <1>1, <1>4, <1>5 DEF Current
<1>7. \A j \in 1 .. c + k : Raw[j] = b + j - 1
  <2>1. ASSUME NEW j \in 1 .. c PROVE Raw[j] = b + j - 1
    BY <1>1, <1>2, <1>4
  <2>2. ASSUME NEW j \in 1 .. k PROVE Raw[c + j] = p + j - 1
    BY <1>1, <1>4, <1>5
  <2>3. ASSUME NEW j \in 1 .. c + k, j > c PROVE Raw[j] = b + j - 1
    <3>1. PICK z \in 1 .. k : j = c + z
      <4>1. j - c \in 1 .. k /\ j = c + (j - c)
        BY <2>3
      <4>. QED BY <4>1
    <3>2. Raw[c + z] = p + z - 1
      BY <2>2
    <3>3. p + z - 1 = b + (c + z) - 1
      BY <1>2
    <3>. QED BY <3>1, <3>2, <3>3
  <2>4. ASSUME NEW j \in 1 .. c + k PROVE j \in 1 .. c \/ j > c
    OBVIOUS
  <2>. QED BY <2>1, <2>3, <2>4
<1>8. Consecutive(Part, b, r)
  <2>1. r <= c + k
    BY <1>6
  <2>2. ASSUME NEW j \in 1 .. r PROVE Part[j] = b + j - 1
    <3>1. j \in 1 .. c + k
      BY <2>1
    <3>. QED BY <1>4, <1>5, <1>7, <3>1
  <2>. QED BY <1>4, <1>5, <2>2 DEF Consecutive
<1>9. PICK n \in Nat : n = p + k
  OBVIOUS
<1>10. Complete <=> n = l
  <2>1. Remaining(ws) = l - p
    BY <1>1 DEF Remaining
  <2>2. Complete <=> k = l - p
    BY <1>5, <2>1 DEF Complete
  <2>. QED BY <1>9, <2>2
<1>11. n - t = b + r /\ n <= l
  <2>1. p + k - t = b + r
    BY <1>2, <1>6
  <2>2. p + k <= l
    BY <1>6
  <2>. QED BY <1>9, <2>1, <2>2
<1>12. /\ Taken.nPayload = ws.nPayload + N
       /\ Taken.carry \in Seq(Nat) /\ Len(Taken.carry) = Kept
       /\ \A j \in 1 .. Kept : Taken.carry[j] = Raw[ToReturn + j]
  BY TakenIs
<1>13. \A j \in 1 .. t : Taken.carry[j] = (b + r) + j - 1
  <2>1. ASSUME NEW j \in 1 .. t PROVE Raw[r + j] = (b + r) + j - 1
    <3>1. r + j \in 1 .. c + k
      BY <1>6
    <3>2. Raw[r + j] = b + (r + j) - 1
      BY <1>7, <3>1
    <3>. QED BY <3>2
  <2>. QED BY <1>5, <1>12, <2>1
<1>14. Complete => b + r = l /\ t = 0
  <2>. SUFFICES ASSUME Complete PROVE b + r = l /\ t = 0
    OBVIOUS
  <2>1. t = 0 /\ n = l
    BY <1>6, <1>10
  <2>. QED BY <1>11, <2>1
<1>15. ~Complete => r % 4 = 0 /\ (b + r) % 4 = 0 /\ b + r # l
  <2>. SUFFICES ASSUME ~Complete PROVE r % 4 = 0 /\ (b + r) % 4 = 0 /\ b + r # l
    OBVIOUS
  <2>1. n # l
    BY <1>10
  <2>2. b + r # l
    BY <1>11, <2>1
  <2>3. r % 4 = 0
    BY <1>6
  <2>4. (b + r) % 4 = 0
    BY <1>3, <2>3
  <2>. QED BY <2>2, <2>3, <2>4
<1>16. b + r <= l
  BY <1>11
<1>17. t = 0 => Taken.carry = <<>>
  BY <1>5, <1>12
<1>. QED
  <2>1. n = Taken.nPayload /\ Len(Taken.carry) = t
    BY <1>1, <1>5, <1>9, <1>12
  <2>2. Progress(i, b, r, n)
    BY <1>1, <1>3, <1>5, <1>8, <1>10, <1>11, <1>13, <1>14, <1>15, <1>16, <1>17, <2>1 DEF Progress
  <2>3. b = p - c /\ n = p + N
    BY <1>2, <1>5, <1>9
  <2>4. Progressed(i, p, c, b, r, n)
    BY <2>2, <2>3 DEF Progressed
  <2>. QED BY <2>4

\* What is decoded of a frame of a message are the bytes behind those decoded before.
LEMMA DecodedOf ==
  ASSUME Typed, Live, ws.st # "HEADER", Taken.op = ws.op, ws.op \in {"TEXT", "BINARY"},
         NEW i \in 1 .. Len(stream), i = ws.frame, ws.op = Op(stream, i),
         NEW b \in Nat, NEW r \in Nat, NEW n, Progress(i, b, r, n)
  PROVE  /\ Decodes(B, i, b, r)
         /\ ~Control(stream[i])
<1>1. stream \in Streams
  BY DEF Typed, SocketTyped
<1>2. ~Control(stream[i]) /\ (ws.op = "TEXT" <=> Base64Text(stream, i))
  BY DEF Op, Control
<1>3. b % 4 = 0 /\ Consecutive(Part, b, r) /\ b + r <= stream[i].len /\ (b + r # stream[i].len => r % 4 = 0)
  BY DEF Progress
<1>4. Current = stream[i]
  BY DEF Current
<1>5. CASE ws.op = "TEXT"
  <2>1. Decodes(Base64(Part), ws.frame, b, r)
    BY <1>1, <1>2, <1>3, <1>4, <1>5, Base64Part
  <2>. QED BY <1>2, <1>5, <2>1 DEF B
<1>6. CASE ws.op # "TEXT"
  <2>1. Decodes(Unmask(Part), ws.frame, b, r)
    BY <1>1, <1>2, <1>3, <1>6, UnmaskPart
  <2>. QED BY <1>2, <1>6, <2>1 DEF B
<1>. QED BY <1>5, <1>6

-----------------------------------------------------------------------------
(* The frame goes on, or ends.                                             *)

\* The context w is within the payload of the frame i, the bytes of messages up to
\* m decoded.
Within(w, i, b, m) ==
  /\ w \in Context /\ w.frame = i /\ w.op = Op(stream, i) /\ w.cont = ContWithin(stream, i)
  /\ w.nPayload <= stream[i].len
  /\ b = w.nPayload - Len(w.carry)
  /\ b % 4 = 0 \/ w.nPayload = stream[i].len
  /\ \A j \in 1 .. Len(w.carry) : w.carry[j] = b + j - 1
  /\ w.nPayload = stream[i].len => w.carry = <<>>
  /\ m = Off(stream, i - 1) + Decoded(stream, i, b) /\ m <= Len(All(stream))
  /\ Allowed(i)

LEMMA BodyGoesOn ==
  ASSUME NEW w, NEW i, NEW b, NEW m, NEW g, Within(w, i, b, m),
         ws'.op = w.op, ws'.cont = w.cont, ws'.nPayload = w.nPayload, ws'.carry = w.carry,
         stream' = stream, pos' = Start(stream, i) + stream[i].head + w.nPayload,
         g = Len(got'), g <= m, got' = Span(stream, 1, g), ws'.ready = Span(stream, g + 1, m),
         w.nPayload = stream[i].len => ws'.st = "AVAILABLE"
  PROVE  AtBody(i)'
<1>1. Base' = b
  BY DEF Within, Base
<1>2. /\ ws'.cont = ContWithin(stream, i) /\ ws'.op = Op(stream, i)
      /\ b % 4 = 0 \/ ws'.nPayload = stream[i].len
      /\ \A j \in 1 .. Len(ws'.carry) : ws'.carry[j] = b + j - 1
      /\ ws'.nPayload = stream[i].len => ws'.carry = <<>>
      /\ m = Off(stream, i - 1) + Decoded(stream, i, b)
  BY DEF Within
<1>3. Allowed(i)'
  BY DEF Within, Allowed
<1>. QED BY <1>1, <1>2, <1>3 DEF AtBody

LEMMA FrameEnds ==
  ASSUME stream \in Streams, NEW i \in 1 .. Len(stream), NEW w \in Context, ws' = FrameComplete(w),
         w.frame = i, w.cont = ContWithin(stream, i), Allowed(i), stream' = stream,
         pos' = Start(stream, i) + stream[i].head + stream[i].len,
         got' = Span(stream, 1, Off(stream, i)), pc' # "rest"
  PROVE  ws'.st = "HEADER" /\ \E j \in 1 .. (Len(stream') + 1) : AtHeader(j)'
<1>1. stream \in Streams /\ Len(stream) \in Nat /\ stream' = stream /\ i \in Nat
  BY StreamTyped
<1>2. GoodStart(stream, i)
  <2>1. i \in 1 .. i
    BY <1>1
  <2>2. ~Forbidden(stream, i)
    BY <2>1 DEF Allowed
  <2>. QED BY <2>2 DEF Forbidden, GoodStart
<1>3. ws' = IF stream[i].fin /\ ~Control(stream[i]) THEN Cleared("INVALID") ELSE Cleared(ContWithin(stream, i))
  BY FrameCompleteIs
<1>4. ws' = Cleared(ContBefore(stream, i + 1))
  BY <1>1, <1>2, <1>3, ContAfter
<1>5. ws'.st = "HEADER" /\ ws'.nRead = 0 /\ ws'.cont = ContBefore(stream, i + 1)
  BY <1>4 DEF Cleared
<1>6. PICK k \in Nat : k = i + 1 /\ k - 1 = i /\ k \in 1 .. Len(stream) + 1
  BY <1>1
<1>7. PICK x \in Nat : x = Start(stream, k) /\ pos' = x
  <2>1. Start(stream, k) \in Nat /\ Start(stream, i + 1) = Start(stream, i) + stream[i].head + stream[i].len
    BY <1>1, <1>6, StartAt
  <2>. QED BY <1>6, <2>1
<1>8. pos' - ws'.nRead = Start(stream, k)
  <2>1. x - 0 = x
    BY <1>7
  <2>. QED BY <1>5, <1>7, <2>1
<1>9. Allowed(k - 1)' /\ got' = Span(stream, 1, Off(stream, k - 1))
  BY <1>6 DEF Allowed
<1>10. ~(ws'.nRead > 0) /\ ws'.nRead <= 5 /\ ws'.nRead < 2
  <2>1. ~(0 > 0) /\ 0 <= 5 /\ 0 < 2
    OBVIOUS
  <2>. QED BY <1>5, <2>1
<1>11. k \in 1 .. (Len(stream) + 1)
  BY <1>6
<1>12. AtHeader(k)'
  BY <1>1, <1>5, <1>6, <1>8, <1>9, <1>10, <1>11 DEF AtHeader
<1>. QED BY <1>1, <1>5, <1>11, <1>12

\* The first bytes of a part are handed over, the others stay.
Handed(s, g, m, b, k) ==
  /\ b \in Seq(Bytes) /\ Len(b) = m - g /\ g + k <= m
  /\ Span(s, 1, g) \o SubSeq(b, 1, k) = Span(s, 1, g + k)
  /\ SubSeq(b, k + 1, Len(b)) = Span(s, (g + k) + 1, m)

LEMMA HandOver ==
  ASSUME NEW s \in Streams, NEW g \in Nat, NEW m \in Nat, g <= m, m <= Len(All(s)),
         NEW b, b = Span(s, g + 1, m), NEW k \in Nat, k <= Len(b)
  PROVE  Handed(s, g, m, b, k)
<1>. DEFINE t == All(s)
<1>1. t \in Seq(Bytes) /\ Len(t) \in Nat
  BY AllTyped
<1>2. \A u, v : Span(s, u, v) = SubSeq(t, u, v)
  BY DEF Span, All
<1>. HIDE DEF t
<1>3. b = SubSeq(t, g + 1, m)
  BY <1>2
<1>4. m <= Len(t)
  BY DEF t
<1>5. b \in Seq(Bytes) /\ Len(b) = m - g
  <2>1. SubSeq(t, g + 1, m) \in Seq(Bytes) /\ Len(SubSeq(t, g + 1, m)) = m - g
    BY <1>1, <1>4, PartTyped
  <2>. QED BY <1>3, <2>1
<1>6. PICK a \in Nat : a = m - g /\ a = Len(b) /\ m = g + a /\ k <= a
  BY <1>5
<1>7. g + k \in Nat /\ g + k <= m
  BY <1>6
<1>8. SubSeq(b, 1, k) = SubSeq(t, g + 1, g + k)
  <2>1. SubSeq(SubSeq(t, g + 1, m), 0 + 1, k) = SubSeq(t, g + 0 + 1, g + k)
    <3>1. 0 \in Nat /\ 0 <= k /\ k <= m - g
      BY <1>6
    <3>. QED BY <1>1, <1>4, <3>1, PartOfPart
  <2>2. g + 0 + 1 = g + 1 /\ 0 + 1 = 1
    OBVIOUS
  <2>. QED BY <1>3, <2>1, <2>2
<1>9. SubSeq(b, k + 1, a) = SubSeq(t, (g + k) + 1, m)
  <2>1. SubSeq(SubSeq(t, g + 1, m), k + 1, a) = SubSeq(t, g + k + 1, g + a)
    <3>1. k <= a /\ a <= m - g
      BY <1>6
    <3>. QED BY <1>1, <1>4, <3>1, PartOfPart
  <2>2. g + k + 1 = (g + k) + 1 /\ g + a = m
    BY <1>6
  <2>. QED BY <1>3, <2>1, <2>2
<1>10. SubSeq(t, 1, g) \o SubSeq(t, g + 1, g + k) = SubSeq(t, 1, g + k)
  <2>1. SubSeq(t, 0 + 1, g) \o SubSeq(t, g + 1, g + k) = SubSeq(t, 0 + 1, g + k)
    <3>1. 0 \in Nat /\ 0 <= g /\ g <= g + k /\ g + k <= Len(t)
      BY <1>1, <1>4, <1>7
    <3>. QED BY <1>1, <1>7, <3>1, PartJoin
  <2>. QED BY <2>1
<1>. QED BY <1>2, <1>5, <1>6, <1>7, <1>8, <1>9, <1>10 DEF Handed

\* hybiReturnData hands over the bytes behind those handed over before.
LEMMA ReturnLive ==
  ASSUME stream \in Streams, NEW i \in 1 .. Len(stream), NEW w, NEW bs \in Nat, NEW m \in Nat, Within(w, i, bs, m),
         UNCHANGED stream, pos' = Start(stream, i) + stream[i].head + w.nPayload,
         NEW g \in Nat, g <= m, got = Span(stream, 1, g), NEW b, b = Span(stream, g + 1, m),
         NEW k \in Nat, k <= Len(b), got' = got \o SubSeq(b, 1, k), ReturnStep(w, b, k),
         pc' \in {"read", "loop"}, EndsWhole'
  PROVE  Live'
<1>1. /\ w \in Context /\ w.frame = i /\ w.cont = ContWithin(stream, i) /\ w.nPayload <= stream[i].len
      /\ bs = w.nPayload - Len(w.carry) /\ m = Off(stream, i - 1) + Decoded(stream, i, bs)
      /\ m <= Len(All(stream)) /\ Allowed(i) /\ (w.nPayload = stream[i].len => w.carry = <<>>)
  BY DEF Within
<1>2. /\ b \in Seq(Bytes) /\ Len(b) = m - g /\ g + k <= m
      /\ Span(stream, 1, g) \o SubSeq(b, 1, k) = Span(stream, 1, g + k)
      /\ SubSeq(b, k + 1, Len(b)) = Span(stream, (g + k) + 1, m)
  <2>1. g <= m /\ m <= Len(All(stream)) /\ b = Span(stream, g + 1, m) /\ k <= Len(b) /\ stream \in Streams
    BY <1>1
  <2>2. Handed(stream, g, m, b, k)
    BY <2>1, HandOver
  <2>. QED BY <2>2 DEF Handed
<1>3. PICK y \in Nat : y = g + k
  OBVIOUS
<1>4. y <= m /\ got' = Span(stream, 1, y) /\ SubSeq(b, k + 1, Len(b)) = Span(stream, y + 1, m)
  BY <1>2, <1>3
<1>5. Len(got') = y
  <2>1. PICK v \in Nat : v = Len(All(stream))
    BY AllTyped
  <2>2. y <= v
    BY <1>1, <1>4, <2>1
  <2>3. Len(Span(stream, 1, y)) = y
    BY <2>1, <2>2, FrontTyped
  <2>. QED BY <1>4, <2>3
<1>6. PICK p \in Nat, l \in Nat : p = w.nPayload /\ l = stream[i].len /\ p <= l
  <2>1. w.nPayload \in Nat
    BY <1>1 DEF Context
  <2>2. stream[i].len \in Nat
    BY FrameTyped
  <2>. QED BY <1>1, <2>1, <2>2
<1>7. Remaining(w) = l - p
  BY <1>1, <1>6 DEF Remaining
<1>8. Remaining(w) = 0 <=> p = l
  <2>1. l - p = 0 <=> p = l
    OBVIOUS
  <2>. QED BY <1>7, <2>1
<1>9. ASSUME ws'.op = w.op, ws'.cont = w.cont, ws'.nPayload = w.nPayload, ws'.carry = w.carry, ws'.frame = w.frame,
             ws'.st # "HEADER", ws'.ready = Span(stream, y + 1, m), p = l => ws'.st = "AVAILABLE"
      PROVE  Live'
  <2>1. w.nPayload = stream[i].len => ws'.st = "AVAILABLE"
    BY <1>6, <1>9
  <2>2. AtBody(i)'
    BY <1>4, <1>5, <1>9, <2>1, BodyGoesOn
  <2>3. ws'.frame = i
    BY <1>1, <1>9
  <2>. QED BY <1>9, <2>2, <2>3 DEF Live
<1>10. <<>> \in Seq(Bytes)
  OBVIOUS
<1>11. CASE k < Len(b) /\ ws' = [w EXCEPT !.st = "AVAILABLE", !.ready = SubSeq(b, k + 1, Len(b))]
  <2>1. PICK r \in Seq(Bytes) : r = SubSeq(b, k + 1, Len(b))
    <3>1. PICK a \in Nat : a = Len(b) /\ k <= a
      BY <1>2
    <3>2. SubSeq(b, k + 1, a) \in Seq(Bytes)
      BY <1>2, <3>1, PartTyped
    <3>. QED BY <3>1, <3>2
  <2>2. ws' = [w EXCEPT !.st = "AVAILABLE", !.ready = r]
    BY <1>11, <2>1
  <2>3. ws' = [st |-> "AVAILABLE", nRead |-> w.nRead, op |-> w.op, frame |-> w.frame, nPayload |-> w.nPayload,
               carry |-> w.carry, ready |-> r, cont |-> w.cont]
    BY <1>1, <2>2, SetStReady
  <2>4. /\ ws'.op = w.op /\ ws'.cont = w.cont /\ ws'.nPayload = w.nPayload /\ ws'.carry = w.carry /\ ws'.frame = w.frame
        /\ ws'.st = "AVAILABLE" /\ ws'.ready = r
    BY <2>3
  <2>. QED BY <1>4, <1>9, <2>1, <2>4
<1>12. ASSUME k = Len(b) PROVE y = m
  <2>1. k = m - g
    BY <1>2, <1>12
  <2>. QED BY <1>3, <2>1
<1>13. CASE k = Len(b) /\ Remaining(w) = 0 /\ ws' = FrameComplete(w)
  <2>1. p = l /\ w.carry = <<>>
    BY <1>1, <1>6, <1>8, <1>13
  <2>2. bs = l
    <3>1. PICK q \in Nat : q = Len(<<>>) /\ q = 0
      OBVIOUS
    <3>2. bs = l - q
      BY <1>1, <1>6, <2>1, <3>1
    <3>. QED BY <3>1, <3>2
  <2>3. Decoded(stream, i, l) = DataLen(stream, i)
    <3>1. l \in Nat /\ l <= l
      OBVIOUS
    <3>. QED BY <1>6, <3>1, DecodedTyped
  <2>4. m = Off(stream, i)
    BY <1>1, <2>2, <2>3, DataAt
  <2>5. got' = Span(stream, 1, Off(stream, i))
    BY <1>4, <1>12, <1>13, <2>4
  <2>6. pos' = Start(stream, i) + stream[i].head + stream[i].len
    BY <1>6, <2>1
  <2>7. ws'.st = "HEADER" /\ \E j \in 1 .. (Len(stream') + 1) : AtHeader(j)'
    BY <1>1, <1>13, <2>5, <2>6, FrameEnds
  <2>. QED BY <2>7 DEF Live
<1>14. CASE k = Len(b) /\ Remaining(w) # 0 /\ ws' = [w EXCEPT !.st = "NEEDED", !.ready = <<>>]
  <2>1. ws' = [st |-> "NEEDED", nRead |-> w.nRead, op |-> w.op, frame |-> w.frame, nPayload |-> w.nPayload,
               carry |-> w.carry, ready |-> <<>>, cont |-> w.cont]
    BY <1>1, <1>10, <1>14, SetStReady
  <2>2. /\ ws'.op = w.op /\ ws'.cont = w.cont /\ ws'.nPayload = w.nPayload /\ ws'.carry = w.carry /\ ws'.frame = w.frame
        /\ ws'.st = "NEEDED" /\ ws'.ready = <<>>
    BY <2>1
  <2>3. Span(stream, y + 1, m) = <<>>
    <3>1. PICK a \in Nat : a = Len(b) /\ k = a
      BY <1>2, <1>14
    <3>2. SubSeq(b, k + 1, a) = <<>>
      <4>1. a <= a /\ a - a = 0
        OBVIOUS
      <4>2. SubSeq(b, a + 1, a) \in Seq(Bytes) /\ Len(SubSeq(b, a + 1, a)) = a - a
        BY <1>2, <3>1, <4>1, PartTyped
      <4>3. PICK z \in Seq(Bytes) : z = SubSeq(b, a + 1, a) /\ Len(z) = 0
        BY <4>1, <4>2
      <4>4. z = <<>>
        BY <4>3
      <4>. QED BY <3>1, <4>3, <4>4
    <3>. QED BY <1>4, <3>1, <3>2
  <2>4. p # l
    BY <1>8, <1>14
  <2>. QED BY <1>9, <2>2, <2>3, <2>4
<1>. QED BY <1>11, <1>13, <1>14 DEF ReturnStep

LEMMA ReturnReadyLive ==
  ASSUME Framed, Typed, PInv, ReturnReady
  PROVE  PInv'
<1>1. /\ gone = "no" /\ pc = "read" /\ ws.st = "AVAILABLE" /\ ReturnData(ws, ws.ready)
      /\ UNCHANGED <<stream, tls, ends, hup, pos, gone>>
  BY DEF ReturnReady, wire
<1>2. /\ Typed /\ Live /\ stream \in Streams /\ ws \in Context /\ ws.ready \in Seq(Bytes) /\ ws.ready # <<>>
      /\ todo \in Seq(Nat \ {0}) /\ todo # <<>> /\ got \in Seq(Bytes)
  BY <1>1 DEF Typed, SocketTyped, ContextTyped, ThreadTyped, IsReady, Context, PInv
<1>3. /\ pc' \in {"read", "loop"}
      /\ \E n \in Nat \ {0} : n <= Len(ws.ready) /\ got' = got \o SubSeq(ws.ready, 1, n) /\ ReturnStep(ws, ws.ready, n)
  BY <1>1, <1>2, ReturnIs
<1>4. PICK n \in Nat : n <= Len(ws.ready) /\ got' = got \o SubSeq(ws.ready, 1, n) /\ ReturnStep(ws, ws.ready, n)
  BY <1>3
<1>5. PICK i \in 1 .. Len(stream), x \in Nat, h \in {6, 8, 14}, l \in Nat, p \in Nat, c \in 0 .. 3, o \in Nat, d \in Nat :
           BodyAt(i, x, h, l, p, c, o, d)
  BY <1>1, <1>2, AtBodyIs
<1>6. /\ i = ws.frame /\ x = Start(stream, i) /\ h = stream[i].head /\ l = stream[i].len
      /\ p = ws.nPayload /\ c = Len(ws.carry) /\ c <= p /\ p <= l /\ pos = x + h + p
      /\ p - c \in Nat /\ ((p - c) % 4 = 0 \/ p = l) /\ (p = l => c = 0)
      /\ o = Off(stream, i - 1) /\ d = Decoded(stream, i, p - c) /\ o + d <= Len(All(stream))
      /\ Len(got) \in Nat /\ Len(got) <= o + d /\ got = Span(stream, 1, Len(got))
      /\ ws.ready = Span(stream, Len(got) + 1, o + d)
      /\ Allowed(i) /\ ws.cont = ContWithin(stream, i) /\ ws.op = Op(stream, i)
      /\ \A j \in 1 .. c : ws.carry[j] = (p - c) + j - 1
  BY <1>5 DEF BodyAt
<1>7. PICK b \in Nat, m \in Nat, g \in Nat : b = p - c /\ m = o + d /\ g = Len(got)
  BY <1>6
<1>8. c = 0 => ws.carry = <<>>
  <2>1. PICK z \in Seq(Nat) : z = ws.carry
    BY <1>2 DEF Context
  <2>2. Len(z) = 0 => z = <<>>
    OBVIOUS
  <2>3. Len(z) = c
    BY <1>6, <2>1
  <2>. QED BY <2>1, <2>2, <2>3
<1>9. Within(ws, i, b, m)
  <2>1. \A j \in 1 .. Len(ws.carry) : ws.carry[j] = b + j - 1
    BY <1>6, <1>7
  <2>2. b % 4 = 0 \/ ws.nPayload = stream[i].len
    BY <1>6, <1>7
  <2>3. ws.nPayload <= stream[i].len /\ b = ws.nPayload - Len(ws.carry)
    BY <1>6, <1>7
  <2>. QED BY <1>2, <1>6, <1>7, <1>8, <2>1, <2>2, <2>3 DEF Within
<1>10. EndsWhole'
  BY <1>1, <1>2 DEF Live, EndsWhole
<1>11. pos' = Start(stream, i) + stream[i].head + ws.nPayload
  BY <1>1, <1>6
<1>12. g <= m /\ got = Span(stream, 1, g) /\ ws.ready = Span(stream, g + 1, m)
  BY <1>6, <1>7
<1>13. Live'
  BY <1>1, <1>2, <1>3, <1>4, <1>9, <1>10, <1>11, <1>12, ReturnLive
<1>. QED BY <1>1, <1>13 DEF PInv

\* What the decoder takes, and decodes, of the frame: where it is then.
LEMMA TakenWithin ==
  ASSUME NEW i \in 1 .. Len(stream), NEW b, NEW r, NEW n, NEW m, Taken \in Context, Taken.frame = i,
         Taken.op = Op(stream, i), Taken.cont = ContWithin(stream, i), Allowed(i),
         Progress(i, b, r, n), n <= stream[i].len, NEW e, e = b + r,
         m = Off(stream, i - 1) + Decoded(stream, i, e), m <= Len(All(stream))
  PROVE  Within(Taken, i, e, m)
<1>1. /\ Complete <=> n = stream[i].len
      /\ Complete => Taken.carry = <<>>
      /\ ~Complete => (b + r) % 4 = 0
      /\ n = Taken.nPayload /\ n - Len(Taken.carry) = b + r
      /\ \A j \in 1 .. Len(Taken.carry) : Taken.carry[j] = (b + r) + j - 1
  BY DEF Progress
<1>2. Taken.nPayload <= stream[i].len /\ e = Taken.nPayload - Len(Taken.carry)
  BY <1>1
<1>3. \A j \in 1 .. Len(Taken.carry) : Taken.carry[j] = e + j - 1
  BY <1>1
<1>4. e % 4 = 0 \/ Taken.nPayload = stream[i].len
  BY <1>1
<1>5. Taken.nPayload = stream[i].len => Taken.carry = <<>>
  BY <1>1
<1>. HIDE DEF Taken
<1>. QED BY <1>2, <1>3, <1>4, <1>5 DEF Within

\* A closing frame, once it is complete: all before it is with the readers.
LEMMA ClosedHere ==
  ASSUME stream \in Streams, NEW i \in 1 .. Len(stream), stream[i].op = "CLOSE", Allowed(i),
         got = Span(stream, 1, Off(stream, i - 1)), UNCHANGED <<stream, got>>, gone' = "error"
  PROVE  PInv'
<1>1. Len(stream) \in Nat /\ i - 1 \in 0 .. Len(stream)
  BY StreamTyped
<1>2. got = Payload(stream, i - 1)
  BY <1>1, PayloadSpan
<1>3. \A j \in 1 .. (i - 1) : ~Forbidden(stream, j)
  <2>1. ASSUME NEW j \in 1 .. (i - 1) PROVE j \in 1 .. i
    BY <1>1
  <2>. QED BY <2>1 DEF Allowed
<1>4. PICK o \in Nat : o = Off(stream, i - 1) /\ o <= Len(All(stream))
  BY <1>1, AllTyped
<1>5. IsPrefix(got, Payload(stream, Len(stream)))
  BY <1>4, FrontTyped
<1>. QED BY <1>2, <1>3, <1>5 DEF PInv, Ended

LEMMA ReadAndDecodeLive ==
  ASSUME Framed, Typed, PInv, ReadAndDecode
  PROVE  PInv'
<1>1. /\ gone = "no" /\ pc = "read" /\ ws.st \in {"NEEDED", "CLOSING"} /\ (Asked > 0 => Some)
      /\ TakeBytes(N) /\ UNCHANGED <<stream, tls, hup>>
      /\ BodyStep
  BY BodyIs
<1>2. /\ Typed /\ Live /\ stream \in Streams /\ ws \in Context /\ ws.ready = <<>> /\ ws.st # "HEADER"
      /\ todo \in Seq(Nat \ {0}) /\ todo # <<>> /\ got \in Seq(Bytes) /\ ws.op \in Ops /\ ws.op # "INVALID"
  BY <1>1, FrameIs DEF Typed, SocketTyped, ContextTyped, ThreadTyped, IsReady, PInv
<1>3. N \in Nat /\ N <= Current.len - ws.nPayload
  BY <1>1, <1>2, TakenHowMany
<1>4. /\ Taken \in Context /\ Taken.st = ws.st /\ Taken.op = ws.op /\ Taken.frame = ws.frame
      /\ Taken.cont = ws.cont /\ Taken.ready = ws.ready
  BY <1>1, <1>2, TakenIs
<1>5. /\ EndsWhole'
      /\ Again(pos + N) => /\ pc' \in {"read", "wait"} /\ (pc' = "read" => tls)
                           /\ (pc' \in {"select", "wait"} => ~PendingAt(pos)')
  BY <1>1, <1>2, <1>3, TakeWhole
<1>6. PICK i \in 1 .. Len(stream), x \in Nat, h \in {6, 8, 14}, l \in Nat, p \in Nat, c \in 0 .. 3, o \in Nat, d \in Nat :
           BodyAt(i, x, h, l, p, c, o, d)
  BY <1>2, AtBodyIs
<1>7. PICK b \in Nat, r \in Nat, n \in Nat : b = p - c /\ n = p + N /\ Progress(i, b, r, n)
  <2>1. /\ Typed /\ Live /\ ws.st \in {"NEEDED", "CLOSING"} /\ pc = "read" /\ (Asked > 0 => Some)
        /\ BodyAt(i, x, h, l, p, c, o, d)
    BY <1>1, <1>2, <1>6
  <2>2. PICK b \in Nat, r \in Nat, n \in Nat : Progressed(i, p, c, b, r, n)
    BY <2>1, ProgressIs
  <2>. QED BY <2>2 DEF Progressed
<1>8. /\ i = ws.frame /\ x = Start(stream, i) /\ h = stream[i].head /\ l = stream[i].len
      /\ p = ws.nPayload /\ pos = x + h + p /\ p <= l
      /\ o = Off(stream, i - 1) /\ d = Decoded(stream, i, b) /\ o + d <= Len(All(stream))
      /\ Len(got) \in Nat /\ Len(got) <= o + d /\ got = Span(stream, 1, Len(got))
      /\ ws.ready = Span(stream, Len(got) + 1, o + d)
      /\ Allowed(i) /\ ws.cont = ContWithin(stream, i) /\ ws.op = Op(stream, i)
  BY <1>6, <1>7 DEF BodyAt
<1>9. PICK g \in Nat : g = o + d
  OBVIOUS
<1>10. g = Len(got) /\ got = Span(stream, 1, g) /\ g <= Len(All(stream))
  <2>1. PICK a \in Nat : a = Len(got) /\ a <= g /\ g <= Len(All(stream)) /\ Span(stream, a + 1, g) = <<>>
    BY <1>2, <1>8, <1>9
  <2>2. a = g
    BY <1>2, <2>1, EmptyPart
  <2>. QED BY <1>8, <2>1, <2>2
<1>11. n <= l /\ n \in Nat /\ pos' = x + h + n
  <2>1. PICK k \in Nat : k = N /\ k <= l - p
    BY <1>3, <1>8 DEF Current
  <2>2. pos' = pos + k
    BY <1>1, <2>1 DEF TakeBytes
  <2>3. p + k <= l /\ x + h + p + k = x + h + (p + k)
    BY <2>1
  <2>. QED BY <1>7, <1>8, <2>1, <2>2, <2>3
<1>12. /\ Complete <=> n = l
       /\ Complete => b + r = l /\ Taken.carry = <<>>
       /\ b + r <= l /\ n = Taken.nPayload
  BY <1>7, <1>8 DEF Progress
<1>13. PICK e \in Nat : e = b + r /\ e <= l
  BY <1>12
<1>14. PICK u \in Nat : u = Decoded(stream, i, e) /\ u <= DataLen(stream, i) /\ (e = l => u = DataLen(stream, i))
  <2>1. e <= stream[i].len
    BY <1>8, <1>13
  <2>. QED BY <1>2, <1>8, <2>1, DecodedTyped
<1>15. PICK m \in Nat : m = o + u /\ m <= Len(All(stream)) /\ (e = l => m = Off(stream, i))
  <2>1. PICK v \in Nat, w \in Nat, z \in Nat :
          v = Off(stream, i) /\ w = Len(All(stream)) /\ z = DataLen(stream, i) /\ v = o + z /\ v <= w
    BY <1>2, <1>8, DataAt, AllTyped, DataTyped, SMTT(30)
  <2>2. u <= z /\ (e = l => u = z)
    BY <1>14, <2>1
  <2>3. o + u <= w /\ (e = l => o + u = v)
    BY <2>1, <2>2
  <2>. QED BY <2>1, <2>3
<1>16. Within(Taken, i, e, m)
  <2>1. n <= stream[i].len /\ m = Off(stream, i - 1) + Decoded(stream, i, e)
    BY <1>8, <1>11, <1>14, <1>15
  <2>. HIDE DEF Taken
  <2>. QED BY <1>4, <1>7, <1>8, <1>13, <1>15, <2>1, TakenWithin
<1>17. pos' = Start(stream, i) + stream[i].head + Taken.nPayload /\ stream' = stream
  BY <1>1, <1>8, <1>11, <1>12
<1>. HIDE DEF Taken, Complete, B, Part, N
\* A control frame.
<1>18. ASSUME ws.op \in {"PING", "CLOSE"} PROVE u = 0 /\ d = 0 /\ m = g /\ stream[i].op = ws.op
  <2>1. Control(stream[i]) /\ stream[i].op = ws.op
    BY <1>8, <1>18 DEF Op
  <2>2. u = 0 /\ d = 0
    BY <1>8, <1>14, <2>1 DEF Decoded
  <2>. QED BY <1>9, <1>15, <2>1, <2>2
<1>19. CASE Taken.op = "CLOSE" /\ Complete /\ gone' = "error" /\ UNCHANGED <<pc, todo, got>>
  <2>1. stream[i].op = "CLOSE" /\ d = 0
    BY <1>4, <1>18, <1>19
  <2>2. g = o
    BY <1>9, <2>1
  <2>. QED BY <1>1, <1>2, <1>8, <1>10, <1>19, <2>1, <2>2, ClosedHere
\* Nothing is decoded.
<1>20. ASSUME m = g, UNCHANGED <<todo, got, gone>>, Again(pos + N),
              ~Complete, ws'.st \in {"NEEDED", "CLOSING"}, ws'.op = Taken.op, ws'.cont = Taken.cont,
              ws'.nPayload = Taken.nPayload, ws'.carry = Taken.carry, ws'.ready = Taken.ready, ws'.frame = Taken.frame
       PROVE  PInv'
  <2>0. g <= m
    BY <1>20
  <2>1. Len(got') = g /\ g <= m /\ got' = Span(stream, 1, g)
    BY <1>10, <1>20, <2>0
  <2>2. ws'.ready = Span(stream, g + 1, m)
    BY <1>4, <1>8, <1>9, <1>10, <1>20
  <2>3. Taken.nPayload = stream[i].len => ws'.st = "AVAILABLE"
    BY <1>8, <1>12, <1>20
  <2>4. AtBody(i)'
    BY <1>16, <1>17, <1>20, <2>1, <2>2, <2>3, BodyGoesOn
  <2>5. ws'.frame = i /\ ws'.st # "HEADER"
    BY <1>4, <1>8, <1>20
  <2>. QED BY <1>1, <1>5, <1>20, <2>4, <2>5 DEF PInv, Live
<1>21. CASE Taken.op = "CLOSE" /\ ~Complete /\ ws' = [Taken EXCEPT !.st = "CLOSING"] /\ Again(pos + N) /\ UNCHANGED <<todo, got, gone>>
  <2>1. /\ ws'.st = "CLOSING" /\ ws'.op = Taken.op /\ ws'.frame = Taken.frame /\ ws'.cont = Taken.cont
        /\ ws'.nPayload = Taken.nPayload /\ ws'.carry = Taken.carry /\ ws'.ready = Taken.ready
    BY <1>4, <1>21 DEF Context
  <2>2. m = g
    BY <1>4, <1>18, <1>21
  <2>. QED BY <1>20, <1>21, <2>1, <2>2
<1>22. ASSUME ws.op \in {"TEXT", "BINARY"} PROVE Decodes(B, i, b, r)
  <2>1. Taken.op = ws.op
    BY <1>4
  <2>. QED BY <1>2, <1>7, <1>8, <1>22, <2>1, DecodedOf
<1>23. ASSUME ws.op \in {"TEXT", "BINARY"}
       PROVE  /\ B \in Seq(Bytes) /\ Len(B) \in Nat /\ u = d + Len(B)
              /\ \A k \in 1 .. Len(B) : B[k] = <<i, d + k - 1>>
  BY <1>8, <1>13, <1>14, <1>22, <1>23 DEF Decodes
<1>24. CASE (Taken.op = "PING" \/ (Taken.op # "CLOSE" /\ B = <<>>))
            /\ ws' = (IF Complete THEN FrameComplete(Taken) ELSE Taken)
            /\ Again(pos + N) /\ UNCHANGED <<todo, got, gone>>
  <2>1. m = g
    <3>1. CASE Taken.op = "PING"
      BY <1>4, <1>18, <3>1
    <3>2. CASE Taken.op # "PING"
      <4>1. ws.op \in {"TEXT", "BINARY"} /\ B = <<>>
        BY <1>2, <1>4, <1>24, <3>2 DEF Ops
      <4>2. PICK a \in Nat : a = Len(B) /\ a = 0
        BY <4>1
      <4>3. u = d + a
        BY <1>23, <4>1, <4>2
      <4>4. u = d
        BY <4>2, <4>3
      <4>. QED BY <1>9, <1>15, <4>4
    <3>. QED BY <3>1, <3>2
  <2>2. CASE Complete
    <3>1. e = l /\ n = l
      BY <1>12, <1>13, <2>2
    <3>2. got' = Span(stream, 1, Off(stream, i))
      BY <1>10, <1>15, <1>24, <2>1, <3>1
    <3>3. pos' = Start(stream, i) + stream[i].head + stream[i].len
      BY <1>8, <1>11, <3>1
    <3>4. pc' # "rest"
      BY <1>5, <1>24
    <3>5. ws' = FrameComplete(Taken) /\ Taken.frame = i /\ Taken.cont = ContWithin(stream, i)
      BY <1>4, <1>8, <1>24, <2>2
    <3>6. ws'.st = "HEADER" /\ \E j \in 1 .. (Len(stream') + 1) : AtHeader(j)'
      BY <1>2, <1>4, <1>8, <1>17, <3>2, <3>3, <3>4, <3>5, FrameEnds
    <3>. QED BY <1>1, <1>5, <1>24, <3>6 DEF PInv, Live
  <2>3. CASE ~Complete
    <3>1. ws' = Taken
      BY <1>24, <2>3
    <3>. QED BY <1>1, <1>4, <1>20, <1>24, <2>1, <2>3, <3>1
  <2>. QED BY <2>2, <2>3
<1>25. CASE Taken.op \notin {"PING", "CLOSE"} /\ B # <<>> /\ ReturnData(Taken, B) /\ UNCHANGED gone
  <2>1. ws.op \in {"TEXT", "BINARY"}
    BY <1>2, <1>4, <1>25 DEF Ops
  <2>2. B \in Seq(Bytes)
    BY <1>23, <2>1
  <2>3. /\ pc' \in {"read", "loop"}
        /\ \E k \in Nat \ {0} : k <= Len(B) /\ got' = got \o SubSeq(B, 1, k) /\ ReturnStep(Taken, B, k)
    BY <1>2, <1>4, <1>25, <2>2, ReturnIs
  <2>4. PICK k \in Nat : k <= Len(B) /\ got' = got \o SubSeq(B, 1, k) /\ ReturnStep(Taken, B, k)
    BY <2>3
  <2>5. PICK a \in Nat : a = Len(B) /\ u = d + a /\ m = g + a
    <3>1. PICK a \in Nat : a = Len(B) /\ u = d + a
      BY <1>23, <2>1
    <3>2. o + (d + a) = (o + d) + a
      OBVIOUS
    <3>. QED BY <1>9, <1>15, <3>1, <3>2
  <2>6. All(stream) \in Seq(Bytes) /\ g <= m
    BY <1>2, <2>5, AllTyped
  <2>. DEFINE t == SubSeq(All(stream), g + 1, m)
  <2>7. t \in Seq(Bytes) /\ Len(t) = m - g /\ \A j \in 1 .. m - g : t[j] = All(stream)[g + j]
    BY <1>15, <2>6, PartTyped
  <2>8. m - g = a
    BY <2>5
  <2>. HIDE DEF t
  <2>9. \A j \in 1 .. a : B[j] = t[j]
    <3>. SUFFICES ASSUME NEW j \in 1 .. a PROVE B[j] = t[j]
      OBVIOUS
    <3>1. B[j] = <<i, d + j - 1>>
      BY <1>23, <2>1, <2>5
    <3>2. t[j] = All(stream)[g + j]
      BY <2>7, <2>8
    <3>3. d + j \in 1 .. DataLen(stream, i)
      <4>1. PICK z \in Nat : z = DataLen(stream, i) /\ u <= z
        BY <1>2, <1>14, DataTyped
      <4>2. d + j \in 1 .. z
        BY <2>5, <4>1
      <4>. QED BY <4>1, <4>2
    <3>4. All(stream)[o + (d + j)] = <<i, (d + j) - 1>>
      BY <1>2, <1>8, <3>3, DataAt
    <3>5. o + (d + j) = g + j /\ (d + j) - 1 = d + j - 1
      BY <1>9
    <3>. QED BY <3>1, <3>2, <3>4, <3>5
  <2>10. B = t
    BY <2>2, <2>5, <2>7, <2>8, <2>9, SameSeq
  <2>11. B = Span(stream, g + 1, m)
    BY <2>10 DEF t, Span, All
  <2>12. Live'
    BY <1>2, <1>5, <1>10, <1>16, <1>17, <2>3, <2>4, <2>6, <2>11, ReturnLive
  <2>. QED BY <1>1, <1>25, <2>12 DEF PInv
<1>. QED BY <1>1, <1>19, <1>21, <1>24, <1>25 DEF BodyStep

-----------------------------------------------------------------------------
LEMMA LiveStep ==
  ASSUME Framed, Typed, PInv, [Next]_vars
  PROVE  PInv'
<1>0. Typed'
  BY TypedStep
<1>1. CASE Arrive
  BY <1>0, <1>1, ArriveLive
<1>2. CASE HangUp \/ CheckFds \/ NextMessage \/ Waited \/ Timeout
  BY <1>0, <1>2, WaitsLive
<1>3. CASE ReadHeader
  BY <1>3, ReadHeaderLive
<1>4. CASE ReadRest
  BY <1>4, ReadRestLive
<1>5. CASE ReadFails
  BY <1>5, ReadFailsLive
<1>6. CASE ReadAndDecode
  BY <1>6, ReadAndDecodeLive
<1>7. CASE ReturnReady
  BY <1>7, ReturnReadyLive
<1>8. CASE UNCHANGED vars
  BY <1>8 DEF vars, PInv, Live, Ended, EndsWhole, PendingAt, AtHeader, AtBody, Allowed, Some,
     Arrived, Base
<1>. QED BY <1>1, <1>2, <1>3, <1>4, <1>5, <1>6, <1>7, <1>8 DEF Next, Server

LEMMA DeliveredIs == Typed /\ PInv => Delivered
<1>. SUFFICES ASSUME Typed, PInv PROVE Delivered
  OBVIOUS
<1>1. CASE gone = "no"
  <2>1. Live
    BY <1>1 DEF PInv
  <2>2. InStep
    BY <2>1 DEF Live, InStep, AtHeader
  <2>3. IsPrefix(got, Payload(stream, Len(stream)))
    BY <2>1, LivePrefix
  <2>. QED BY <1>1, <2>2, <2>3 DEF Delivered
<1>2. CASE gone # "no"
  BY <1>2 DEF PInv, Ended, Delivered
<1>. QED BY <1>1, <1>2

LEMMA DrainedIs == Typed /\ PInv => Drained
<1>. SUFFICES ASSUME Typed, PInv, gone = "no", Waiting,
                     NEW i \in 1 .. Len(stream), Arrived >= Start(stream, i + 1)
              PROVE  IsPrefix(Payload(stream, i), got)
  BY DEF Drained
<1>1. Live /\ Typed /\ gone = "no" /\ tls \in BOOLEAN
  BY DEF PInv, Typed, SocketTyped
<1>2. PICK a \in Nat, p \in Nat : a = Arrived /\ p = pos /\ p <= a /\ a \in ends
  BY EndsTyped
<1>3. ws.st # "AVAILABLE" /\ ~(p < a)
  <2>1. CASE pc \in {"select", "wait"} /\ ~Readable
    <3>1. ws.st # "AVAILABLE"
      BY <2>1 DEF Typed, ContextTyped, IsReady
    <3>2. CASE tls
      <4>1. p \in ends
        BY <1>1, <1>2, <2>1, <3>2 DEF Live, PendingAt
      <4>2. ~(pos <= p /\ p < a)
        BY <1>2, <2>1, <3>2, <4>1 DEF Readable
      <4>3. p <= p
        OBVIOUS
      <4>. QED BY <1>2, <3>1, <4>2, <4>3
    <3>3. CASE ~tls
      <4>1. ~(a > p)
        BY <1>2, <2>1, <3>3 DEF Readable, Some
      <4>. QED BY <3>1, <4>1
    <3>. QED BY <3>2, <3>3
  <2>2. CASE ws.st # "AVAILABLE" /\ ~Some
    <3>1. ~(a > p)
      BY <1>2, <2>2 DEF Some
    <3>. QED BY <2>2, <3>1
  <2>. QED BY <2>1, <2>2 DEF Waiting
<1>4. a = p
  BY <1>2, <1>3
<1>5. Start(stream, i + 1) <= pos
  <2>1. stream \in Streams /\ Len(stream) \in Nat
    BY StreamTyped DEF Typed, SocketTyped
  <2>2. i + 1 \in 1 .. Len(stream) + 1
    BY <2>1
  <2>3. PICK y \in Nat : y = Start(stream, i + 1)
    BY <2>1, <2>2, StartAt
  <2>4. a >= y
    BY <1>2, <2>3
  <2>5. y <= p
    BY <1>4, <2>4
  <2>. QED BY <1>2, <2>3, <2>5
<1>6. i \in 0 .. Len(stream)
  OBVIOUS
<1>. QED BY <1>1, <1>3, <1>5, <1>6, HandedOver

\* The emulated read gives the readers the bytes the browser put in its messages, in
\* order, and ends only where the stream or a frame ends it, if the pieces are those
\* the decoder can take.
THEOREM EveryByte == ASSUME Framed PROVE Spec => []Delivered
<1>1. Init => PInv
  BY InitLive
<1>2. Typed /\ PInv /\ [Next]_vars => PInv'
  BY LiveStep
<1>. QED BY <1>1, <1>2, DeliveredIs, Invariant, PTL DEF Spec

\* When the server thread waits, in select or inside TLS, every frame that came whole is
\* with the readers: nothing is left in the buffer of the decoder or of TLS.
THEOREM NothingWaits == ASSUME Framed PROVE Spec => []Drained
<1>1. Init => PInv
  BY InitLive
<1>2. Typed /\ PInv /\ [Next]_vars => PInv'
  BY LiveStep
<1>. QED BY <1>1, <1>2, DrainedIs, Invariant, PTL DEF Spec
==============================================================================
