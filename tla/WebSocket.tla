----------------------------- MODULE WebSocket -----------------------------
(***************************************************************************)
(* A browser's connection: the RFB messages arrive in WebSocket frames.    *)
(* The server thread reads a message with rfbReadExact (sockets.c), which  *)
(* calls webSocketsDecode (websockets.c, ws_decode.c) as it would call     *)
(* read; below it a read of the socket or of TLS (rfbssl_openssl.c).       *)
(*                                                                         *)
(* A byte on the wire is its place in the stream of frames.  A frame is    *)
(* [op, fin, masked, head, len, pad]: head is the length of its header     *)
(* (6, 8 or 14 bytes, the mask included), len that of its payload, pad the *)
(* padding of its base64 text.  A byte of a message is <<frame, offset>>.  *)
(*                                                                         *)
(* The headers have their real lengths; the buffer and the two limits of   *)
(* the payload length are constants, small in the runs.  A text frame      *)
(* carries whole groups of base64: a fragment of a text message is decoded *)
(* for itself.  Once the decoder takes a byte that begins no frame for a   *)
(* header the model reads no more: what follows is whatever those bytes    *)
(* say.                                                                    *)
(***************************************************************************)
EXTENDS Integers, SequencesExt, FiniteSetsExt

CONSTANTS Streams,      \* sequences of frames a browser sends
          Cuts,         \* Cuts[s][t]: places in the stream s where the bytes may stop, with TLS or not
          Messages,     \* sequences of the lengths with which the server reads a message
          Pieces,       \* bound on the pieces that wait in the socket
          BufLen,       \* size of codeBufDecode: 2062
          Extended,     \* smallest payload with a header of 8 bytes: 126
          Long          \* smallest payload with a header of 14 bytes: 65536

ASSUME BufferRoom ==
  /\ BufLen \in Nat /\ BufLen >= 14 + 1 + 4
  /\ Extended \in Nat /\ Long \in Nat /\ Extended < Long

ASSUME MessagesAssumption == Messages \subseteq Seq(Nat \ {0}) \ {<<>>}

VARIABLES stream, tls,  \* what the browser sends, and whether the socket is under TLS
          ends,         \* ends of the pieces (TLS: records) not yet read to their end
          hup,          \* the browser has closed its side
          pos,          \* bytes taken from the socket
          ws,           \* wsctx
          pc, todo,     \* the server thread and the lengths it has still to read
          got,          \* bytes of messages returned to the readers
          gone          \* how the connection ended

wire == <<stream, tls, ends, hup>>
vars == <<stream, tls, ends, hup, pos, ws, pc, todo, got, gone>>

Garbled == <<0, 0>>

-----------------------------------------------------------------------------
(* The stream, apart from how it is decoded *)

Frames == [op : {"TEXT", "BINARY", "CONT", "PING", "CLOSE"}, fin : BOOLEAN, masked : BOOLEAN,
           head : {6, 8, 14}, len : Nat, pad : 0..2]

Control(f) == f.op \in {"PING", "CLOSE"}
Starts == [s \in Streams |-> LET upto[i \in 0..Len(s)] ==
                                  IF i = 0 THEN 0 ELSE upto[i - 1] + s[i].head + s[i].len
                             IN upto]
Start(s, i) == Starts[s][i - 1]
Total(s) == Start(s, Len(s) + 1)

\* The frame i carries base64: it belongs to a text message.
Base64Text(s, i) == /\ ~Control(s[i])
                    /\ \E j \in 1..i : /\ s[j].op = "TEXT"
                                       /\ \A k \in (j + 1)..i : s[k].op # "BINARY"

\* The bytes of messages in the frame i.
DataLen(s, i) == IF Control(s[i]) THEN 0
                 ELSE IF Base64Text(s, i) THEN 3 * (s[i].len \div 4) - s[i].pad ELSE s[i].len
Data(s, i) == [k \in 1..DataLen(s, i) |-> <<i, k - 1>>]

Payloads == [s \in Streams |-> LET upto[i \in 0..Len(s)] ==
                                    IF i = 0 THEN <<>> ELSE upto[i - 1] \o Data(s, i)
                               IN upto]
Payload(s, i) == Payloads[s][i]

ASSUME StreamsAssumption == Streams \subseteq Seq(Frames)
ASSUME TextAssumption ==
  \A s \in Streams : \A i \in 1..Len(s) :
    Base64Text(s, i) => s[i].len % 4 = 0 /\ (s[i].len = 0 => s[i].pad = 0)
ASSUME CutsAssumption == \A s \in Streams, t \in BOOLEAN : Cuts[s][t] \subseteq 0..Total(s)

\* The protocol forbids the frame i, or it ends the connection.
Fragmented(s, i) == \E j \in 1..(i - 1) : /\ s[j].op \in {"TEXT", "BINARY"} /\ ~s[j].fin
                                          /\ \A k \in (j + 1)..(i - 1) : ~s[k].fin \/ Control(s[k])
Forbidden(s, i) ==
  \/ ~s[i].masked
  \/ Control(s[i]) /\ ~s[i].fin
  \/ s[i].op = "CONT" /\ ~Fragmented(s, i)
  \/ s[i].head = 8 /\ s[i].len < Extended
  \/ s[i].head = 14 /\ s[i].len < Long

\* A place where the bytes may stop if a frame comes whole, but for the first
\* bytes of its header, and so do the frames of one message; a record of TLS may
\* end anywhere but inside the last bytes of an extended header.
WholeAt(s, t, e) ==
  \/ e = Total(s)
  \/ \E i \in 1..Len(s) :
       \/ e = Start(s, i) /\ (t \/ ~Fragmented(s, i))
       \/ e - Start(s, i) \in 1..(IF s[i].head = 6 THEN 5 ELSE 1)
       \/ t /\ e - Start(s, i) \in (2..5) \cup (s[i].head..(s[i].head + s[i].len))

\* The condition under which the reader gets every byte: the code does not keep the
\* state of a frame that comes in any other pieces.
Framed == \A s \in Streams, t \in BOOLEAN : \A e \in Cuts[s][t] : WholeAt(s, t, e)

-----------------------------------------------------------------------------
(* The socket *)

Arrived == Max(ends)
Some == Arrived > pos

\* Bytes a read of n bytes returns: under TLS those of one record.
Upto(n) == Min({n, (IF tls THEN Min({e \in ends : e > pos}) ELSE Arrived) - pos})

\* select: under TLS a record whose first bytes were taken is no longer in the socket.
Readable == hup \/ IF tls THEN \E b, e \in ends : pos <= b /\ b < e ELSE Some

\* rfbssl_pending: the rest of the record that was begun.
PendingAt(p) == tls /\ p \notin ends

TakeBytes(n) == /\ pos' = pos + n
                /\ ends' = {e \in ends : e >= pos + n}

-----------------------------------------------------------------------------
(* The decoder's context *)

Basics(w) == [st |-> "HEADER", nRead |-> 0, op |-> "INVALID", frame |-> 0, nPayload |-> 0,
              carry |-> <<>>, ready |-> <<>>, cont |-> w.cont]
\* Faulty variant: the type of a fragmented message is forgotten at a control frame.
Forgotten(w) == [Basics(w) EXCEPT !.cont = "INVALID"]
CleanupForContinuation(w) == Basics(w)
CleanupComplete(w) == [Basics(w) EXCEPT !.cont = "INVALID"]

Current == stream[ws.frame]
Remaining(w) == stream[w.frame].len - w.nPayload

\* The single point of return: a frame received to its end.
FrameComplete(w) ==
  IF stream[w.frame].fin /\ ~Control(stream[w.frame]) THEN CleanupComplete(w)
  ELSE CleanupForContinuation(w)

\* The mask is applied from the first byte of what is decoded, four bytes at a time.
Unmask(raw) == [j \in 1..Len(raw) |-> IF raw[j] % 4 = (j - 1) % 4 THEN <<ws.frame, raw[j]>>
                                      ELSE Garbled]

\* rfbBase64PtoN: three bytes for every group of four, fewer for a padded one.
InGroup(raw, g) == \A j \in 1..4 : /\ raw[4 * g + j] = raw[4 * g + 1] + j - 1
                                   /\ raw[4 * g + j] % 4 = j - 1
Base64(raw) ==
  LET groups == Len(raw) \div 4
      padded == raw # <<>> /\ raw[Len(raw)] = Current.len - 1
  IN [k \in 1..(3 * groups - IF padded THEN Current.pad ELSE 0) |->
        LET g == (k - 1) \div 3
        IN IF InGroup(raw, g) THEN <<ws.frame, 3 * (raw[4 * g + 1] \div 4) + ((k - 1) % 3)>>
           ELSE Garbled]

\* Faulty variant: the last whole group waits too.
CarriedGroup(raw, complete) == IF complete THEN 0 ELSE IF Len(raw) % 4 = 0 THEN 4 ELSE Len(raw) % 4
\* Bytes carried over to the next call: what is no whole group of four.
Carried(raw, complete) == IF complete THEN 0 ELSE Len(raw) % 4

\* hybiPayloadStart, except in a frame whose payload is not for the reader.
WritePos == Current.head + IF ws.op \in {"TEXT", "BINARY"} THEN 0 ELSE ws.nPayload - Len(ws.carry)
BufSize == BufLen - (WritePos + Len(ws.carry)) - 1

\* The decoder is where a frame begins whenever it begins to read a header.
InStep == ws.st = "HEADER" => \E i \in 1..(Len(stream) + 1) : pos - ws.nRead = Start(stream, i)

\* Faulty variant: the bytes TLS holds are not looked at.
OwnDataInBuffer == ws.ready # <<>>
HasDataInBuffer == ws.ready # <<>> \/ PendingAt(pos)

-----------------------------------------------------------------------------
Init ==
  /\ stream \in Streams
  /\ tls \in BOOLEAN
  /\ ends = {0}
  /\ hup = FALSE
  /\ pos = 0
  /\ ws = [st |-> "HEADER", nRead |-> 0, op |-> "INVALID", frame |-> 0, nPayload |-> 0,
           carry |-> <<>>, ready |-> <<>>, cont |-> "INVALID"]
  /\ pc = "select"
  /\ todo = <<>>
  /\ got = <<>>
  /\ gone = "no"

(* The browser and the network *)

Arrive ==
  /\ gone = "no" /\ ~hup /\ Cardinality(ends) <= Pieces
  /\ \E e \in Cuts[stream][tls] \cup {Total(stream)} :
       /\ e > Arrived
       /\ ends' = IF tls THEN ends \cup {e} ELSE {e}
  /\ UNCHANGED <<stream, tls, hup, pos, ws, pc, todo, got, gone>>

HangUp ==
  /\ gone = "no" /\ ~hup
  /\ hup' = TRUE
  /\ UNCHANGED <<stream, tls, ends, pos, ws, pc, todo, got, gone>>

(* The server thread: rfbCheckFds, rfbProcessClientMessage, rfbReadExact *)

\* rfbProcessClientMessage begins a message of one of the kinds.
ProcessMessage == /\ \E m \in Messages : todo' = m
                  /\ pc' = "read"

CheckFds ==
  /\ gone = "no" /\ pc = "select" /\ Readable
  /\ ProcessMessage
  /\ UNCHANGED <<wire, pos, ws, got, gone>>

\* The condition of the loop that calls rfbProcessClientMessage.
NextMessage ==
  /\ gone = "no" /\ pc = "loop"
  /\ IF HasDataInBuffer THEN ProcessMessage
     ELSE pc' = "select" /\ UNCHANGED todo
  /\ UNCHANGED <<wire, pos, ws, got, gone>>

\* The decoder returned EAGAIN after reading up to p.
Again(p) == pc' = IF PendingAt(p) THEN "read" ELSE "wait"

Waited ==
  /\ gone = "no" /\ pc = "wait" /\ Readable
  /\ pc' = "read"
  /\ UNCHANGED <<wire, pos, ws, todo, got, gone>>

Timeout ==
  /\ gone = "no" /\ pc = "wait" /\ ~Readable
  /\ gone' = "timeout"
  /\ UNCHANGED <<wire, pos, ws, pc, todo, got>>

\* The decoder returned n > 0 bytes.
Returned(n) ==
  LET rest == IF n = Head(todo) THEN Tail(todo) ELSE <<Head(todo) - n>> \o Tail(todo)
  IN /\ todo' = rest
     /\ pc' = IF rest = <<>> THEN "loop" ELSE "read"

Refuse(w) == /\ ws' = CleanupComplete(w)
             /\ gone' = "error"
             /\ UNCHANGED pc

-----------------------------------------------------------------------------
(* hybiReadHeader *)

HeaderDone(w) == [w EXCEPT !.st = "NEEDED", !.nPayload = 0]

\* The first two bytes are there: the operation code, the fragments, the mask.
Interpret(w, f) ==
  [w EXCEPT !.op = IF f.op = "CONT" THEN w.cont ELSE f.op,
            !.cont = IF Control(f) \/ f.op = "CONT" THEN w.cont
                     ELSE IF f.fin THEN "INVALID" ELSE f.op]

BadStart(w, f) == \/ ~f.masked
                  \/ Control(f) /\ ~f.fin
                  \/ f.op = "CONT" /\ w.cont = "INVALID"

ReadHeader ==
  /\ gone = "no" /\ pc = "read" /\ ws.st = "HEADER" /\ InStep
  /\ ws.nRead < 6 /\ Some
  /\ LET n == Upto(6 - ws.nRead)
         i == CHOOSE j \in 1..Len(stream) : Start(stream, j) = pos - ws.nRead
         f == stream[i]
         w == [ws EXCEPT !.nRead = @ + n, !.frame = i]
     IN /\ TakeBytes(n)
        /\ \/ /\ w.nRead < 2
              /\ ws' = w
              /\ Again(pos + n) /\ UNCHANGED gone
           \/ /\ w.nRead >= 2 /\ BadStart(ws, f)
              /\ Refuse(w)
           \/ /\ w.nRead >= 2 /\ ~BadStart(ws, f) /\ f.head > 6
              /\ ws' = Interpret(w, f)
              /\ pc' = "rest" /\ UNCHANGED gone
           \/ /\ w.nRead \in 2..5 /\ ~BadStart(ws, f) /\ f.head = 6
              /\ ws' = Interpret(w, f)
              /\ Again(pos + n) /\ UNCHANGED gone
           \/ /\ w.nRead = 6 /\ ~BadStart(ws, f) /\ f.head = 6
              /\ ws' = HeaderDone(Interpret(w, f))
              /\ UNCHANGED <<pc, gone>>
  /\ UNCHANGED <<stream, tls, hup, todo, got>>

\* The rest of a header with an extended length, in the same call.
ReadRest ==
  /\ gone = "no" /\ pc = "rest" /\ Some
  /\ LET n == Upto(Current.head - ws.nRead)
         w == [ws EXCEPT !.nRead = @ + n]
         complete == w.nRead = Current.head
         short == Current.len < (IF Current.head = 8 THEN Extended ELSE Long)
     IN /\ TakeBytes(n)
        /\ \/ /\ complete /\ short
              /\ Refuse(w)
           \/ /\ complete => ~short
              /\ ws' = IF complete THEN HeaderDone(w) ELSE w
              /\ IF complete THEN pc' = "read" ELSE Again(pos + n)
              /\ UNCHANGED gone
  /\ UNCHANGED <<stream, tls, hup, todo, got>>

\* The bytes the next read asks for.  When six bytes or more of a header are
\* there already hybiReadHeader asks for none, which is taken for the end, or for
\* a negative number.
Asked == IF pc = "rest" THEN Current.head - ws.nRead
         ELSE IF ws.st = "HEADER" THEN 6 - ws.nRead
         ELSE Min({Remaining(ws), BufSize})

\* A read returns nothing: the state of the frame is dropped, and the reader is
\* told of the end or, on a plain socket, to try again; TLS waits for a record.
ReadFails ==
  /\ gone = "no" /\ pc \in {"read", "rest"} /\ ws.st # "AVAILABLE"
  /\ IF Asked > 0 THEN ~Some /\ (tls => hup) ELSE ws.st = "HEADER"
  /\ ws' = CleanupComplete(ws)
  /\ gone' = IF Asked < 0 THEN "error" ELSE IF Asked = 0 \/ hup THEN "closed" ELSE "no"
  /\ pc' = IF gone' = "no" THEN "wait" ELSE pc
  /\ UNCHANGED <<wire, pos, todo, got>>

-----------------------------------------------------------------------------
(* hybiReadAndDecode, hybiReturnData *)

\* hybiReturnData with the bytes b decoded.
ReturnData(w, b) ==
  LET n == Min({Head(todo), Len(b)})
      rest == SubSeq(b, n + 1, Len(b))
  IN /\ got' = got \o SubSeq(b, 1, n)
     /\ ws' = IF rest # <<>> THEN [w EXCEPT !.st = "AVAILABLE", !.ready = rest]
              ELSE IF Remaining(w) = 0 THEN FrameComplete(w)
              ELSE [w EXCEPT !.st = "NEEDED", !.ready = <<>>]
     /\ Returned(n)

ReadAndDecode ==
  /\ gone = "no" /\ pc = "read" /\ ws.st \in {"NEEDED", "CLOSING"}
  /\ LET n == IF Asked > 0 THEN Upto(Asked) ELSE 0
         raw == ws.carry \o [j \in 1..n |-> ws.nPayload + j - 1]
         complete == n = Remaining(ws)
         toReturn == Len(raw) - Carried(raw, complete)
         w == [ws EXCEPT !.nPayload = @ + n, !.carry = SubSeq(raw, toReturn + 1, Len(raw))]
         b == IF w.op = "TEXT" THEN Base64(SubSeq(raw, 1, toReturn))
              ELSE Unmask(SubSeq(raw, 1, toReturn))
     IN /\ Asked > 0 => Some
        /\ TakeBytes(n)
        /\ \/ /\ w.op = "CLOSE" /\ complete
              /\ ws' = FrameComplete(w)
              /\ gone' = "error"
              /\ UNCHANGED <<pc, todo, got>>
           \/ /\ w.op = "CLOSE" /\ ~complete
              /\ ws' = [w EXCEPT !.st = "CLOSING"]
              /\ Again(pos + n) /\ UNCHANGED <<todo, got, gone>>
           \/ /\ w.op = "PING" \/ (w.op # "CLOSE" /\ b = <<>>)
              /\ ws' = IF complete THEN FrameComplete(w) ELSE w
              /\ Again(pos + n) /\ UNCHANGED <<todo, got, gone>>
           \/ /\ w.op \notin {"PING", "CLOSE"} /\ b # <<>>
              /\ ReturnData(w, b)
              /\ UNCHANGED gone
  /\ UNCHANGED <<stream, tls, hup>>

\* A call that finds decoded bytes returns them without a read.
ReturnReady ==
  /\ gone = "no" /\ pc = "read" /\ ws.st = "AVAILABLE"
  /\ ReturnData(ws, ws.ready)
  /\ UNCHANGED <<wire, pos, gone>>

-----------------------------------------------------------------------------
Server == \/ CheckFds \/ NextMessage \/ Waited \/ ReadHeader \/ ReadRest
          \/ ReadFails \/ ReadAndDecode \/ ReturnReady

Next == Arrive \/ HangUp \/ Server \/ Timeout

Spec == Init /\ [][Next]_vars

-----------------------------------------------------------------------------
\* The context keeps at most three bytes to carry over, and what is carried and
\* decoded fits the buffer (carryBuf, codeBufDecode).
TypeOK ==
  /\ pos \in Nat /\ pos <= Arrived /\ Arrived <= Total(stream)
  /\ ws.st \in {"HEADER", "NEEDED", "CLOSING", "AVAILABLE"}
  /\ ws.op \in {"INVALID", "TEXT", "BINARY", "PING", "CLOSE"}
  /\ ws.cont \in {"INVALID", "TEXT", "BINARY"}
  /\ ws.nRead \in 0..14 /\ ws.frame \in 0..Len(stream)
  /\ ws.frame > 0 => ws.nPayload \in 0..Current.len
  /\ Len(ws.carry) <= 3 /\ Len(ws.ready) < BufLen
  /\ ws.st \in {"NEEDED", "CLOSING"} => WritePos + Len(ws.carry) < BufLen
  /\ pc \in {"select", "read", "rest", "wait", "loop"}
  /\ pc = "read" => todo # <<>> /\ Head(todo) > 0
  /\ gone \in {"no", "timeout", "closed", "error"}

\* The emulated read (webSocketsDecodeHybi): whatever the pieces in which the
\* frames arrive and the lengths the reader asks for, it is given the bytes the
\* browser put in its messages, unmasked, decoded and in order; the decoder is
\* never out of step with the frames; and a reader is told of an end or an error
\* only at the end of the stream, at a close frame or at a forbidden frame, with
\* every byte of the frames before it returned.
Delivered ==
  /\ gone = "no" => InStep
  /\ IsPrefix(got, Payload(stream, Len(stream)))
  /\ gone = "closed" =>
       hup /\ \A i \in 0..Len(stream) : Start(stream, i + 1) <= pos => IsPrefix(Payload(stream, i), got)
  /\ gone = "error" =>
       \E i \in 1..Len(stream) :
         /\ Forbidden(stream, i) \/ stream[i].op = "CLOSE"
         /\ \A j \in 1..(i - 1) : ~Forbidden(stream, j)
         /\ got = Payload(stream, i - 1)

\* What has arrived is handed to the readers though nothing more arrives: when
\* the server thread waits, in select or in a read of TLS, every frame that came
\* whole has been returned.  The loop around rfbProcessClientMessage is there for
\* the bytes in the decoder's buffer and in that of TLS, which select does not see.
Waiting == \/ pc \in {"select", "wait"} /\ ~Readable
           \/ pc \in {"read", "rest"} /\ ws.st # "AVAILABLE" /\ ~Some /\ tls /\ ~hup
Drained == (gone = "no" /\ Waiting) =>
  \A i \in 1..Len(stream) : Arrived >= Start(stream, i + 1) => IsPrefix(Payload(stream, i), got)
=============================================================================
