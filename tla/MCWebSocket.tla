----------------------------- MODULE MCWebSocket -----------------------------
\* Streams a browser sends, and the places where its bytes may stop.
EXTENDS WebSocket

Frame(op, len) == [op |-> op, fin |-> TRUE, masked |-> TRUE, pad |-> 0, len |-> len,
                   head |-> IF len < Extended THEN 6 ELSE IF len < Long THEN 8 ELSE 14]
Part(op, len) == [Frame(op, len) EXCEPT !.fin = FALSE]

Usual == {<<Frame("BINARY", 5), Frame("BINARY", 14)>>,
          <<Frame("BINARY", 3), Frame("BINARY", 16)>>,
          <<Part("TEXT", 8), Frame("PING", 1), Part("CONT", 4), [Frame("CONT", 4) EXCEPT !.pad = 1]>>,
          <<Part("BINARY", 2), Frame("CONT", 3), Frame("CLOSE", 2)>>,
          <<Frame("TEXT", 12), Frame("BINARY", 0), Frame("BINARY", 1)>>,
          <<Frame("BINARY", 1), [Frame("BINARY", 4) EXCEPT !.masked = FALSE]>>,
          <<Frame("BINARY", 2), [Frame("BINARY", 3) EXCEPT !.head = 8]>>,
          <<Frame("BINARY", 2), [Frame("BINARY", 9) EXCEPT !.head = 14]>>,
          <<Frame("BINARY", 2), Frame("CONT", 1)>>,
          <<Part("BINARY", 2), [Frame("PING", 0) EXCEPT !.fin = FALSE]>>}

Whole == [s \in Usual |-> [t \in BOOLEAN |-> {e \in 0..Total(s) : WholeAt(s, t, e)}]]

ASSUME CutsWhole == Framed

Shapes == {<<1, 3>>, <<1, 1, 5>>}
==============================================================================
