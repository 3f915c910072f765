------------------------------- MODULE MCInput -------------------------------
\* Viewers with a keyboard or a mouse each, a server whose table puts the two
\* levels of the key "2" on different keys.
EXTENDS Input

CONSTANTS c1, c2

MCKeys == {"Ctrl", "Shift", "2"}
MCSymbol == [k \in MCKeys, s \in BOOLEAN |->
               CASE k = "2" /\ s -> "at" [] k = "2" /\ ~s -> "two" [] OTHER -> k]
MCScan == [s \in MCKeys \cup {"at", "two", "Alt", "Esc", "Del"} |->
             CASE s = "at" -> "Q" [] s = "two" -> "2" [] OTHER -> s]

On(s) == [symbol |-> s, down |-> TRUE]
Off(s) == [symbol |-> s, down |-> FALSE]
Menu == {<<On("Ctrl"), On("Esc"), Off("Esc"), Off("Ctrl")>>,
         <<On("Ctrl"), On("Alt"), On("Del"), Off("Del"), Off("Alt"), Off("Ctrl")>>}

Use(a, b) == [c \in {c1, c2} |-> IF c = c1 THEN a ELSE b]
MCScenes ==
  [hands : {Use("keys", "none")}, driver : {TRUE}, cad : {TRUE}, defer : {FALSE}, watchers : {{}}]
  \cup [hands : {Use("keys", "none")}, driver : {FALSE}, cad : {FALSE}, defer : {FALSE}, watchers : {{}, {c1}}]
  \cup [hands : {Use("mouse", "mouse")}, driver : {FALSE}, cad : {FALSE}, defer : BOOLEAN, watchers : {{}, {c2}}]
MCButtons == <<"left", "right">>
==============================================================================
