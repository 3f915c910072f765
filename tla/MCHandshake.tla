---------------------------- MODULE MCHandshake ----------------------------
\* Two connections, configurations and passwords.
EXTENDS Handshake, TLC

CONSTANTS c1, c2

Server(attach) == [kind |-> "own", attach |-> attach]
Foreign(m, ts) == [kind |-> "foreign", minor |-> m, types |-> ts]
Meet(v, s) == [viewer |-> v, server |-> s]

Ours == {Meet(v, Server(FALSE)) : v \in {"own", "3.3", "3.7", "mac"}}
        \cup {Meet(v, Server(TRUE)) : v \in {"own", "mac"}}
Away == {Meet("own", Foreign(m, <<"Tight", "VncAuth", "None">>)) : m \in {7, 889}}
        \cup {Meet("own", Foreign(m, <<"VncAuth">>)) : m \in {3, 5, 16}}
        \cup {Meet("own", Foreign(8, <<"Tight">>)), Meet("own", Foreign(7, <<"None">>)),
              Meet("own", Foreign(8, <<"None">>)), Meet("own", Foreign(4, <<"None">>))}

\* Who is there meanwhile: our viewer as a client or attached, or another one.
Guests == {Meet("own", Server(FALSE)), Meet("own", Server(TRUE)), Meet("mac", Server(FALSE))}
Two == {(c1 :> a) @@ (c2 :> b) : a \in Ours, b \in Guests}
One == {(c1 :> a) @@ (c2 :> Meet("own", Foreign(4, <<"None">>))) : a \in Away}
AllPairs == Two \cup One

Plain == [ultra |-> FALSE, primary |-> "p", viewOnly |-> NoPassword, alwaysShared |-> FALSE,
          neverShared |-> FALSE, dontDisconnect |-> FALSE]
Settings == {Plain,
             [Plain EXCEPT !.ultra = TRUE, !.viewOnly = "v", !.alwaysShared = TRUE],
             [Plain EXCEPT !.primary = NoPassword, !.viewOnly = "v", !.neverShared = TRUE,
                           !.dontDisconnect = TRUE]}
==============================================================================
