----------------------------- MODULE MCFileDialog -----------------------------
EXTENDS FileDialog

\* A file that is on both sides under one name, a file of its own on each side,
\* one on the server below a directory, and an empty directory.
MCRemote == <<"f">> :> <<"r1", "r2">> @@ <<"d">> :> Folder @@ <<"d", "g">> :> <<"r3">>
MCLocal  == <<"f">> :> <<"l1">> @@ <<"e">> :> <<"l2", "l3">> @@ <<"h">> :> Folder

\* With all failures: a file and an empty directory on the server.
MCRemoteSmall == <<"f">> :> <<"r1">> @@ <<"d">> :> Folder
MCLocalSmall  == <<"f">> :> <<"l1">> @@ <<"e">> :> <<"l2", "l3">>

\* What the server may refuse, and the local disk when it is asked first.
Refusals  == {"viewOnly", "srvOpen", "srvRead", "srvDelete", "open", "delete"}
AllEvents == Refusals \union {"srvWrite", "write", "read", "readDir", "close", "cancel"}
=============================================================================
