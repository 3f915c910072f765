--------------------------- MODULE MCServerClients ---------------------------
(* ServerClients for TLC: configurations for the sharing modes of config.h. *)
EXTENDS ServerClients

Item(enable, allow, low, high) ==
  [fEnable |-> enable, fAllow |-> allow, stInAddr1 |-> low, stInAddr2 |-> high]

Mode(never, always, dont, proxy, acl, program) ==
  [neverShared |-> never, alwaysShared |-> always, dontDisconnect |-> dont,
   httpEnableProxyConnect |-> proxy, acl |-> acl, onLogon |-> program]

\* Address 0 is allowed, 1 is not; a disabled entry in front says otherwise.
SomeACL == <<Item(FALSE, TRUE, 0, 1), Item(TRUE, TRUE, 0, 0), Item(TRUE, FALSE, 0, 2)>>

Modes == {Mode(TRUE, FALSE, FALSE, TRUE, <<>>, TRUE),
          Mode(FALSE, FALSE, TRUE, FALSE, SomeACL, FALSE)}
=============================================================================
