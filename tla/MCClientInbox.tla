--------------------------- MODULE MCClientInbox ----------------------------
(* Small instances of ClientInbox for TLC.                                 *)
EXTENDS ClientInbox

\* One whose highlighting depends on the flag, one that sets it, one that ends
\* the session.
ChatKinds    == {"room", "direct", "terminate"}
MentionKinds == {"room", "direct"}
=============================================================================
