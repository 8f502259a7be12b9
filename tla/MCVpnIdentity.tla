--------------------------- MODULE MCVpnIdentity ---------------------------
(* Instances of VpnIdentity for TLC. *)
EXTENDS VpnIdentity

CutShort == {"revoke", "purge"}
Lowered == [c \in Client |-> c]
OnePatches == {{w} : w \in Write}
=============================================================================
