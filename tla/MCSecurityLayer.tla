---- MODULE MCSecurityLayer ----
(***************************************************************************)
(* Octets of four bits: every mask, with bits no layer is defined for,     *)
(* sizes at both ends of each octet, offers too short and too long.        *)
(***************************************************************************)
EXTENDS SecurityLayer

MCSizes == {0, 1, 15, 16, 255, 256, 4094, 4095, 4096, 4112, 65535}

MCOffers == {<<>>, <<1>>, <<7, 15, 15>>}
              \cup {<<mask, high, 15, low>> : mask \in Octet, high \in {0, 15}, low \in {0, 1}}
              \cup {<<mask, 1, 0, 0, 9>> : mask \in Octet}

MCAuthzids == {<<>>, <<1, 0>>}
====
