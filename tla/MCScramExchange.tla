---- MODULE MCScramExchange ----
(***************************************************************************)
(* One user whose name and password both change when prepared, the three   *)
(* channel binding cases, two nonces of which one is a prefix of the       *)
(* other's server nonce, a server with the client's password or another.   *)
(***************************************************************************)
EXTENDS ScramExchange

MCKinds == {"TlsExporter"}
MCMaterials == {<<"ekm">>, <<"other">>}

MCPrep(s) == CASE s = <<"nbsp", ",">> -> <<" ", ",">>
               [] s = <<"pa", "nbsp">> -> <<"pa", " ">>
               [] OTHER -> Prohibited

MCCreds == [username : {<<"nbsp", ",">>}, password : {<<"pa", "nbsp">>},
            nonce : {<<"c">>, <<"c", "s">>},
            binding : {Unsupported, Unused, Bound("TlsExporter", <<"ekm">>)}]

MCStored == {<<"pa", " ">>, <<"other">>}
====
