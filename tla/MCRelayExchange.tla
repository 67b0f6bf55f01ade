---- MODULE MCRelayExchange ----
(***************************************************************************)
(* Two contexts, taking one token of each side or two; for GS2-KRB5 each   *)
(* channel binding and identities of which the server grants some, one of  *)
(* them with the header's separators; for GSSAPI offers that can and       *)
(* cannot be answered, in octets of three bits, and sizes at both ends.    *)
(***************************************************************************)
EXTENDS RelayExchange

MCKinds == {"TlsExporter"}
MCMaterials == {<<"ekm">>, <<"other">>}

Built(variant, kept) ==
    {[variant |-> variant,
      creds |-> [c EXCEPT !.token = Token("c", 1, <<id>> \o Channel(From(variant, c)))]] :
        id \in {"k1", "k2"}, c \in kept}

MCSasls ==
    Built("Gssapi", [token : {<<>>}])
      \cup Built("Gs2Krb5", [token : {<<>>}, authzid : {NoAuthzid, <<"a", ",">>, <<"root">>},
                             binding : {Unsupported, Unused, Bound("TlsExporter", <<"ekm">>)}])

MCOffers == {<<1>>, <<0, 1, 1, 1>>, <<1, 0, 0, 0>>, <<7, 1, 0, 0>>}
MCSizes == {0, 511, 512}
MCAuthzids == {<<>>, <<1, 0>>}

MCGrantedNames == {<<"a", ",">>}
MCGrantedOctets == {<<>>, <<1, 0>>}

MCPrep(s) == s
====
