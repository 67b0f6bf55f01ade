---- MODULE MCMechanisms ----
(***************************************************************************)
(* One or more Sasl values per mechanism: with and without each optional   *)
(* field, texts that the preparation changes or refuses, identities made   *)
(* of the separators of the message they go into, a token that begins with *)
(* the separator of the header before it.                                  *)
(***************************************************************************)
EXTENDS Mechanisms

MCKinds == {"TlsExporter"}
MCMaterials == {<<"ekm">>}

MCPrep(s) == IF \E i \in DOMAIN s : s[i] \in {"NUL", "ctl"} THEN Prohibited
             ELSE [i \in DOMAIN s |-> IF s[i] = "nbsp" THEN " " ELSE s[i]]

MCNames == {NoAuthzid, <<>>, <<"a">>, <<",">>, <<"=">>, <<"=", "2", "C">>, <<"a", "=">>, <<"a", ",", "b">>}

Of(variant, from) == {From(variant, c) : c \in from}

MCSasls ==
    Of("Plain", [authzid : {NoAuthzid, <<"a">>, <<"NUL">>}, authcid : {<<>>, <<"nbsp">>},
                 passwd : {<<"pw">>, <<"NUL", "pw">>, <<"ctl">>}])
      \cup Of("Login", [username : {<<"user">>}, password : {<<"pw">>}])
      \cup Of("External", [authzid : {NoAuthzid, <<"a">>}])
      \cup Of("Anonymous", [message : {NoMessage, <<"trace">>}])
      \cup Of("CramMd5", [username : {<<"a", " ">>}, secret : {<<"pw">>}])
      \cup Of("Xoauth2", [username : {<<"user">>}, token : {<<"tok">>, <<>>}])
      \cup Of("Oauthbearer", [username : {<<"user">>, <<"a", ",">>}, host : {<<"host">>},
                              port : {"143"}, token : {<<"tok">>}])
      \cup Of("Gssapi", [token : {<<"t0">>, <<>>}])
      \cup Of("Gs2Krb5", [token : {<<",", "t0">>}, authzid : MCNames, binding : Bindings])

MCInputs == {<<>>, <<"t1">>, <<"t2", "0xff">>}
====
