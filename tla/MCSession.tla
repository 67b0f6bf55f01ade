---- MODULE MCSession ----
(***************************************************************************)
(* One or two Sasl values per mechanism, of which the server stores some:  *)
(* a wrong password, a wrong token, an identity to act as that is granted, *)
(* one that is not, none, and an empty one, texts that carry the separator *)
(* of the message they go into, and one that preparation refuses.          *)
(***************************************************************************)
EXTENDS Session

MCPrep(s) == IF \E i \in DOMAIN s : s[i] = "NUL" THEN Prohibited
             ELSE [i \in DOMAIN s |-> IF s[i] = "nbsp" THEN " " ELSE s[i]]

Of(variant, from) == {From(variant, c) : c \in from}

MCUsernames == {<<"user">>, <<"user", "SOH", "auth=Bearer ", "tok">>}

MCSasls ==
    Of("Plain", [authzid : {NoAuthzid, <<>>, <<"user">>, <<"shared", "nbsp">>, <<"root">>},
                 authcid : {<<"user">>}, passwd : {<<"p", "nbsp">>, <<"q">>, <<"p", "NUL">>}])
      \cup Of("Login", [username : {<<"user">>}, password : {<<"p", " ">>, <<"q">>}])
      \cup Of("External", [authzid : {NoAuthzid, <<"shared", " ">>, <<"root">>}])
      \cup Of("Anonymous", [message : {NoMessage, <<"trace">>}])
      \cup Of("CramMd5", [username : {<<"user">>}, secret : {<<"p", " ">>, <<"q">>}])
      \cup Of("Xoauth2", [username : MCUsernames, token : {<<"tok">>, <<"old">>}])
      \cup Of("Oauthbearer", [username : MCUsernames, host : {<<"host">>}, port : {"143"},
                              token : {<<"tok">>, <<"old">>}])

MCAccounts == [username : {<<"user">>}, password : {<<"p", " ">>}, token : {<<"tok">>},
               names : {{<<"user">>, <<"shared", " ">>}}, anonymous : BOOLEAN]

MCNonces == {<<"n1">>, <<"n2">>}
MCErrorJson == <<"json", "0xff">>
MCInputs == MCNonces \cup {<<>>, <<"Password:">>, MCErrorJson}
====
