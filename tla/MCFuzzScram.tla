---- MODULE MCFuzzScram ----
(***************************************************************************)
(* A user whose name changes when it is prepared and one that cannot be,   *)
(* nonces with a comma, with an octet that is not UTF-8, and with neither, *)
(* and passwords: those the preparation leaves alone, or one it changes.   *)
(* The raw messages hold every signature over the server's own messages,   *)
(* of the right password and of another.                                   *)
(***************************************************************************)
EXTENDS FuzzScram

MCPrep(s) == CASE s = <<"nbsp", ",">> -> <<" ", ",">>
               [] s = <<"pa", "nbsp">> -> <<"pa", " ">>
               [] s = <<"ctl">> -> Prohibited
               [] OTHER -> s

CredsWith(passwords) ==
    [username : {<<"nbsp", ",">>, <<"ctl">>}, password : passwords,
     nonce : {<<"c">>, <<"c", ",", "d">>, <<"c", "0xff">>}, binding : {Unsupported}]

MCCreds == CredsWith({<<"pass">>, <<>>})
MCTypedCreds == CredsWith({<<"pa", "nbsp">>})

MCExtensions == {<<"s">>, <<>>, <<"s", ",", "m">>}

Firsts == {<< <<"r", n \o <<"s">>>>, <<"s", "salt">>, <<"i", i>> >> :
              n \in {<<"c">>, <<"c", "U+FFFD">>}, i \in {1, 3}}

Signatures ==
    {ServerSignature(SaltedPassword(secret, m),
                     AuthMessage(ClientFirstBare(MCPrep(<<"nbsp", ",">>), ClientNonce(c)), m,
                                 WithoutProof(m, c))) :
        secret \in {<<"pass">>, <<>>}, m \in Firsts,
        c \in {d \in MCCreds : d.username # <<"ctl">>}}

MCRawMessages ==
    Firsts \cup {NotUtf8, <<>>, << <<"e", "other-error">> >>}
      \cup {Append(m, <<"i", i>>) : m \in Firsts, i \in {0, 4, Garbage}}
      \cup {ServerFinal(s) : s \in Signatures \cup {NoBytes}}
====
