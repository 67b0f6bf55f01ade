---- MODULE MCScram ----
(***************************************************************************)
(* A small instance of Scram: a user whose name needs escaping and         *)
(* preparing, credentials that cannot be prepared, a nonce with a byte     *)
(* that is not UTF-8 and an empty one, the three channel binding cases;    *)
(* server messages that are well formed, of another exchange, incomplete,  *)
(* repeated or undecodable, and every signature that a server storing the  *)
(* right or another password could compute over them.                      *)
(***************************************************************************)
EXTENDS Scram

MCKinds == {"TlsExporter"}
MCMaterials == {<<"ekm">>}

MCPrep(s) == CASE s = <<"nbsp", ",">>      -> <<" ", ",">>
               [] s \in {<<"ctl">>, <<"del">>} -> Prohibited
               [] OTHER                    -> s

MCCreds ==
    [username : {<<"nbsp", ",">>}, password : {<<"pass">>}, nonce : {<<"c">>}, binding : Bindings]
      \cup [username : {<<"nbsp", ",">>, <<"ctl">>}, password : {<<"pass">>, <<"del">>},
            nonce : {<<"c", "0xff">>}, binding : {Unsupported}]
      \cup [username : {<<"user">>}, password : {<<"pass">>},
            nonce : {<<>>}, binding : {Unused}]

Challenge(r, s, i) == << <<"r", r>>, <<"s", s>>, <<"i", i>> >>
Good == Challenge(<<"c", "s">>, "salt", 1)

ServerFirsts ==
    {Good, Challenge(<<"c", "s">>, "salt", 0), Challenge(<<"c", "U+FFFD">>, "salt", 1),
     Challenge(<<"d", "s">>, "salt", 1), Challenge(<<"c", "s">>, Garbage, 1),
     Challenge(<<"c", "s">>, "salt", Garbage), Challenge(<<"c", "s">>, "salt", U32Max + 1),
     Tail(Good), SubSeq(Good, 1, 2), << Good[1], Good[3] >>,
     << <<"i", Garbage>>, <<"s", Garbage>> >>,
     << <<"x", "m">> >> \o Good,
     Good \o << <<"i", 2>> >>, Good \o << <<"i", U32Max + 2>> >>,
     << <<"r", <<"d", "s">>>> >> \o Good,
     Good \o << <<"r", <<"d", "s">>>> >>}

Prepared == {c \in MCCreds : Prohibited \notin {MCPrep(c.username), MCPrep(c.password)}}
Wellformed == {m \in ServerFirsts : \E c \in Prepared : ServerFirstFault(m, c) = NoFault}

Signatures ==
    {ServerSignature(SaltedPassword(secret, m),
                     AuthMessage(ClientFirstBare(MCPrep(c.username), ClientNonce(c)), m,
                                 WithoutProof(m, c))) :
        secret \in {<<"pass">>, <<"other">>}, m \in Wellformed, c \in Prepared}

MCMessages ==
    ServerFirsts
      \cup {NotUtf8, <<>>, << <<"e", "other-error">> >>}
      \cup {ServerFinal(s) : s \in Signatures \cup {Garbage, NoBytes}}
      \cup {ServerFinal(Reference(c, Good)) \o << <<"x", "ext">> >> : c \in Prepared}
====
