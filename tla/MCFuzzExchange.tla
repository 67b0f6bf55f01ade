---- MODULE MCFuzzExchange ----
(***************************************************************************)
(* A script with plain credentials, one with credentials made of the       *)
(* separators of the messages they go into, and one that the preparation   *)
(* refuses.                                                                *)
(***************************************************************************)
EXTENDS FuzzExchange

MCKinds == {"TlsExporter"}
MCMaterials == {<<>>, <<"ekm">>}

MCPrep(s) == IF \E i \in DOMAIN s : s[i] \in {"NUL", "ctl"} THEN Prohibited ELSE s

Scripted(name, secret, binding) ==
    [username |-> name, password |-> secret, token |-> secret, host |-> <<"host">>,
     port |-> "143", binding |-> binding]

MCExchanges == {Scripted(<<"user">>, <<"pw">>, <<"ekm">>),
                Scripted(<<",", "=">>, <<"SOH", ",">>, <<>>),
                Scripted(<<"ctl">>, <<"NUL">>, <<"ekm">>)}

MCSasls == UNION {Built(e) : e \in MCExchanges}

MCInputs == {<<>>, <<"t1">>, <<"t2", "0xff">>}
====
