---- MODULE Gs2 ----
(***************************************************************************)
(* The GS2 header and the channel binding that picks it (src/rfc5801.rs),  *)
(* shared by SCRAM, GS2-KRB5 and OAUTHBEARER.  Text is a sequence of       *)
(* tokens; the only ones told apart are the two separators and the letters *)
(* their escapes are written with.                                         *)
(***************************************************************************)
EXTENDS Sequences, SequencesExt

CONSTANTS
    Kinds,       \* the SaslGs2ChannelBindingKind a TLS session may offer
    Materials,   \* what a TLS session may export: sequences of tokens
    NoAuthzid    \* Option::None of an authorization identity

\* SaslGs2ChannelBindingKind::as_str, one token each
KindName == [TlsExporter       |-> "tls-exporter",
             TlsUnique         |-> "tls-unique",
             TlsServerEndPoint |-> "tls-server-end-point"]

ASSUME KindsAssumption == Kinds \subseteq DOMAIN KindName

\* SaslGs2ChannelBinding
Unsupported == [flag |-> "n"]
Unused == [flag |-> "y"]
Bound(kind, data) == [flag |-> "p", kind |-> kind, data |-> data]

Bindings == {Unsupported, Unused} \cup {Bound(k, d) : k \in Kinds, d \in Materials}

IsBound(binding) == binding.flag = "p"

CommaEscapeToken(c) == IF c = "," THEN <<"=", "2", "C">> ELSE <<c>>   \* mutated: = as it is

EscapeToken(c) == CASE c = "=" -> <<"=", "3", "D">>
                    [] c = "," -> <<"=", "2", "C">>
                    [] OTHER   -> <<c>>

Escape(name) == FlattenSeq([i \in DOMAIN name |-> EscapeToken(name[i])])

UnusedAsUnsupportedFlag(binding) ==              \* mutated: y, could bind, is written n
    IF IsBound(binding) THEN <<"p", "=", KindName[binding.kind]>> ELSE <<"n">>

Flag(binding) ==
    IF IsBound(binding) THEN <<"p", "=", KindName[binding.kind]>> ELSE <<binding.flag>>

\* The flag, then the escaped authorization identity, both comma-terminated.
Header(binding, authzid) ==
    Flag(binding) \o <<",">>
      \o (IF authzid = NoAuthzid THEN <<>> ELSE <<"a", "=">> \o Escape(authzid))
      \o <<",">>

\* The header again, followed by the binding material when there is any.
CbindInput(binding, authzid) ==
    Header(binding, authzid) \o (IF IsBound(binding) THEN binding.data ELSE <<>>)
====
