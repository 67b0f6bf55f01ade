---- MODULE Vocabulary ----
(***************************************************************************)
(* The closed set of mechanisms (src/mechanism.rs): their tags, the names  *)
(* they are registered under, and the tag of a Sasl value, which a SCRAM   *)
(* profile or GS2-KRB5 has two of.  Here a Sasl value is a record of the   *)
(* variant and its credentials.                                            *)
(***************************************************************************)
EXTENDS Gs2

\* SaslMechanism::as_str
as_str == [Anonymous     |-> "ANONYMOUS",     CramMd5         |-> "CRAM-MD5",
           External      |-> "EXTERNAL",      Gssapi          |-> "GSSAPI",
           Gs2Krb5       |-> "GS2-KRB5",      Gs2Krb5Plus     |-> "GS2-KRB5-PLUS",
           Login         |-> "LOGIN",         Plain           |-> "PLAIN",
           OAuthBearer   |-> "OAUTHBEARER",   XOAuth2         |-> "XOAUTH2",
           ScramSha1     |-> "SCRAM-SHA-1",   ScramSha1Plus   |-> "SCRAM-SHA-1-PLUS",
           ScramSha256   |-> "SCRAM-SHA-256", ScramSha256Plus |-> "SCRAM-SHA-256-PLUS",
           ScramSha512   |-> "SCRAM-SHA-512", ScramSha512Plus |-> "SCRAM-SHA-512-PLUS"]

\* Complete whatever the build: every name a server may advertise has its tag.
SaslMechanism == DOMAIN as_str

\* SaslScramDigest: the two tags of each SCRAM profile.
ScramSha1 == [MECHANISM |-> "ScramSha1", MECHANISM_PLUS |-> "ScramSha1Plus"]
ScramSha256 == [MECHANISM |-> "ScramSha256", MECHANISM_PLUS |-> "ScramSha256Plus"]
ScramSha512 == [MECHANISM |-> "ScramSha512", MECHANISM_PLUS |-> "ScramSha512Plus"]

Profiles == [ScramSha1 |-> ScramSha1, ScramSha256 |-> ScramSha256, ScramSha512 |-> ScramSha512]

From(variant, creds) == [variant |-> variant, creds |-> creds]

\* The tags the arms of Sasl::mechanism name, where they are not the variant's own.
PlusTag == [Gs2Krb5     |-> "Gs2Krb5Plus",     ScramSha1   |-> "ScramSha1Plus",
            ScramSha256 |-> "ScramSha256Plus", ScramSha512 |-> "ScramSha512Plus"]
Spelled == [Oauthbearer |-> "OAuthBearer", Xoauth2 |-> "XOAuth2"]

unguarded_mechanism(sasl) ==                     \* mutated: the arms with a guard are gone
    IF sasl.variant \in DOMAIN Spelled THEN Spelled[sasl.variant] ELSE sasl.variant

\* Sasl::mechanism
mechanism(sasl) ==
    CASE sasl.variant \in DOMAIN PlusTag /\ IsBound(sasl.creds.binding) -> PlusTag[sasl.variant]
      [] sasl.variant \in DOMAIN Spelled -> Spelled[sasl.variant]
      [] OTHER -> sasl.variant
====
