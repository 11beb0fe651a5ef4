---------------------------- MODULE Registration ----------------------------
(***************************************************************************)
(* How DeviceClient resolves the credential a registration is configured   *)
(* with, in each SDK s, and what the server makes of the request.          *)
(*                                                                         *)
(* A credential has an id and a secret, and may be given by its parts, by  *)
(* a registration token that holds both, or by both at once.  The server   *)
(* finds the credential a request names and checks the signature with its  *)
(* secret.                                                                 *)
(***************************************************************************)
EXTENDS Metadata

CONSTANTS
    Ids,        \* ids of distribution credentials; Unset is an absent or blank one
    Secrets,    \* secrets, those of the credentials included
    Secret      \* the secret of each credential, as the server knows it

ASSUME SecretAssumption == Secret \in [Ids -> Secrets] /\ Unset \notin Ids \cup Secrets

Whole == [id : Ids, secret : Secrets]                   \* what a token holds
NoToken == [id |-> Unset, secret |-> Unset]

\* DeviceRegistrationInput, and what the server will answer with: "partial"
\* credentials miss a part.
Registrations ==
    {i \in [id : Ids \cup {Unset}, secret : Secrets \cup {Unset},
            token : Whole \cup {NoToken}, text : {"absent", "blank", "malformed", "token"},
            named : BOOLEAN, collected : BOOLEAN, reply : {"new", "partial"}] :
        i.text = "token" <=> i.token # NoToken}

\* Faulty: umbra-go parses a token that was not given.
TokenRequired(s, i) == s = "go" => i.text = "token"

\* Whether the token, where the SDK looks at it, parses.  umbra-typescript does
\* not take a blank token for an absent one.
TokenParses(s, i) ==
    \/ i.text \in {"absent", "token"}
    \/ i.text = "blank" /\ s # "ts"

\* An id given next to a token must be the token's.
IdAgrees(i) == i.token # NoToken /\ i.id # Unset => i.id = i.token.id

NamedId(i) == IF i.id # Unset THEN i.id ELSE i.token.id

\* The token's secret goes first in umbra-go, the explicit one in the others.
SigningSecret(s, i) ==
    LET order == IF s = "go" THEN <<i.token.secret, i.secret>> ELSE <<i.secret, i.token.secret>>
    IN  IF order[1] # Unset THEN order[1] ELSE order[2]

Resolves(s, i) == /\ TokenParses(s, i) /\ NamedId(i) # Unset /\ IdAgrees(i)
                  /\ SigningSecret(s, i) # Unset

\* Device metadata an application wrote itself is refused; umbra-go also wants a
\* device name.
DeviceAccepted(s, i) == i.collected /\ (s = "go" => i.named)

\* The request names the credential as the configuration does; what is blank in
\* it counts as absent.
RegistrationRequest(s, i) ==
    IF Resolves(s, i) /\ DeviceAccepted(s, i)
    THEN [id |-> i.id, token |-> i.token, signed |-> SigningSecret(s, i)]
    ELSE Refused

\* The server's check: one credential is named, its secret made the signature,
\* and a token, when there is one, is genuine.
Verifies(r) ==
    LET id == IF r.id # Unset THEN r.id ELSE r.token.id
    IN  /\ id \in Ids
        /\ r.token # NoToken => r.token = [id |-> id, secret |-> Secret[id]]
        /\ r.signed = Secret[id]

\* A registration the SDKs do not differ on by design: a usable device name, no
\* blank token, and no secret contradicting the token's.
PlainRegistration(i) ==
    /\ i.named
    /\ i.text # "blank"
    /\ i.token # NoToken /\ i.secret # Unset => i.secret = i.token.secret

\* A registration that names a credential the server knows, with its secret.
Genuine(i) ==
    /\ i.collected /\ i.text # "malformed"
    /\ NamedId(i) # Unset /\ IdAgrees(i)
    /\ Secret[NamedId(i)] \in {i.secret, i.token.secret}
    /\ {i.secret, i.token.secret} \subseteq {Secret[NamedId(i)], Unset}
=============================================================================
