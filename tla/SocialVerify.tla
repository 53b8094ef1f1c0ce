---------------------------- MODULE SocialVerify ----------------------------
(***************************************************************************)
(* The verification of an identity token of Apple or Google: the loops     *)
(* over the audiences the server is configured with and the issuers of     *)
(* the provider. jwt.Parse and the key sets are external.                  *)
(***************************************************************************)
EXTENDS Sequences, SequencesExt

CONSTANTS
    Client,    \* client ids, the audiences of tokens
    NoClient   \* the empty string

ASSUME NoClientAssumption == NoClient \notin Client

Provider == {"apple", "google"}

Issuers == [apple |-> <<"https://appleid.apple.com">>,
            google |-> <<"https://accounts.google.com", "accounts.google.com">>]
Methods == [apple |-> {"RS256", "ES256"}, google |-> {"RS256"}]

(* What a token claims, whose key signed it, and whether it has expired. *)
IdToken == [signer : Provider \cup {"other"}, alg : {"RS256", "ES256"},
            iss : UNION {ToSet(Issuers[p]) : p \in Provider},
            aud : Client, expired : BOOLEAN, sub : BOOLEAN]

(* jwt.Parse with the keys of p, WithIssuer, WithAudience, WithValidMethods *)
Parses(p, tok, aud, iss) ==
    /\ tok.signer = p
    /\ tok.alg \in Methods[p]
    /\ ~tok.expired
    /\ tok.aud = aud
    /\ tok.iss = iss

(* token and parseErr: "none" is nil and nil, the state before the loops;  *)
(* "invalid" an error, "valid" a token, which ends both loops. after[i] is *)
(* the state after i rounds.                                               *)
TryIssuers(st, p, tok, aud) ==
    LET after[i \in 0..Len(Issuers[p])] ==
            IF i = 0 THEN st
            ELSE IF after[i - 1] = "valid" \/ Parses(p, tok, aud, Issuers[p][i])
                 THEN "valid" ELSE "invalid"
    IN  after[Len(Issuers[p])]

(* Mutant: the loop is left after the first audience. *)
MutTryAudiences(p, tok, audiences) ==
    IF audiences = <<>> \/ Head(audiences) = NoClient THEN "none"
    ELSE TryIssuers("none", p, tok, Head(audiences))

TryAudiences(p, tok, audiences) ==
    LET after[i \in 0..Len(audiences)] ==
            IF i = 0 THEN "none"
            ELSE IF after[i - 1] = "valid" \/ audiences[i] = NoClient
                 THEN after[i - 1] ELSE TryIssuers(after[i - 1], p, tok, audiences[i])
    IN  after[Len(audiences)]

(* verify: without keys an error; with a nil token and a nil error,        *)
(* token.Claims is a nil dereference, which net/http recovers from by      *)
(* closing the connection.                                                 *)
Verify(p, tok, audiences, keys) ==
    LET st == TryAudiences(p, tok, audiences)
    IN  IF ~keys \/ st = "invalid" THEN "error"
        ELSE IF st = "none" THEN "panic"
        ELSE IF tok.sub THEN "identity" ELSE "error"

(* What the callers may rely on: tokens the provider issued to one of the  *)
(* configured clients, and no others, identify somebody.                   *)
Genuine(p, tok, audiences) ==
    /\ tok.signer = p
    /\ tok.alg \in Methods[p]
    /\ tok.iss \in ToSet(Issuers[p])
    /\ tok.aud \in ToSet(audiences)
    /\ ~tok.expired
    /\ tok.sub
=============================================================================
