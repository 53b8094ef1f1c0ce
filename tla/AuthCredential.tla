--------------------------- MODULE AuthCredential ---------------------------
(***************************************************************************)
(* Auth implements Credential. A token is live while it has a row, dead    *)
(* once it has neither a row nor a cache entry nor a fill on its way, and  *)
(* lingers in between. A request past its middleware is a session.         *)
(***************************************************************************)
EXTENDS Auth

CredStatus(t) ==
    CASE grant[t] = NoGrant -> "none"
      [] t \in rows         -> "live"
      [] Refused(t)         -> "dead"
      [] OTHER              -> "lingering"

CredSession(r) == IF pc[r] \in InHandler THEN tok[r] ELSE NoToken

Cred == INSTANCE Credential WITH
            Session <- Req,
            status  <- [t \in Token |-> CredStatus(t)],
            owner   <- grant,
            session <- [r \in Req |-> CredSession(r)]

(* The table, the cache and the requests in flight together behave like a  *)
(* credential: in particular no interleaving, lost Del or crash makes the  *)
(* server accept a token that it had begun to refuse (handlers.go 422-494, *)
(* 841-886, 1050-1081, mcp.go 57-94).                                      *)
ImplementsCredential == Cred!Spec

(* A revoked token is sooner or later refused for good: the entries that a *)
(* rotation, a deletion or a late fill left behind run out (authCacheTTL,  *)
(* handlers.go 411), and nothing puts them back.                           *)
LingeringEnds == Cred!Lapses
=============================================================================
