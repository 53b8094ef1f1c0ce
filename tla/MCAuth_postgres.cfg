CONSTANTS
    User = {u1, u2}
    Token = {t1, t2}
    Req = {r1, r2}
    Route = {"me", "post_location", "web_code", "delete_account", "mcp", "sign_in", "rotate_pairing", "rotate_api"}
    NoToken = NoToken
    NoGrant = NoGrant
    NoUser = NoUser
    SingleConn = FALSE
    Faulty = TRUE
SPECIFICATION Spec
SYMMETRY Symmetry
INVARIANTS
    TypeOK
    IdentityKept
    ChangesAuthorised
    NoOrphanTokens
PROPERTIES
    ReplacedOrErased
    ImplementsCredential
    ImplementsAccount
