CONSTANTS
    User = {u1}
    Token = {t1, t2, t3}
    Req = {r1, r2}
    Route = {"me", "delete_account", "mcp", "sign_in", "rotate_api"}
    NoToken = NoToken
    NoGrant = NoGrant
    SingleConn = FALSE
    Faulty = FALSE
SPECIFICATION Spec
SYMMETRY Symmetry
INVARIANT RotationIsImmediate
