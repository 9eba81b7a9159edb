CONSTANTS
    h1 = h1  r1 = r1  r2 = r2  why1 = why1
    NoReason = NoReason  Absent = Absent  NoHost = NoHost
    Host = {h1}
    Requester = {r1, r2}
    Reason = {why1}
    Bodies <- ActivationBodies
SPECIFICATION Spec
INVARIANT TypeOK DeprecatedIffInactive
