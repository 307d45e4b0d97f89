SPECIFICATION Spec
CONSTANTS
    a1 = a1
    a2 = a2
    Admins = {a1, a2}
    RequireApproval = TRUE
PROPERTIES
    RevokedIsNotPublished
