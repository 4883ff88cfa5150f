SPECIFICATION MCSpec
SYMMETRY MCSymmetry
CONSTANTS
    c1 = c1
    c2 = c2
    a1 = a1
    a2 = a2
    b1 = b1
    Conn <- MCConn
    Stream <- MCStream
    Owner <- MCOwner
    Topic = {t1, t2}
    Pos = pos
    Frame = {f1}
    None = None
    RoomCapacity = 2
    Mixed = FALSE
    MultiSub = TRUE
    Malformed = TRUE
INVARIANT DeliveryOpen
INVARIANT MembersBacked
INVARIANT OrderlyConverges
PROPERTY OrderlyReached
