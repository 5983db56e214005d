SPECIFICATION Spec
CONSTANTS
    r1 = r1
    r2 = r2
    r3 = r3
    room = room
    a = a
    b = b
    u1 = u1
    u2 = u2
    Request = {r1, r2, r3}
    Room = {room}
    Court = {a, b}
    Wish <- WishOf
    MaxActive = 1
    Buffer = 5
PROPERTY FiveMinutesSuffice
\* Every request is handled once.
CHECK_DEADLOCK FALSE
