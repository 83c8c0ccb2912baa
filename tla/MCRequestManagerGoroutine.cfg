SPECIFICATION Spec
CONSTANTS
    Conns = {c1, c2}
    Addrs = {a1, a2}
    CCUs = {u1, u2}
    MaxResent = 0
    NoReq = NoReq
    NoAddr = NoAddr
INVARIANTS
    SingleGoroutine
