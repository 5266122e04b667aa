\* Two threads and one reservation.
CONSTANTS
    r1 = r1
    r2 = r2
    t1 = t1
    t2 = t2
    k1 = k1
    k2 = k2
    Readers = {r1, r2}
    Tasks = {t1}
    Reservations = {k1}
    NoRead = NoRead
    NoEntry = NoEntry
    NoValue = NoValue
    TTL = 1
    MaxTime = 2
    MaxVersion = 2
SPECIFICATION Spec
SYMMETRY Symmetry
PROPERTIES
    OnlyExpiredEvicted
