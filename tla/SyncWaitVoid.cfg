SPECIFICATION Spec
CONSTANTS
    m1 = m1
    m2 = m2
    a = a
    k = k
    d = d
    e = e
    Coros <- MCCoros
    Body <- MCBody
    Roots <- MCRoots
    Mains = {m1, m2}
    Workers = {w1, w2}
    Names = {x, y}
    Pool = Pool
    None = None
    MayThrow = {e, k}
    Catches = {}
    Void = {d}
PROPERTIES
    ExceptionReachesCaller
