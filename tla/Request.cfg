SPECIFICATION RequestSpec
CONSTANTS
    Nothing = Nothing
    Request = {r1, r2}
    Reloader = {w1, w2}
    Closer = closer
    Filters = 1
    MaxFactories = 3
    HttpReq = {r1, r2}
    Context = {x1, x2}
    Unset = Unset
    get = get
    put = put
    p1 = p1
    p2 = p2
    v1 = v1
    u1 = u1
    u2 = u2
    e1 = e1
    e2 = e2
    e3 = e3
    c1 = c1
    c2 = c2
    c3 = c3
    k1 = k1
    k2 = k2
    k3 = k3
INVARIANTS BestIsFound ApiIsSound FactoriesAreSound AnswersAreSound FailoverIsSound KvCacheIsSound
CHECK_DEADLOCK FALSE
