SPECIFICATION Spec
CONSTANTS
    a1 = a1
    a2 = a2
    t1 = t1
    t2 = t2
    t3 = t3
    k1 = k1
    k2 = k2
    Absent = Absent
    Activities = {a1, a2}
    Endpoints <- MCEndpoints
    Tenants = {t1, t2, t3}
    Members = {k1, k2}
    ForeignTraces <- MCForeign
    Strangers <- MCStrangers
    Seeds <- MCSeeds
    Verdicts = {t3}
    Additions = {k1}
    MaxTraces = 2
    MaxMessages = 3
SYMMETRY Symmetric
INVARIANT ConsumerJoinsProducer
