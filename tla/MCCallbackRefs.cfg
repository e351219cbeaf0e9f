CONSTANTS
    f = f g = g o = o h1 = h1 h2 = h2 c1 = c1 c2 = c2
    s1 = s1 s2 = s2 k1 = k1 k2 = k2 a1 = a1
    Plain = Plain None = None
    Objects <- MCObjects
    Functions = {f, g}
    Things = {o}
    Handles = {h1, h2}
    Property <- MCProperty
    Results <- MCResults
    Arguments = {a1}
    Cursors = {c1, c2}
    Stubs = {s1, s2}
    Calls = {k1, k2}
    PeerReleases = TRUE
    MaxIds = 6
SPECIFICATION FairSpec
INVARIANTS TablesAgree CallbacksSound CallsReachTheirCallback MissedOnlyWhenReleased ArgumentsExact
PROPERTIES IdsNeverRebound KeepsLedger CallsSettle
CHECK_DEADLOCK FALSE
