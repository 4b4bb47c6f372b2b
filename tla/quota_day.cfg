CONSTANTS
    Requests = {r1, r2, r3}
    Browsers = {b1, b2}
    Ips = {i1, i2}
    Uuids = {u1, u2, u3}
    ai_daily_limit = 2
    ai_global_daily_limit = 3
    SecretConfigured = FALSE
    MidnightRace = FALSE
    MaxDay = 1
    MaxRestarts = 1
    None = None
SYMMETRY Symmetry
SPECIFICATION Spec
INVARIANTS QuotaTypeOK DailyLimits RemainingCountsDown RetryRecovers
