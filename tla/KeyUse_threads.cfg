SPECIFICATION Spec
CONSTANTS
  Threads = {t1, t2}
  Slots = {s1, s2}
  AesKeys = {a1}
  RsaKeys = {r1, r2}
  IVs = {i0, i1, i2}
  ZeroIV = i0
  GCM_MAX = 2
  MAX_TRACKED_KEYS = 1
  MAX_TRACKED_IVS = 1
  RSA_KEY_CACHE_MAX = 2
  MaxHandles = 2
  MaxPrefixes = 2
SYMMETRY Symmetry
INVARIANTS NoReuse CacheSound
