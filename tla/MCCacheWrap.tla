---------------------------- MODULE MCCacheWrap -----------------------------
EXTENDS CacheWrap, TLC

Symmetric == Permutations(Callers)

OnlySlow == {"slow"}

EveryFault == {"slow", "redis", "resolver", "crash", "invalidate"}
=============================================================================
