----------------------------- MODULE MCCacheSet -----------------------------
(* A set of three lines and four tags, one of them the cold tag. *)
EXTENDS CacheSet, TLC
CONSTANTS t0, t1, t2, t3
FourTags == {t0, t1, t2, t3}
WarmTags == Permutations({t1, t2, t3})
=============================================================================
