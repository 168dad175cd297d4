------------------------------ MODULE MCCacheQuota ------------------------------
(* Small instances of CacheQuota for TLC: the users' downloads alternate, and the
   last one is larger than the others. *)
EXTENDS CacheQuota

CONSTANTS ana, ben

MCOwner == [d \in Downloads |-> IF d % 2 = 1 THEN ana ELSE ben]
MCSize == [d \in Downloads |-> IF d = 3 THEN 2 ELSE 1]
MCUserQuota == [u \in Users |-> IF u = ana THEN 1 ELSE NoQuota]
=============================================================================
