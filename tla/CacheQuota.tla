------------------------------- MODULE CacheQuota -------------------------------
(***************************************************************************)
(* Eviction from the cache (services/library.service.ts): the quota pass   *)
(* and the total-cap pass every completed download starts side by side,    *)
(* the hourly app-wide pass, the disk-space pass of a download about to    *)
(* start, and "clear cache".  Each tallies the cache, lists its rows, then *)
(* unlinks a file and deletes its row, with an await between any two, and  *)
(* none of them waits for another, for a promotion or for a deletion.      *)
(***************************************************************************)
EXTENDS Integers, FiniteSets, FiniteSetsExt

CONSTANTS
  Downloads,     \* numbers: the order in which they complete (completedAt)
  Users, NoUser,
  Owner,         \* [Downloads -> Users \cup {NoUser}]
  Size,          \* [Downloads -> Nat]
  UserQuota,     \* [Users -> Nat \cup {NoQuota}]: User.cacheQuotaBytes
  NoQuota,       \* null: the user has no quota of its own
  DefaultQuota,  \* Settings.cacheQuotaBytes
  TotalCap,      \* Settings.totalCacheQuotaBytes
  Disk,          \* capacity of the volume downloads and library share
  Required,      \* free space a download needs to start
  Kinds,         \* bound: which passes take part,
  MaxPasses,     \* and how many may run when more begin
  MaxMishaps     \* bound: promotions, deletions and restarts

ASSUME DownloadsAssumption == Downloads \subseteq Nat \ {0} /\ IsFiniteSet(Downloads)
ASSUME OwnerAssumption == NoUser \notin Users /\ Owner \in [Downloads -> Users \cup {NoUser}]
ASSUME SizeAssumption == Size \in [Downloads -> Nat]
ASSUME QuotaAssumption ==
  /\ NoQuota \notin Nat /\ UserQuota \in [Users -> Nat \cup {NoQuota}]
  /\ DefaultQuota \in Nat /\ TotalCap \in Nat /\ Disk \in Nat /\ Required \in Nat
ASSUME KindsAssumption == Kinds \subseteq {"user", "total", "job", "disk", "clear"}
ASSUME BoundAssumption == MaxPasses \in Nat /\ MaxMishaps \in Nat

VARIABLES
  row,        \* "none" (not completed), the storage pool, or "gone"
  cached,     \* downloads whose file is in the download directory
  stored,     \* downloads with a file in the library
  moving,     \* downloads whose promotion has still to unlink the source
  deleting,   \* downloads whose file a user's deletion removed already
  pass,       \* the passes: stage, tally, candidates left, the one in hand
  disturbed,  \* since the last completion the process restarted, or a row went
              \* that no pass deleted
  restarted,  \* the process restarted at least once
  mishaps     \* promotions, deletions and restarts so far

vars == <<row, cached, stored, moving, deleting, pass, disturbed, restarted, mishaps>>

Completion == {"user", "total"}
Passes == (Completion \X Downloads) \cup ({"job", "disk", "clear"} \X {0})
Stages == {"idle", "sum", "list", "next", "row"}

NoPass == [stage |-> "idle", used |-> 0, left |-> {}, at |-> 0]
Begun == [NoPass EXCEPT !.stage = "sum"]

Init ==
  /\ row = [d \in Downloads |-> "none"]
  /\ cached = {} /\ stored = {} /\ deleting = {}
  /\ moving = {}
  /\ pass = [p \in Passes |-> NoPass]
  /\ disturbed = FALSE /\ restarted = FALSE /\ mishaps = 0

-----------------------------------------------------------------------------
Bytes(S) == MapThenSumSet(LAMBDA d : Size[d], S)
Free == Disk - Bytes(cached) - Bytes(stored)

OwnedBy(u) == {d \in Downloads : Owner[d] = u}
CacheRows(S) == {d \in S : row[d] = "cache"}
Used(S) == Bytes(CacheRows(S))

EffectiveCacheQuota(u) == IF UserQuota[u] = NoQuota THEN DefaultQuota ELSE UserQuota[u]

(* The rows a pass may evict and the bytes it may leave.  A quota pass without
   a user (the hourly one, and that of a download nobody owns) is app-wide. *)
PassUser(p) == IF p[1] = "user" THEN Owner[p[2]] ELSE NoUser

(* Mutant: the total pass evicts what its download's owner has. *)
OwnersRows(p) == IF p[1] \in Completion THEN OwnedBy(Owner[p[2]]) ELSE Downloads

Scope(p) == IF PassUser(p) = NoUser THEN Downloads ELSE OwnedBy(PassUser(p))

Quota(p) ==
  IF p[1] = "total" THEN TotalCap
  ELSE IF PassUser(p) = NoUser THEN DefaultQuota ELSE EffectiveCacheQuota(PassUser(p))

-----------------------------------------------------------------------------
Running == {p \in Passes : pass[p] # NoPass}
Mishap == mishaps < MaxMishaps /\ mishaps' = mishaps + 1
Room == Cardinality(Running) < MaxPasses

(* A download kept in the cache completes; both passes start and are not
   awaited.  (One for the library was promoted just before: no pass counts it,
   and those it starts are like the hourly one's.) *)
Complete(d) ==
  /\ row[d] = "none" /\ \A e \in Downloads : e < d => row[e] # "none"
  /\ Room
  /\ row' = [row EXCEPT ![d] = "cache"] /\ cached' = cached \cup {d}
  /\ pass' = [p \in Passes |-> IF p[1] \in Completion \cap Kinds /\ p[2] = d
                               THEN Begun ELSE pass[p]]
  /\ disturbed' = FALSE
  /\ UNCHANGED <<stored, moving, deleting, restarted, mishaps>>

(* promoteToLibrary, for a request or a user, once the copy is in place
   (Library has what precedes).  Mutant: the source goes before the row. *)
SourceGoesFirst(d) ==
  \/ /\ row[d] = "cache" /\ d \in cached /\ moving' = moving \cup {d}
     /\ cached' = cached \ {d} /\ stored' = stored \cup {d} /\ row' = row
  \/ /\ d \in moving /\ moving' = moving \ {d}
     /\ row' = IF row[d] = "gone" THEN row ELSE [row EXCEPT ![d] = "library"]
     /\ UNCHANGED <<cached, stored>>

(* The row is pointed at the copy, *)
PointRow(d) ==
  /\ row[d] = "cache" /\ d \in cached /\ moving' = moving \cup {d}
  /\ row' = [row EXCEPT ![d] = "library"] /\ stored' = stored \cup {d}
  /\ cached' = cached

(* then the source is unlinked. *)
UnlinkSource(d) ==
  /\ d \in moving /\ moving' = moving \ {d}
  /\ cached' = cached \ {d} /\ UNCHANGED <<row, stored>>

Move(d) == PointRow(d) \/ UnlinkSource(d)

Promote(d) ==
  /\ Move(d)
  /\ IF d \in moving THEN mishaps' = mishaps ELSE Mishap
  /\ UNCHANGED <<deleting, pass, disturbed, restarted>>

-----------------------------------------------------------------------------
(* deleteDownload: the file goes, whether or not it is there, then the row;
   a row that is gone makes the request fail. *)
DeleteFile(d) ==
  /\ Mishap /\ row[d] \in {"cache", "library"} /\ d \notin deleting
  /\ deleting' = deleting \cup {d}
  /\ IF row[d] = "library" THEN stored' = stored \ {d} /\ cached' = cached
     ELSE cached' = cached \ {d} /\ stored' = stored
  /\ UNCHANGED <<row, moving, pass, disturbed, restarted>>

DeleteRow(d) ==
  /\ d \in deleting /\ deleting' = deleting \ {d}
  /\ row' = [row EXCEPT ![d] = "gone"] /\ disturbed' = TRUE
  /\ UNCHANGED <<cached, stored, moving, pass, restarted, mishaps>>

(* The hourly job removes a row whose file is not there (Library has how). *)
Reconcile(d) ==
  /\ row[d] = "cache" /\ d \notin cached
  /\ row' = [row EXCEPT ![d] = "gone"] /\ disturbed' = TRUE
  /\ UNCHANGED <<cached, stored, moving, deleting, pass, restarted, mishaps>>

Restart ==
  /\ Mishap /\ restarted' = TRUE /\ disturbed' = TRUE
  /\ pass' = [p \in Passes |-> NoPass]
  /\ moving' = {} /\ deleting' = {}
  /\ UNCHANGED <<row, cached, stored>>

-----------------------------------------------------------------------------
Goto(p, state) == pass' = [pass EXCEPT ![p] = state]

(* The job, a request, or a download about to start asks for a pass. *)
Ask(p) ==
  /\ p[1] \in Kinds \ Completion /\ pass[p] = NoPass /\ Room
  /\ \/ p[1] = "job" /\ Goto(p, Begun)
     \/ /\ p[1] = "disk" /\ Free < Required
        /\ Goto(p, [NoPass EXCEPT !.stage = "list"])
     \/ /\ p[1] = "clear"
        /\ \E S \in {Downloads} \cup {OwnedBy(u) : u \in Users} :
             /\ CacheRows(S) # {}
             /\ Goto(p, [NoPass EXCEPT !.stage = "next", !.left = CacheRows(S)])
  /\ UNCHANGED <<row, cached, stored, moving, deleting, disturbed, restarted, mishaps>>

(* The sum of the cache rows in scope: a pass that is under its quota ends. *)
Sum(p) ==
  /\ pass[p].stage = "sum"
  /\ LET used == Used(Scope(p))
     IN Goto(p, IF used <= Quota(p) THEN NoPass
                ELSE [NoPass EXCEPT !.stage = "list", !.used = used])
  /\ UNCHANGED <<row, cached, stored, moving, deleting, disturbed, restarted, mishaps>>

(* The candidates: read later than the sum. *)
List(p) ==
  /\ pass[p].stage = "list"
  /\ Goto(p, [pass[p] EXCEPT !.stage = "next", !.left = CacheRows(Scope(p))])
  /\ UNCHANGED <<row, cached, stored, moving, deleting, disturbed, restarted, mishaps>>

Enough(p) ==
  CASE p[1] = "disk" -> Free >= Required
    [] p[1] = "clear" -> FALSE
    [] OTHER -> pass[p].used <= Quota(p)

(* Mutant: the newest goes first. *)
Newest(p, S) == {d \in S : \A e \in S : e <= d}

(* orderBy completedAt asc; clearCache has no order. *)
Candidates(p, S) == IF p[1] = "clear" THEN S ELSE {d \in S : \A e \in S : d <= e}

(* Mutant: a file that is not there does not matter. *)
UnlinkTolerates(d) == TRUE

CanUnlink(d) == d \in cached

Take(p, d) == [pass[p] EXCEPT !.stage = "row", !.at = d, !.left = @ \ {d}]

(* The next candidate's file is unlinked.  One that cannot be is passed over,
   and its bytes stay in the tally. *)
Evict(p) ==
  /\ pass[p].stage = "next"
  /\ IF pass[p].left = {} \/ Enough(p) THEN Goto(p, NoPass) /\ cached' = cached
     ELSE \E d \in Candidates(p, pass[p].left) :
            /\ Goto(p, IF CanUnlink(d) THEN Take(p, d)
                       ELSE [pass[p] EXCEPT !.left = @ \ {d}])
            /\ cached' = cached \ {d}
  /\ UNCHANGED <<row, stored, moving, deleting, disturbed, restarted, mishaps>>

(* Then its row is deleted, whatever it says by now; a row that is gone makes
   the delete throw, and the pass ends where it is. *)
EvictRow(p) ==
  /\ pass[p].stage = "row"
  /\ LET d == pass[p].at
     IN IF row[d] = "gone" THEN Goto(p, NoPass) /\ row' = row
        ELSE /\ row' = [row EXCEPT ![d] = "gone"]
             /\ Goto(p, [pass[p] EXCEPT !.stage = "next", !.at = 0,
                                        !.used = IF p[1] \in {"disk", "clear"} THEN 0
                                                 ELSE @ - Size[d]])
  /\ UNCHANGED <<cached, stored, moving, deleting, disturbed, restarted, mishaps>>

Step(p) == Sum(p) \/ List(p) \/ Evict(p) \/ EvictRow(p)

Next ==
  \/ \E d \in Downloads :
       \/ Complete(d) \/ Promote(d)
       \/ DeleteFile(d) \/ DeleteRow(d) \/ Reconcile(d)
  \/ \E p \in Passes : Ask(p) \/ Step(p)
  \/ Restart

Spec == Init /\ [][Next]_vars

(* Awaits are answered, so a pass or a deletion goes on once begun, and the
   hourly job gets to every row. *)
Fairness ==
  /\ \A p \in Passes : WF_vars(Step(p))
  /\ \A d \in Downloads : WF_vars(DeleteRow(d)) /\ WF_vars(Reconcile(d))

FairSpec == Spec /\ Fairness

-----------------------------------------------------------------------------
TypeOK ==
  /\ row \in [Downloads -> {"none", "cache", "library", "gone"}]
  /\ cached \subseteq Downloads /\ stored \subseteq Downloads
  /\ moving \subseteq Downloads /\ deleting \subseteq Downloads
  /\ pass \in [Passes -> [stage : Stages, used : Int, left : SUBSET Downloads,
                          at : Downloads \cup {0}]]
  /\ \A p \in Passes : pass[p].at \notin pass[p].left
  /\ disturbed \in BOOLEAN /\ restarted \in BOOLEAN
  /\ mishaps \in Nat

(* However many passes run side by side over the same candidates, one download
   is evicted by one of them: only the pass whose unlink took the file goes on
   to delete the row, subtract its bytes and report it. *)
EvictedBy(p, d) == pass[p].stage = "row" /\ pass[p].at = d
OneEvictor ==
  \A p, q \in Passes, d \in Downloads : EvictedBy(p, d) /\ EvictedBy(q, d) => p = q

(* No pass takes a download's file while an older one within its scope still
   has its file in the cache, whoever else evicts, promotes or deletes. *)
Takes(p, d) == pass[p].stage = "next" /\ EvictedBy(p, d)'
OldestFirst ==
  \A p \in Passes, d \in Downloads :
    Takes(p, d) /\ p[1] # "clear"
      => \A e \in CacheRows(Scope(p)) : e < d => e \notin cached
EvictsOldestFirst == [][OldestFirst]_vars

(* A pass that a completed download started leaves no more than its quota of
   what it could count, when it stops because its tally says so or its list is
   empty.  Files that another pass, a promotion or a deletion takes meanwhile
   stay in its tally; rows that completed between its sum and its list, listed
   but not tallied, are only reached when all the older ones are gone. *)
Leaves(p) == {d \in CacheRows(Scope(p)) : d \in cached /\ d <= p[2]}
Stops(p) == pass[p].stage = "next" /\ (pass[p].left = {} \/ Enough(p))
StopsWithinQuota ==
  \A p \in Completion \X Downloads : Stops(p) => Bytes(Leaves(p)) <= Quota(p)

(* A row describes a file that is there, or somebody is about to delete the
   row: only a restart between an unlink and its row leaves one behind. *)
HasFile(d) ==
  CASE row[d] = "cache" -> d \in cached
    [] row[d] = "library" -> d \in stored
    [] OTHER -> TRUE
MissingFilesHaveARemover ==
  ~restarted =>
    \A d \in Downloads :
      HasFile(d) \/ d \in deleting \/ \E p \in Passes : EvictedBy(p, d)

(* Once a user is over quota, or the cache over the total cap, there comes a
   time when nobody is and it is not, or a pass was disturbed: passes that skip
   what another is taking still free enough between them. *)
Exceeded ==
  \/ Used(Downloads) > TotalCap
  \/ \E u \in Users : Used(OwnedBy(u)) > EffectiveCacheQuota(u)
QuotasRestored == Exceeded ~> ~Exceeded \/ disturbed

-----------------------------------------------------------------------------
(* Not true of this code: TLC finds a counterexample (README). *)

(* An eviction deletes the row of a cache download, never that of one the
   library holds; only a user's deletion removes that. *)
EvictedOnlyFromCache ==
  [][\A d \in Downloads : row[d] = "library" /\ row'[d] = "gone" => d \in deleting]_vars
=============================================================================
