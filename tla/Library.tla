-------------------------------- MODULE Library --------------------------------
(***************************************************************************)
(* Where a finished download lives (services/library.service.ts): the file *)
(* yt-dlp left in the download directory (the cache), its promotion to the *)
(* library, and everything that compares rows with files and removes what  *)
(* does not match: the interrupted-promotion healer, the reconciliation,   *)
(* the sweeps, and the removals that evictions, retention and users ask    *)
(* for.  Promotion is a copy, a rename, a row update and an unlink with an *)
(* await between any two, and the process may die at each of them.         *)
(*                                                                         *)
(* A file's content is the download it was fetched for.  yt-dlp names its  *)
(* output by title, so downloads of one title use one cache file name and  *)
(* one folder name in the library; a second copy goes to "<title> (1)".    *)
(***************************************************************************)
EXTENDS Integers, FiniteSets

CONSTANTS
  Downloads,     \* numbers: the order in which they are fetched
  Titles,
  Title,         \* [Downloads -> Titles]
  Size,          \* [Downloads -> Nat]
  MaxFolder,     \* bound: folders "<title>" .. "<title> (MaxFolder)"
  MaxMishaps,    \* bound: restarts, and copies that fail (disk full)
  BreakerMin,    \* RECONCILE_MIN_FOR_FRACTION (4)
  Overlap        \* "reconcile", "remove": it may overlap a promotion;
                 \* "crash": it may fall between a removal's unlink and write

ASSUME TitleAssumption == Title \in [Downloads -> Titles]
ASSUME SizeAssumption ==
  /\ Size \in [Downloads -> Nat]
  \* "Same title plus same file size means it is this video" (243)
  /\ \A d, e \in Downloads : Title[d] = Title[e] /\ Size[d] = Size[e] => d = e
ASSUME DownloadsAssumption == Downloads \subseteq Nat \ {0}
ASSUME BoundAssumption ==
  MaxFolder \in Nat /\ MaxMishaps \in Nat /\ BreakerMin \in Nat
ASSUME OverlapAssumption == Overlap \subseteq {"reconcile", "remove", "crash"}

VARIABLES
  row,       \* the table Download: [status, pool, path]
  cache,     \* files of the download directory, by title
  fresh,     \* those modified within the last 24 h
  media,     \* library media files, by title and folder
  part,      \* the ".part" temporaries next to them
  stale,     \* temporaries not written to for an hour
  promo,     \* promotionInFlight: where each promotion is, and its folder
  jobPc,     \* the cache-cleanup job: resume, then reconcile
  todo,      \* interrupted promotions it has still to resume
  resuming,  \* the one it waits for
  listed,    \* rows reconcileFiles read, as they were then
  unchecked, \* those whose file it has not looked for yet
  missing,   \* those whose file it did not find
  sweepPc,   \* sweepOrphanedDownloads
  garbage,   \* names it has still to look at
  removal,   \* where each removal is, and the path it has read
  doomed,    \* downloads whose removal was asked for (history)
  husk,      \* folder the husk sweep is emptying
  mishaps    \* restarts and failed copies so far

diskVars == <<cache, fresh, media, part, stale>>
jobRest == <<jobPc, todo, listed, unchecked, missing>>
jobVars == <<resuming, jobRest>>
sweepVars == <<sweepPc, garbage>>
removeVars == <<removal, doomed>>
vars == <<row, diskVars, promo, jobVars, sweepVars, removeVars, husk, mishaps>>

Folders == 0 .. MaxFolder
Nobody == 0  \* the content of a file that does not exist
Contents == Downloads \cup {Nobody}

NoPath == <<"none", 0>>
Cache == <<"cache", 0>>
InLibrary(k) == <<"library", k>>
LibraryPaths == {InLibrary(k) : k \in Folders}
Paths == {NoPath, Cache} \cup LibraryPaths

Rows == [status : {"NONE", "ACTIVE", "COMPLETED", "DELETED", "GONE"},
         pool : {"cache", "library"}, path : Paths]

(* The file a path of download d leads to. *)
FileAt(d, path) ==
  IF path = Cache THEN cache[Title[d]]
  ELSE IF path \in LibraryPaths THEN media[Title[d]][path[2]] ELSE Nobody

Completed(d) == row[d].status = "COMPLETED"
Tracked(t) == \E d \in Downloads : Title[d] = t /\ Completed(d) /\ row[d].path = Cache
NoRows == [d \in {} |-> Nobody]
NoRemoval == [pc |-> "idle", path |-> NoPath]
Idle == [pc |-> "idle", folder |-> 0]
Promoting(d) == promo[d] # Idle
At(d, l) == promo[d].pc = l
Goto(d, l) == promo' = [promo EXCEPT ![d].pc = l] /\ resuming' = resuming

(* A promotion ends, well or badly; the job may have been waiting for it. *)
Leave(d) ==
  /\ promo' = [promo EXCEPT ![d] = Idle]
  /\ resuming' = IF resuming = d THEN Nobody ELSE resuming

ProcessInit ==
  /\ promo = [d \in Downloads |-> Idle]
  /\ jobPc = "idle" /\ todo = {} /\ resuming = Nobody
  /\ listed = NoRows /\ unchecked = {} /\ missing = {}
  /\ sweepPc = "idle" /\ garbage = {}
  /\ removal = [d \in Downloads |-> NoRemoval]
  /\ husk = {}

Init ==
  /\ row = [d \in Downloads |-> [status |-> "NONE", pool |-> "cache", path |-> NoPath]]
  /\ cache = [t \in Titles |-> Nobody] /\ fresh = {}
  /\ media = [t \in Titles |-> [k \in Folders |-> Nobody]]
  /\ part = media /\ stale = {}
  /\ ProcessInit
  /\ doomed = {} /\ mishaps = 0

(* The process dies: rows and files are what is left. *)
Crash ==
  /\ mishaps < MaxMishaps /\ mishaps' = mishaps + 1
  /\ "crash" \in Overlap \/ \A d \in Downloads : removal[d].pc # "row"
  /\ promo' = [d \in Downloads |-> Idle]
  /\ jobPc' = "idle" /\ todo' = {} /\ resuming' = Nobody
  /\ listed' = NoRows /\ unchecked' = {} /\ missing' = {}
  /\ sweepPc' = "idle" /\ garbage' = {}
  /\ removal' = [d \in Downloads |-> NoRemoval]
  /\ husk' = {}
  /\ UNCHANGED <<row, diskVars, doomed>>

-----------------------------------------------------------------------------
(* The download pipeline, as seen from here: yt-dlp writes a file, the row
   learns its path and becomes COMPLETED.  A title is fetched while no file,
   row, promotion or removal uses its name: see the README on titles that collide. *)
NameFree(t) ==
  /\ cache[t] = Nobody /\ ~Tracked(t)
  /\ \A d \in Downloads : Title[d] = t => removal[d].path # Cache /\ ~Promoting(d)

FetchStart(d) ==
  /\ row[d].status = "NONE" /\ NameFree(Title[d])
  /\ \A e \in Downloads : e < d => row[e].status # "NONE"
  /\ row' = [row EXCEPT ![d].status = "ACTIVE"]
  /\ cache' = [cache EXCEPT ![Title[d]] = d] /\ fresh' = fresh \cup {Title[d]}
  /\ UNCHANGED <<media, part, stale, promo, jobVars, sweepVars, removeVars,
                 husk, mishaps>>

FetchDone(d, pool) ==
  /\ row[d].status = "ACTIVE" /\ cache[Title[d]] = d
  /\ row' = [row EXCEPT ![d] = [status |-> "COMPLETED", pool |-> pool, path |-> Cache]]
  /\ UNCHANGED <<diskVars, promo, jobVars, sweepVars, removeVars, husk, mishaps>>

(* The download fails or is cancelled; what it wrote stays behind. *)
FetchFail(d) ==
  /\ row[d].status = "ACTIVE"
  /\ row' = [row EXCEPT ![d].status = "GONE"]
  /\ UNCHANGED <<diskVars, promo, jobVars, sweepVars, removeVars, husk, mishaps>>

(* A day passes; a file that is being written stays fresh, and no sweep takes
   a day from reading the directory to the file. *)
AgeFile(t) ==
  /\ t \in fresh /\ t \notin garbage
  /\ \A d \in Downloads : Title[d] = t => row[d].status # "ACTIVE"
  /\ fresh' = fresh \ {t}
  /\ UNCHANGED <<row, cache, media, part, stale, promo, jobVars, sweepVars,
                 removeVars, husk, mishaps>>

AgePart(t, k) ==
  /\ part[t][k] # Nobody /\ <<t, k>> \notin stale
  /\ \A d \in Downloads : Title[d] = t => ~(At(d, "rename") /\ promo[d].folder = k)
  /\ stale' = stale \cup {<<t, k>>}
  /\ UNCHANGED <<row, cache, fresh, media, part, promo, jobVars, sweepVars,
                 removeVars, husk, mishaps>>

-----------------------------------------------------------------------------
(* promoteToLibrary: coalesced by download, so `promo` has one entry each. *)
MayPromote(d) ==
  /\ ~Promoting(d) /\ Completed(d) /\ row[d].path = Cache
  /\ "reconcile" \in Overlap \/ jobPc \notin {"check", "act"}
  /\ "remove" \in Overlap \/ removal[d] = NoRemoval

Begin(d) == promo' = [promo EXCEPT ![d] = [pc |-> "probe", folder |-> 0]]

(* The completion hook, an approved request, a user, or the boot sequence. *)
Promote(d) ==
  /\ MayPromote(d) /\ Begin(d)
  /\ UNCHANGED <<row, diskVars, jobVars, sweepVars, removeVars, husk, mishaps>>

SameSize(a, b) == a # Nobody /\ b # Nobody /\ Size[a] = Size[b]

(* Mutant: a folder that holds a file is always another video's. *)
NeverSameSize(a, b) == FALSE

AlreadyCopied(a, b) == SameSize(a, b)

(* One folder is looked at: free, this very file, or somebody else's.  Past the
   last folder the search is cut short when the copy would find no source. *)
Probe(d) ==
  /\ At(d, "probe")
  /\ LET t == Title[d]
         k == promo[d].folder
         found == media[t][k]
     IN IF found = Nobody THEN Goto(d, "copy")
        ELSE IF AlreadyCopied(found, cache[t]) THEN Goto(d, "update")
        ELSE IF k < MaxFolder
        THEN promo' = [promo EXCEPT ![d].folder = k + 1] /\ resuming' = resuming
        ELSE cache[t] = Nobody /\ Leave(d)
  /\ UNCHANGED <<row, diskVars, jobRest, sweepVars, removeVars, husk, mishaps>>

(* copyAtomic: the temporary is written (over any older one), *)
Copy(d) ==
  /\ At(d, "copy")
  /\ LET t == Title[d]
         k == promo[d].folder
     IN IF cache[t] = Nobody THEN Leave(d) /\ UNCHANGED <<part, stale>>
        ELSE /\ part' = [part EXCEPT ![t][k] = cache[t]]
             /\ stale' = stale \ {<<t, k>>}
             /\ Goto(d, "rename")
  /\ UNCHANGED <<row, cache, fresh, media, jobRest, sweepVars, removeVars,
                 husk, mishaps>>

(* and renamed, if it is still there. *)
Rename(d) ==
  /\ At(d, "rename")
  /\ LET t == Title[d]
         k == promo[d].folder
     IN IF part[t][k] = Nobody THEN Leave(d) /\ UNCHANGED <<media, part>>
        ELSE /\ media' = [media EXCEPT ![t][k] = part[t][k]]
             /\ part' = [part EXCEPT ![t][k] = Nobody]
             /\ Goto(d, "update")
  /\ UNCHANGED <<row, cache, fresh, stale, jobRest, sweepVars, removeVars,
                 husk, mishaps>>

CopyFails(d) ==
  /\ mishaps < MaxMishaps /\ mishaps' = mishaps + 1
  /\ promo[d].pc \in {"copy", "rename"} /\ Leave(d)
  /\ UNCHANGED <<row, diskVars, jobRest, sweepVars, removeVars, husk>>

(* Mutant: the row is written whether it is still there or not (an upsert). *)
Upsert(d) ==
  /\ At(d, "update") /\ Goto(d, "unlink")
  /\ row' = [row EXCEPT ![d] = [status |-> "COMPLETED", pool |-> "library",
                               path |-> InLibrary(promo[d].folder)]]
  /\ UNCHANGED <<diskVars, jobRest, sweepVars, removeVars, husk, mishaps>>

(* The row is pointed at the destination before the source goes. *)
Update(d) ==
  /\ At(d, "update")
  /\ IF row[d].status = "GONE" THEN Leave(d) /\ row' = row
     ELSE /\ row' = [row EXCEPT ![d].pool = "library",
                                ![d].path = InLibrary(promo[d].folder)]
          /\ Goto(d, "unlink")
  /\ UNCHANGED <<diskVars, jobRest, sweepVars, removeVars, husk, mishaps>>

Unlink(d) ==
  /\ At(d, "unlink") /\ Leave(d)
  /\ cache' = [cache EXCEPT ![Title[d]] = Nobody] /\ fresh' = fresh \ {Title[d]}
  /\ UNCHANGED <<row, media, part, stale, jobRest, sweepVars, removeVars,
                 husk, mishaps>>

PromoteStep(d) == Probe(d) \/ Copy(d) \/ Rename(d) \/ Update(d) \/ Unlink(d)

-----------------------------------------------------------------------------
(* The cache-cleanup job.  resumeInterruptedPromotions: *)
Interrupted(d) == Completed(d) /\ row[d].pool = "library" /\ row[d].path = Cache

(* Mutant: only downloads without a file in the library are resumed. *)
NotCopiedYet(d) == Interrupted(d) /\ \A k \in Folders : media[Title[d]][k] # d

ToResume(d) == Interrupted(d)

ResumeRead ==
  /\ jobPc = "idle" /\ jobPc' = "resume"
  /\ todo' = {d \in Downloads : ToResume(d)}
  /\ UNCHANGED <<row, diskVars, promo, resuming, listed, unchecked, missing,
                 sweepVars, removeVars, husk, mishaps>>

(* promoteToLibrary joins a promotion in flight, starts one, or throws. *)
ResumeOne(d) ==
  /\ jobPc = "resume" /\ resuming = Nobody /\ d \in todo /\ todo' = todo \ {d}
  /\ IF MayPromote(d) THEN Begin(d) ELSE promo' = promo
  /\ resuming' = IF MayPromote(d) \/ Promoting(d) THEN d ELSE Nobody
  /\ UNCHANGED <<row, diskVars, jobPc, listed, unchecked, missing, sweepVars,
                 removeVars, husk, mishaps>>

(* reconcileFiles: the rows are read, *)
ReconcileRead ==
  /\ jobPc = "resume" /\ todo = {} /\ resuming = Nobody
  /\ "reconcile" \in Overlap \/ \A d \in Downloads : ~Promoting(d)
  /\ unchecked' = {d \in Downloads : Completed(d)}
  /\ jobPc' = IF unchecked' = {} THEN "idle" ELSE "check"
  /\ listed' = [d \in unchecked' |-> row[d]]
  /\ UNCHANGED <<row, diskVars, promo, todo, resuming, missing, sweepVars,
                 removeVars, husk, mishaps>>

(* Mutant: every file is looked for in the download directory. *)
NotInCache(d) == FileAt(d, Cache) = Nobody

NotFound(d) == FileAt(d, listed[d].path) = Nobody

(* then each file is looked for where the row said it was, *)
ReconcileCheck(d) ==
  /\ jobPc = "check" /\ d \in unchecked /\ unchecked' = unchecked \ {d}
  /\ missing' = IF NotFound(d) THEN missing \cup {d} ELSE missing
  /\ UNCHANGED <<row, diskVars, promo, jobPc, todo, resuming, listed, sweepVars,
                 removeVars, husk, mishaps>>

(* The circuit breaker: at least BreakerMin files and half of those checked. *)
OutageSuspected ==
  /\ Cardinality(missing) >= BreakerMin
  /\ 2 * Cardinality(missing) >= Cardinality(DOMAIN listed)

ActOn(left) ==
  /\ missing' = left /\ listed' = IF left = {} THEN NoRows ELSE listed
  /\ jobPc' = IF left = {} THEN "idle" ELSE "act"

ReconcileJudge ==
  /\ jobPc = "check" /\ unchecked = {}
  /\ ActOn(IF OutageSuspected THEN {} ELSE missing)
  /\ UNCHANGED <<row, diskVars, promo, todo, resuming, unchecked, sweepVars,
                 removeVars, husk, mishaps>>

Tombstone(d) == [row EXCEPT ![d].status = "DELETED", ![d].path = NoPath]
Dropped(d) == [row EXCEPT ![d].status = "GONE", ![d].path = NoPath]

(* and the rows of the missing ones become tombstones or go.  A row that is
   gone makes the query throw and ends the pass. *)
ReconcileAct(d) ==
  /\ jobPc = "act" /\ d \in missing
  /\ IF row[d].status = "GONE" THEN ActOn({}) /\ row' = row
     ELSE /\ ActOn(missing \ {d})
          /\ row' = IF listed[d].pool = "library" THEN Tombstone(d) ELSE Dropped(d)
  /\ UNCHANGED <<diskVars, promo, todo, resuming, unchecked, sweepVars,
                 removeVars, husk, mishaps>>

Job ==
  \/ ResumeRead \/ ReconcileRead \/ ReconcileJudge
  \/ \E d \in Downloads : ResumeOne(d) \/ ReconcileCheck(d) \/ ReconcileAct(d)

-----------------------------------------------------------------------------
(* sweepOrphanedDownloads: the directory is read before the rows, and each
   file that belongs to none is looked at again. *)
SweepOn(pc, left) ==
  /\ garbage' = left
  /\ sweepPc' = IF left = {} THEN "idle" ELSE pc
  /\ UNCHANGED <<row, media, part, stale, promo, jobVars, removeVars, husk,
                 mishaps>>

SweepRead ==
  /\ sweepPc = "idle" /\ \E t \in Titles : cache[t] # Nobody
  /\ SweepOn("rows", {t \in Titles : cache[t] # Nobody})
  /\ UNCHANGED <<cache, fresh>>

(* Mutant: any completed download of that title keeps the file. *)
KeptByTitle(t) == \E d \in Downloads : Title[d] = t /\ Completed(d)

Kept(t) == Tracked(t)

SweepRows ==
  /\ sweepPc = "rows" /\ SweepOn("files", {t \in garbage : ~Kept(t)})
  /\ UNCHANGED <<cache, fresh>>

(* Mutant: no grace for files written lately. *)
NoGrace(t) == FALSE

WithinGrace(t) == t \in fresh

SweepFile(t) ==
  /\ sweepPc = "files" /\ t \in garbage /\ SweepOn("files", garbage \ {t})
  /\ cache' = IF WithinGrace(t) THEN cache ELSE [cache EXCEPT ![t] = Nobody]
  /\ UNCHANGED fresh

Sweep == SweepRead \/ SweepRows \/ \E t \in Titles : SweepFile(t)

(* sweepLibraryHusks: a folder without media whose temporary, if it has one,
   is stale; what was listed is unlinked. *)
HuskLook(t, k) ==
  /\ husk = {} /\ media[t][k] = Nobody /\ part[t][k] # Nobody /\ <<t, k>> \in stale
  /\ husk' = {<<t, k>>}
  /\ UNCHANGED <<row, diskVars, promo, jobVars, sweepVars, removeVars, mishaps>>

HuskRemove(t, k) ==
  /\ <<t, k>> \in husk /\ husk' = {}
  /\ part' = [part EXCEPT ![t][k] = Nobody] /\ stale' = stale \ {<<t, k>>}
  /\ UNCHANGED <<row, cache, fresh, media, promo, jobVars, sweepVars, removeVars,
                 mishaps>>

-----------------------------------------------------------------------------
(* A removal asked for by an eviction, by retention or by a user: the row is
   read, its file unlinked, then the row deleted or made a tombstone. *)
RemoveBegin(d) ==
  /\ Completed(d) /\ removal[d] = NoRemoval
  /\ "remove" \in Overlap \/ ~Promoting(d)
  /\ removal' = [removal EXCEPT ![d] = [pc |-> "file", path |-> row[d].path]]
  /\ doomed' = doomed \cup {d}
  /\ UNCHANGED <<row, diskVars, promo, jobVars, sweepVars, husk, mishaps>>

(* A file that is gone already stops an eviction and the watched cleanup, but no
   other removal. *)
RemoveFile(d) ==
  /\ removal[d].pc = "file"
  /\ LET t == Title[d]
         path == removal[d].path
     IN /\ \/ removal' = [removal EXCEPT ![d].pc = "row"]
           \/ FileAt(d, path) = Nobody /\ removal' = [removal EXCEPT ![d] = NoRemoval]
        /\ cache' = IF path = Cache THEN [cache EXCEPT ![t] = Nobody] ELSE cache
        /\ fresh' = IF path = Cache THEN fresh \ {t} ELSE fresh
        /\ media' = IF path = Cache THEN media ELSE [media EXCEPT ![t][path[2]] = Nobody]
  /\ UNCHANGED <<row, part, stale, promo, jobVars, sweepVars, doomed, husk,
                 mishaps>>

(* Retention makes tombstones of library rows; everything else deletes. *)
RemoveRow(d) ==
  /\ removal[d].pc = "row" /\ removal' = [removal EXCEPT ![d] = NoRemoval]
  /\ IF row[d].status = "GONE" THEN row' = row
     ELSE \/ row' = Dropped(d)
          \/ removal[d].path # Cache /\ row' = Tombstone(d)
  /\ UNCHANGED <<diskVars, promo, jobVars, sweepVars, doomed, husk, mishaps>>

Remove(d) == RemoveFile(d) \/ RemoveRow(d)

-----------------------------------------------------------------------------
Next ==
  \/ Crash
  \/ \E d \in Downloads :
       \/ FetchStart(d) \/ FetchFail(d) \/ \E pool \in {"cache", "library"} : FetchDone(d, pool)
       \/ Promote(d) \/ PromoteStep(d) \/ CopyFails(d)
       \/ RemoveBegin(d) \/ Remove(d)
  \/ Job
  \/ Sweep
  \/ \E t \in Titles : AgeFile(t)
  \/ \E t \in Titles, k \in Folders : AgePart(t, k) \/ HuskLook(t, k) \/ HuskRemove(t, k)

Spec == Init /\ [][Next]_vars

(* The job and the sweep run again and again, a promotion and a removal go on
   once begun, and days pass. *)
Fairness ==
  /\ WF_vars(Job) /\ SF_vars(ReconcileRead) /\ WF_vars(Sweep)
  /\ \A d \in Downloads : WF_vars(PromoteStep(d)) /\ WF_vars(Remove(d))
  /\ \A t \in Titles : SF_vars(AgeFile(t))

FairSpec == Spec /\ Fairness

-----------------------------------------------------------------------------
TypeOK ==
  /\ row \in [Downloads -> Rows]
  /\ cache \in [Titles -> Contents] /\ fresh \subseteq Titles
  /\ media \in [Titles -> [Folders -> Contents]]
  /\ part \in [Titles -> [Folders -> Contents]] /\ stale \subseteq Titles \X Folders
  /\ promo \in [Downloads -> [pc : {"idle", "probe", "copy", "rename", "update", "unlink"},
                              folder : Folders]]
  /\ jobPc \in {"idle", "resume", "check", "act"}
  /\ todo \subseteq Downloads /\ resuming \in Contents
  /\ DOMAIN listed \subseteq Downloads /\ \A d \in DOMAIN listed : listed[d] \in Rows
  /\ unchecked \subseteq DOMAIN listed /\ missing \subseteq DOMAIN listed
  /\ sweepPc \in {"idle", "rows", "files"} /\ garbage \subseteq Titles
  /\ removal \in [Downloads -> [pc : {"idle", "file", "row"}, path : Paths]]
  /\ doomed \subseteq Downloads
  /\ husk \subseteq Titles \X Folders
  /\ mishaps \in Nat

(* Every completed download has its own file where its row says, whatever
   promotion, sweep or crash is under way, until its removal is asked for. *)
RowsHaveTheirFile ==
  \A d \in Downloads : Completed(d) /\ d \notin doomed => FileAt(d, row[d].path) = d

(* A completed download whose file is there does not lose its row unless its
   removal was asked for. *)
Survives(d) ==
  Completed(d) /\ FileAt(d, row[d].path) = d /\ d \notin doomed
    => row'[d].status = "COMPLETED"
LiveRecordsSurvive == [][\A d \in Downloads : Survives(d)]_vars

(* An interrupted promotion is finished, not forked: while nothing is removed
   a download has at most one copy in the library. *)
OneCopyInLibrary ==
  doomed = {} =>
    \A d \in Downloads : Cardinality({k \in Folders : media[Title[d]][k] = d}) <= 1

(* "Every intermediate state must leave the row describing an existing file"
   (262-264): for whoever follows the rows, a finished download is in one place
   and what moves or removes it is one step (see LibraryContract). *)
Place(d) ==
  CASE row[d].status \in {"NONE", "ACTIVE"} -> "absent"
    [] row[d].status \in {"DELETED", "GONE"} -> "gone"
    [] Completed(d) /\ d \in doomed -> "doomed"
    [] Completed(d) /\ d \notin doomed ->
         IF FileAt(d, row[d].path) # d THEN "lost"
         ELSE IF row[d].path # Cache THEN "kept"
         ELSE IF row[d].pool = "library" THEN "owed" ELSE "cached"

Contract == INSTANCE LibraryContract WITH place <- [d \in Downloads |-> Place(d)]

ImplementsLibraryContract == Contract!Spec

(* A download meant for the library gets there. *)
PromotionsFinish == \A d \in Downloads : Interrupted(d) ~> ~Interrupted(d)

(* A file of the download directory that no row owns is reclaimed. *)
Orphan(t) ==
  /\ cache[t] # Nobody /\ ~Tracked(t)
  /\ \A d \in Downloads : Title[d] = t => row[d].status # "ACTIVE"
OrphansReclaimed == \A t \in Titles : Orphan(t) ~> ~Orphan(t)
=============================================================================
