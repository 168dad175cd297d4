----------------------------- MODULE LibraryProofs -----------------------------
(***************************************************************************)
(* What is proved about Library, for all downloads, titles, sizes and      *)
(* numbers of folders and of mishaps: the types, that a title has at most  *)
(* one copy of a download in the library, that every completed download    *)
(* has its own file where its row says, that no pass of the reconciliation *)
(* takes a row whose file is there, and that with all this the library     *)
(* implements LibraryContract.                                             *)
(*                                                                         *)
(* None of the safety properties is inductive. A row is right because of   *)
(* the promotion that wrote it: the folder it renamed into was free since  *)
(* it looked (FolderHeld), which holds because one download at a time uses *)
(* the cache file of its title (NameUsedOnce) and because a removal        *)
(* unlinks the file of its own download only (LibraryKept). Copies do not  *)
(* multiply because the folders fill up in order and a promotion has       *)
(* recognised none of the files it passed as its own (InOrder).            *)
(*                                                                         *)
(* Two hypotheses on Overlap appear where the code needs them.  A process  *)
(* that dies between the unlink and the row write of a removal leaves a    *)
(* row on a path that a later download may take ("crash"), so a later      *)
(* removal of that row unlinks another download's file; and a promotion    *)
(* that runs while the reconciliation holds rows it has read moves the     *)
(* file the pass then misses ("reconcile").                                *)
(***************************************************************************)
EXTENDS Library, FiniteSetTheorems, TLAPS

-----------------------------------------------------------------------------
(* The types, in the groups the proof uses. *)
RowType ==
  /\ row \in [Downloads -> Rows]
  /\ \A d \in Downloads : Completed(d) => row[d].path # NoPath
DiskType ==
  /\ cache \in [Titles -> Contents] /\ fresh \subseteq Titles
  /\ media \in [Titles -> [Folders -> Contents]]
  /\ part \in [Titles -> [Folders -> Contents]] /\ stale \subseteq Titles \X Folders
PromoType ==
  promo \in [Downloads -> [pc : {"idle", "probe", "copy", "rename", "update", "unlink"},
                           folder : Folders]]
JobType ==
  /\ jobPc \in {"idle", "resume", "check", "act"}
  /\ todo \subseteq Downloads /\ resuming \in Contents
ListType ==
  /\ DOMAIN listed \subseteq Downloads /\ \A d \in DOMAIN listed : listed[d] \in Rows
  /\ unchecked \subseteq DOMAIN listed /\ missing \subseteq DOMAIN listed
  /\ jobPc # "check" => unchecked = {}
  /\ jobPc \notin {"check", "act"} => missing = {}
RestType ==
  /\ sweepPc \in {"idle", "rows", "files"} /\ garbage \subseteq Titles
  /\ husk \subseteq Titles \X Folders /\ mishaps \in Nat
RemovalType ==
  /\ removal \in [Downloads -> [pc : {"idle", "file", "row"}, path : Paths]]
  /\ doomed \subseteq Downloads
  /\ \A d \in Downloads : removal[d] # NoRemoval =>
       removal[d].pc # "idle" /\ removal[d].path # NoPath /\ d \in doomed
Types ==
  RowType /\ DiskType /\ PromoType /\ JobType /\ ListType /\ RestType /\ RemovalType

(* A file is named after the title of the download it holds. *)
FilesByTitle ==
  /\ \A t \in Titles : cache[t] # Nobody => Title[cache[t]] = t
  /\ \A t \in Titles, k \in Folders : media[t][k] # Nobody => Title[media[t][k]] = t
  /\ \A t \in Titles, k \in Folders : part[t][k] # Nobody => Title[part[t][k]] = t

(* Nothing is promoted or removed before it was fetched. *)
Fetched(d) == row[d].status \notin {"NONE", "ACTIVE"}
OnlyFetched ==
  \A d \in Downloads : Promoting(d) \/ removal[d] # NoRemoval \/ d \in doomed => Fetched(d)

(* A download uses the cache file of its title while it is written, owned by
   the row, promoted, or to be removed. *)
Uses(d) ==
  \/ row[d].status = "ACTIVE"
  \/ Completed(d) /\ row[d].path = Cache
  \/ Promoting(d)
  \/ removal[d].path = Cache

NameUsedOnce ==
  /\ \A d, e \in Downloads : Uses(d) /\ Uses(e) /\ Title[d] = Title[e] => d = e
  /\ \A d \in Downloads : Uses(d) => cache[Title[d]] \in {d, Nobody}
  /\ \A d \in Downloads : row[d].status = "ACTIVE" =>
       cache[Title[d]] = d /\ Title[d] \in fresh

(* A row on a cache file has that file, and the sweep will not take it. *)
CacheKept ==
  \A d \in Downloads : Completed(d) /\ row[d].path = Cache /\ d \notin doomed =>
    /\ cache[Title[d]] = d
    /\ sweepPc = "files" /\ Title[d] \in garbage => Title[d] \in fresh

(* The row follows its promotion. *)
RowFollows ==
  \A d \in Downloads :
    /\ promo[d].pc \in {"probe", "copy", "rename", "update"} =>
         row[d].path \notin LibraryPaths
    /\ At(d, "unlink") => row[d].path # Cache
    /\ removal[d].path \in LibraryPaths =>
         row[d].path # Cache /\ promo[d].pc \in {"idle", "unlink"}

(* No crash has left a removal half done. *)
Sound == "crash" \notin Overlap \/ doomed = {}

(* What a promotion has made of its folder. *)
Held(d) ==
  LET t == Title[d]
      k == promo[d].folder
  IN /\ promo[d].pc \in {"copy", "rename"} => media[t][k] = Nobody
     /\ At(d, "rename") => part[t][k] \in {d, Nobody}
     /\ At(d, "update") /\ Sound => media[t][k] = d
FolderHeld == \A d \in Downloads : Held(d)

(* A row in the library has its file until its removal unlinks it. *)
LibraryKept ==
  Sound => \A d \in Downloads, k \in Folders :
    /\ Completed(d) /\ row[d].path = InLibrary(k) =>
         \/ media[Title[d]][k] = d
         \/ removal[d] = [pc |-> "row", path |-> InLibrary(k)]
    /\ removal[d] = [pc |-> "file", path |-> InLibrary(k)] => media[Title[d]][k] = d

(* The folders of a title fill up in order, and none twice with one file. *)
Filled ==
  /\ \A t \in Titles, i, j \in Folders :
       i < j /\ media[t][i] = Nobody => media[t][j] = Nobody
  /\ \A t \in Titles, i, j \in Folders :
       media[t][i] = media[t][j] /\ media[t][i] # Nobody => i = j

(* The folders a promotion has passed hold other videos. *)
Below(d) == \A i \in Folders : i < promo[d].folder => media[Title[d]][i] \notin {Nobody, d}
Passed(d) ==
  /\ promo[d].pc \in {"probe", "copy"} /\ cache[Title[d]] = d => Below(d)
  /\ At(d, "rename") /\ part[Title[d]][promo[d].folder] = d => Below(d)
InOrder == doomed = {} => Filled /\ \A d \in Downloads : Passed(d)

(* During a pass of the reconciliation nothing is promoted, the rows it has read
   say where the files are, and what it has missed was to be removed. *)
ListTrue ==
  /\ jobPc \in {"check", "act"} =>
       /\ \A d \in Downloads : ~Promoting(d)
       /\ \A d \in DOMAIN listed :
            /\ Fetched(d)
            /\ Completed(d) => row[d].path = listed[d].path
  /\ \A d \in missing : Completed(d) => d \in doomed

(* The inductive invariant. *)
IInv ==
  /\ Types /\ FilesByTitle /\ OnlyFetched /\ NameUsedOnce /\ CacheKept
  /\ RowFollows /\ FolderHeld /\ LibraryKept /\ InOrder

-----------------------------------------------------------------------------
(* No download is Nobody, and the kinds of paths are told apart. *)
LEMMA Contented == Nobody \notin Downloads /\ Folders \subseteq Nat /\ 0 \in Folders
  BY DownloadsAssumption, BoundAssumption DEF Nobody, Folders

(* A path is none, the cache file, or one of a folder of the library. *)
LEMMA PathsDiffer ==
  /\ NoPath # Cache /\ NoPath \in Paths /\ Cache \in Paths
  /\ NoPath \notin LibraryPaths /\ Cache \notin LibraryPaths
  /\ Paths = {NoPath, Cache} \cup LibraryPaths
  /\ \A k \in Folders : InLibrary(k) \in LibraryPaths /\ InLibrary(k)[2] = k
  /\ \A p \in LibraryPaths : p[2] \in Folders /\ p = InLibrary(p[2])
<1>1. NoPath # Cache
  BY DEF NoPath, Cache
<1>2. \A k \in Folders : InLibrary(k) # NoPath /\ InLibrary(k) # Cache /\
        InLibrary(k)[2] = k
  BY DEF NoPath, Cache, InLibrary
<1>3. \A p \in LibraryPaths : \E k \in Folders : p = InLibrary(k)
  BY DEF LibraryPaths
<1>4. \A k \in Folders : InLibrary(k) \in LibraryPaths
  BY DEF LibraryPaths
<1>5. QED BY <1>1, <1>2, <1>3, <1>4 DEF Paths

(* Where a promotion looks, there is a file or nobody's. *)
LEMMA Located ==
  ASSUME Types, NEW d \in Downloads
  PROVE  /\ Title[d] \in Titles /\ promo[d].folder \in Folders /\ d \in Contents
         /\ cache[Title[d]] \in Contents
         /\ \A k \in Folders : media[Title[d]][k] \in Contents /\
              part[Title[d]][k] \in Contents
BY TitleAssumption DEF Types, PromoType, DiskType, Contents

-----------------------------------------------------------------------------
(* What each step does to the folders, the places of the promotions, the rows
   and the removals, element by element. *)
Stays(f, d) == \A e \in Downloads : e # d => f'[e] = f[e]
CacheFreed(t) ==
  /\ \A u \in Titles : cache'[u] = IF u = t THEN Nobody ELSE cache[u]
  /\ fresh' = fresh \ {t}
othersVars == <<sweepPc, garbage, doomed>>

CopyEffect(d) ==
  /\ At(d, "copy") /\ Stays(promo, d)
  /\ UNCHANGED <<row, cache, fresh, media, removal, othersVars>>
  /\ \/ promo'[d] = Idle /\ part' = part
     \/ /\ promo'[d].pc = "rename" /\ promo'[d].folder = promo[d].folder
        /\ cache[Title[d]] # Nobody
        /\ \A u \in Titles, i \in Folders : part'[u][i] =
             IF u = Title[d] /\ i = promo[d].folder THEN cache[Title[d]] ELSE part[u][i]

RenameEffect(d) ==
  /\ At(d, "rename") /\ Stays(promo, d)
  /\ UNCHANGED <<row, cache, fresh, removal, othersVars>>
  /\ \/ promo'[d] = Idle /\ part' = part /\ media' = media
     \/ /\ promo'[d].pc = "update" /\ promo'[d].folder = promo[d].folder
        /\ part[Title[d]][promo[d].folder] # Nobody
        /\ \A u \in Titles, i \in Folders :
             LET here == u = Title[d] /\ i = promo[d].folder
             IN /\ part'[u][i] = IF here THEN Nobody ELSE part[u][i]
                /\ media'[u][i] = IF here THEN part[u][i] ELSE media[u][i]

RemoveEffect(d) ==
  /\ removal[d].pc = "file" /\ removal[d] # NoRemoval /\ Stays(removal, d)
  /\ UNCHANGED <<row, part, promo, othersVars>>
  /\ IF removal[d].path = Cache
     THEN CacheFreed(Title[d])
     ELSE UNCHANGED <<cache, fresh>>
  /\ \A u \in Titles, i \in Folders : media'[u][i] =
       IF removal[d].path = InLibrary(i) /\ u = Title[d] THEN Nobody ELSE media[u][i]
  /\ \/ removal'[d] = [pc |-> "row", path |-> removal[d].path]
     \/ removal'[d] = NoRemoval /\ FileAt(d, removal[d].path) = Nobody

ProbeEffect(d) ==
  /\ At(d, "probe") /\ Stays(promo, d)
  /\ UNCHANGED <<row, cache, fresh, media, part, removal, othersVars>>
  /\ LET t == Title[d]
         k == promo[d].folder
     IN \/ media[t][k] = Nobody /\ promo'[d].pc = "copy" /\ promo'[d].folder = k
        \/ /\ SameSize(media[t][k], cache[t])
           /\ promo'[d].pc = "update" /\ promo'[d].folder = k
        \/ /\ media[t][k] # Nobody /\ ~SameSize(media[t][k], cache[t])
           /\ promo'[d].pc = "probe" /\ promo'[d].folder = k + 1
        \/ promo'[d] = Idle

UpdateEffect(d) ==
  /\ At(d, "update") /\ Stays(promo, d) /\ Stays(row, d)
  /\ UNCHANGED <<cache, fresh, media, part, removal, othersVars>>
  /\ \/ row' = row /\ promo'[d] = Idle
     \/ /\ row'[d].status = row[d].status /\ row[d].status # "GONE"
        /\ row'[d].path = InLibrary(promo[d].folder)
        /\ promo'[d].pc = "unlink" /\ promo'[d].folder = promo[d].folder

BeginEffect(d) ==
  /\ Completed(d) /\ row[d].path = Cache /\ ~Promoting(d)
  /\ Stays(promo, d) /\ promo'[d] = [pc |-> "probe", folder |-> 0]
  /\ UNCHANGED <<row, cache, fresh, media, part, removal, othersVars>>

LeaveEffect(d) ==
  /\ Promoting(d) /\ Stays(promo, d) /\ promo'[d] = Idle
  /\ UNCHANGED <<row, media, part, removal, othersVars>>
  /\ \/ UNCHANGED <<cache, fresh>>
     \/ At(d, "unlink") /\ CacheFreed(Title[d])

RowEffect(d) ==
  /\ Stays(row, d) /\ Stays(removal, d)
  /\ removal'[d] \in {removal[d], NoRemoval}
  /\ UNCHANGED <<cache, fresh, media, part, promo, othersVars>>
  /\ \/ row' = row /\ row[d].status = "GONE"
     \/ row'[d].status \in {"DELETED", "GONE"} /\ row'[d].path = NoPath

(* The same, for the records of each download. *)
LEMMA Typed ==
  ASSUME Types
  PROVE  \A d \in Downloads :
           /\ row[d].path \in Paths /\ promo[d].folder \in Folders
           /\ removal[d].path \in Paths
           /\ Completed(d) => row[d].path # NoPath
           /\ removal[d] = [pc |-> removal[d].pc, path |-> removal[d].path]
           /\ removal[d] # NoRemoval =>
                removal[d].pc # "idle" /\ removal[d].path # NoPath /\ d \in doomed
BY DEF Types, RowType, Rows, PromoType, RemovalType

(* One file of a title is promoted at a time, and it is recognised by its size. *)
LEMMA OnePromotion ==
  ASSUME NameUsedOnce, NEW d \in Downloads, NEW e \in Downloads, Promoting(d), Promoting(e),
         Title[d] = Title[e]
  PROVE  d = e
BY DEF NameUsedOnce, Uses

(* What has the size of the promoted file is that file (SizeAssumption). *)
LEMMA SameFile ==
  ASSUME Types, FilesByTitle, NameUsedOnce, NEW d \in Downloads,
           NEW k \in Folders, Promoting(d)
  PROVE  SameSize(media[Title[d]][k], cache[Title[d]])
           <=> media[Title[d]][k] = d /\ cache[Title[d]] = d
<1>1. cache[Title[d]] \in {d, Nobody}
  BY DEF NameUsedOnce, Uses
<1>2. media[Title[d]][k] # Nobody =>
        media[Title[d]][k] \in Downloads /\ Title[media[Title[d]][k]] = Title[d]
  BY Located DEF FilesByTitle, Contents
<1>3. QED BY <1>1, <1>2, Contented, SizeAssumption DEF SameSize

(* A pass of the reconciliation that overlaps removals only. *)
PassesAlone == Overlap \subseteq {"remove"}

(* The reconciliation works on downloads. *)
LEMMA Named ==
  ASSUME Types
  PROVE  DOMAIN listed \subseteq Downloads /\ missing \subseteq DOMAIN listed
BY DEF Types, ListType

(* The invariant puts the file of every row where the row says. *)
LEMMA FilesThere ==
  ASSUME "crash" \notin Overlap, Types, CacheKept, LibraryKept
  PROVE  RowsHaveTheirFile
<1>1. SUFFICES ASSUME NEW d \in Downloads, Completed(d), d \notin doomed
               PROVE  FileAt(d, row[d].path) = d
  BY DEF RowsHaveTheirFile
<1>2. row[d].path = Cache \/ \E k \in Folders : row[d].path = InLibrary(k)
  BY <1>1, Typed, PathsDiffer
<1>3. CASE row[d].path = Cache
  BY <1>1, <1>3 DEF CacheKept, FileAt
<1>4. ASSUME NEW k \in Folders, row[d].path = InLibrary(k) PROVE FileAt(d, row[d].path) = d
  <2>1. removal[d] = NoRemoval
    BY <1>1, Typed
  <2>2. removal[d].pc # "row"
    BY <2>1 DEF NoRemoval
  <2>3. media[Title[d]][k] = d
    <3>1. media[Title[d]][k] = d \/ removal[d] = [pc |-> "row", path |-> InLibrary(k)]
      BY <1>1, <1>4 DEF LibraryKept, Sound
    <3>2. QED BY <2>2, <3>1
  <2>4. QED BY <1>4, <2>3, PathsDiffer DEF FileAt
<1>5. QED BY <1>2, <1>3, <1>4

(* A promotion goes on, ends or begins; the others stay where they are. *)
LEMMA Moved ==
  ASSUME Types, NEW d \in Downloads
  PROVE  /\ \A l : Goto(d, l) =>
              promo'[d].pc = l /\ promo'[d].folder = promo[d].folder /\ Stays(promo, d)
         /\ Leave(d) => promo'[d] = Idle /\ Stays(promo, d)
         /\ Begin(d) => promo'[d] = [pc |-> "probe", folder |-> 0] /\ Stays(promo, d)
BY DEF Types, PromoType, Goto, Leave, Begin, Stays

(* Each step has the effect above. *)
LEMMA CopyDoes ==
  ASSUME Types, NEW d \in Downloads, Copy(d) PROVE CopyEffect(d)
<1>1. CASE cache[Title[d]] = Nobody
  BY <1>1, Moved DEF Copy, CopyEffect, sweepVars, removeVars, othersVars
<1>2. CASE cache[Title[d]] # Nobody
  <2>1. part' = [part EXCEPT ![Title[d]][promo[d].folder] = cache[Title[d]]]
    BY <1>2 DEF Copy
  <2>2. part' \in [Titles -> [Folders -> Contents]]
    BY <2>1, Located DEF Types, DiskType
  <2>3. \A u \in Titles, i \in Folders : part'[u][i] =
          IF u = Title[d] /\ i = promo[d].folder THEN cache[Title[d]] ELSE part[u][i]
    BY <2>1, <2>2
  <2>4. QED
    BY <1>2, <2>3, Moved DEF Copy, CopyEffect, sweepVars, removeVars,
         othersVars
<1>3. QED BY <1>1, <1>2

(* A rename moves the temporary of the folder to its media file, if it is there. *)
LEMMA RenameDoes ==
  ASSUME Types, NEW d \in Downloads, Rename(d) PROVE RenameEffect(d)
<1>1. CASE part[Title[d]][promo[d].folder] = Nobody
  BY <1>1, Moved DEF Rename, RenameEffect, sweepVars, removeVars, othersVars
<1>2. CASE part[Title[d]][promo[d].folder] # Nobody
  <2>1. part' = [part EXCEPT ![Title[d]][promo[d].folder] = Nobody]
    BY <1>2 DEF Rename
  <2>2. media' = [media EXCEPT ![Title[d]][promo[d].folder] =
          part[Title[d]][promo[d].folder]]
    BY <1>2 DEF Rename
  <2>3. part' \in [Titles -> [Folders -> Contents]]
    BY <2>1, Located DEF Types, DiskType, Contents
  <2>4. media' \in [Titles -> [Folders -> Contents]]
    BY <2>2, Located DEF Types, DiskType
  <2>5. \A u \in Titles, i \in Folders : part'[u][i] =
          IF u = Title[d] /\ i = promo[d].folder THEN Nobody ELSE part[u][i]
    BY <2>1, <2>3
  <2>6. \A u \in Titles, i \in Folders : media'[u][i] =
          IF u = Title[d] /\ i = promo[d].folder THEN part[u][i] ELSE media[u][i]
    BY <2>2, <2>4
  <2>7. QED
    BY <1>2, <2>5, <2>6, Moved DEF Rename, RenameEffect, jobRest, sweepVars,
         removeVars, othersVars
<1>3. QED BY <1>1, <1>2

(* A removal unlinks the file at the path it has read, and no other. *)
LEMMA RemoveDoes ==
  ASSUME Types, NEW d \in Downloads, RemoveFile(d) PROVE RemoveEffect(d)
<1>1. removal[d].path \in {Cache} \cup LibraryPaths /\ removal[d] # NoRemoval
  BY PathsDiffer DEF Types, RemovalType, RemoveFile, NoRemoval
<1>2. \A u \in Titles, i \in Folders : media'[u][i] =
        IF removal[d].path = InLibrary(i) /\ u = Title[d] THEN Nobody ELSE media[u][i]
  <2>1. CASE removal[d].path = Cache
    BY <2>1, PathsDiffer DEF RemoveFile
  <2>2. CASE removal[d].path \in LibraryPaths
    <3>1. PICK k \in Folders : removal[d].path = InLibrary(k) /\ removal[d].path[2] = k
      BY <2>2, PathsDiffer
    <3>2. media' = [media EXCEPT ![Title[d]][k] = Nobody]
      BY <2>2, <3>1, PathsDiffer DEF RemoveFile
    <3>3. media' \in [Titles -> [Folders -> Contents]]
      BY <3>2, Located DEF Types, DiskType, Contents
    <3>4. \A i \in Folders : removal[d].path = InLibrary(i) <=> i = k
      BY <3>1, PathsDiffer
    <3>5. QED BY <3>2, <3>3, <3>4
  <2>3. QED BY <1>1, <2>1, <2>2
<1>3. /\ Stays(removal, d)
      /\ \/ removal'[d] = [pc |-> "row", path |-> removal[d].path]
         \/ removal'[d] = NoRemoval /\ FileAt(d, removal[d].path) = Nobody
  BY DEF RemoveFile, Types, RemovalType, Stays
<1>4. /\ UNCHANGED <<row, part, promo, othersVars>> /\ removal[d].pc = "file"
      /\ IF removal[d].path = Cache
         THEN CacheFreed(Title[d])
         ELSE UNCHANGED <<cache, fresh>>
  BY DEF RemoveFile, CacheFreed, Types, DiskType, sweepVars, othersVars
<1>5. QED BY <1>1, <1>2, <1>3, <1>4 DEF RemoveEffect

(* A probe stays in front of a free folder, recognises its copy, or goes on. *)
LEMMA ProbeDoes ==
  ASSUME Types, NEW d \in Downloads, Probe(d) PROVE ProbeEffect(d)
<1>0. /\ At(d, "probe")
      /\ UNCHANGED <<row, cache, fresh, media, part, removal, othersVars>>
  BY DEF Probe, diskVars, sweepVars, removeVars, othersVars
<1>1. CASE media[Title[d]][promo[d].folder] = Nobody
  BY <1>0, <1>1, Moved DEF Probe, ProbeEffect
<1>2. CASE /\ media[Title[d]][promo[d].folder] # Nobody
           /\ SameSize(media[Title[d]][promo[d].folder], cache[Title[d]])
  BY <1>0, <1>2, Moved DEF Probe, AlreadyCopied, ProbeEffect
<1>3. CASE /\ media[Title[d]][promo[d].folder] # Nobody
           /\ ~SameSize(media[Title[d]][promo[d].folder], cache[Title[d]])
  <2>1. CASE promo[d].folder < MaxFolder
    <3>1. promo' = [promo EXCEPT ![d].folder = promo[d].folder + 1]
      BY <1>3, <2>1 DEF Probe, AlreadyCopied
    <3>2. /\ promo'[d].pc = promo[d].pc /\ promo'[d].folder = promo[d].folder + 1
          /\ Stays(promo, d)
      BY <3>1 DEF Types, PromoType, Stays
    <3>3. QED BY <1>0, <1>3, <3>2 DEF ProbeEffect, At
  <2>2. CASE ~(promo[d].folder < MaxFolder)
    BY <1>0, <1>3, <2>2, Moved DEF Probe, AlreadyCopied, ProbeEffect
  <2>3. QED BY <2>1, <2>2
<1>4. QED BY <1>1, <1>2, <1>3

(* The row is moved to the folder of its promotion. *)
LEMMA UpdateDoes ==
  ASSUME Types, NEW d \in Downloads, Update(d) PROVE UpdateEffect(d)
<1>0. At(d, "update") /\ UNCHANGED <<cache, fresh, media, part, removal, othersVars>>
  BY DEF Update, diskVars, sweepVars, removeVars, othersVars
<1>1. CASE row[d].status = "GONE"
  BY <1>0, <1>1, Moved DEF Update, UpdateEffect, Stays
<1>2. CASE row[d].status # "GONE"
  <2>1. row' = [row EXCEPT ![d].pool = "library", ![d].path = InLibrary(promo[d].folder)]
    BY <1>2 DEF Update
  <2>2. /\ row'[d].status = row[d].status
        /\ row'[d].path = InLibrary(promo[d].folder)
        /\ Stays(row, d)
    BY <2>1 DEF Types, RowType, Stays
  <2>3. QED BY <1>0, <1>2, <2>2, Moved DEF Update, UpdateEffect
<1>3. QED BY <1>1, <1>2

(* A promotion begins at the first folder, for a completed row of the cache. *)
LEMMA BeginDoes ==
  ASSUME Types, NEW d \in Downloads, Promote(d) \/ (ResumeOne(d) /\ MayPromote(d))
  PROVE  BeginEffect(d)
BY Moved DEF Promote, ResumeOne, MayPromote, BeginEffect, diskVars, sweepVars,
     removeVars, othersVars

(* A promotion ends, with or without the cache file. *)
LEMMA LeaveDoes ==
  ASSUME Types, NEW d \in Downloads, CopyFails(d) \/ Unlink(d)
  PROVE  LeaveEffect(d)
<1>1. Promoting(d) /\ Stays(promo, d) /\ promo'[d] = Idle
  BY Moved DEF CopyFails, Unlink, Promoting, Idle, At
<1>2. UNCHANGED <<row, media, part, removal, othersVars>>
  BY DEF CopyFails, Unlink, diskVars, sweepVars, removeVars, othersVars
<1>3. UNCHANGED <<cache, fresh>> \/ (At(d, "unlink") /\ CacheFreed(Title[d]))
  BY DEF CopyFails, Unlink, CacheFreed, Types, DiskType, diskVars
<1>4. QED BY <1>1, <1>2, <1>3 DEF LeaveEffect

(* A removal or a reconciliation ends the row and leaves every file. *)
LEMMA RowDoes ==
  ASSUME Types, NEW d \in Downloads, RemoveRow(d) \/ ReconcileAct(d) PROVE RowEffect(d)
<1>1. /\ Stays(row, d)
      /\ \/ row' = row /\ row[d].status = "GONE"
         \/ row'[d].status \in {"DELETED", "GONE"} /\ row'[d].path = NoPath
  BY DEF RemoveRow, ReconcileAct, Tombstone, Dropped, Types, RowType, Rows,
       Stays
<1>2. Stays(removal, d) /\ removal'[d] \in {removal[d], NoRemoval}
  BY DEF RemoveRow, ReconcileAct, Types, RemovalType, removeVars, Stays
<1>3. UNCHANGED <<cache, fresh, media, part, promo, othersVars>>
  BY DEF RemoveRow, ReconcileAct, diskVars, sweepVars, removeVars, othersVars
<1>4. QED BY <1>1, <1>2, <1>3 DEF RowEffect

(* Every step keeps the types. *)
LEMMA NextTypes ==
  ASSUME Types, [Next]_vars
  PROVE  Types'
<1>1. CASE Crash
  BY <1>1, Contented, PathsDiffer DEF Types, RowType, DiskType, PromoType,
       JobType, ListType, RestType, RemovalType, Completed, Contents,
       NoRemoval, Idle, NoRows, Crash, diskVars
<1>2. ASSUME NEW d \in Downloads, FetchStart(d) PROVE Types'
  <2>1. DiskType'
    BY <1>2, Located DEF Types, DiskType, FetchStart
  <2>2. RowType'
    BY <1>2 DEF Types, RowType, Completed, Rows, FetchStart
  <2>3. PromoType' /\ JobType' /\ ListType' /\ RestType' /\ RemovalType'
    BY <1>2 DEF Types, FetchStart, PromoType, JobType, ListType, RestType,
         RemovalType, jobVars, sweepVars, removeVars, jobRest
  <2>4. QED BY <2>1, <2>2, <2>3 DEF Types
<1>3. ASSUME NEW d \in Downloads, FetchFail(d) PROVE Types'
  <2>1. RowType'
    BY <1>3 DEF Types, RowType, Completed, Rows, FetchFail
  <2>2. DiskType' /\ PromoType' /\ JobType' /\ ListType' /\ RestType' /\ RemovalType'
    BY <1>3 DEF Types, FetchFail, DiskType, PromoType, JobType, ListType,
         RestType, RemovalType, diskVars, jobVars, sweepVars, removeVars,
         jobRest
  <2>3. QED BY <2>1, <2>2 DEF Types
<1>4. ASSUME NEW d \in Downloads, NEW pool \in {"cache", "library"},
     FetchDone(d, pool) PROVE Types'
  BY <1>4, PathsDiffer DEF Types, RowType, DiskType, PromoType, JobType,
       ListType, RestType, RemovalType, Rows, Completed, FetchDone, diskVars,
       jobVars, sweepVars, removeVars, jobRest
<1>5. ASSUME NEW d \in Downloads, Promote(d) PROVE Types'
  <2>1. PromoType'
    BY <1>5, Contented DEF Types, PromoType, Promote, Begin
  <2>2. RowType' /\ DiskType' /\ JobType' /\ ListType' /\ RestType' /\ RemovalType'
    BY <1>5 DEF Types, Completed, Promote, RowType, DiskType, JobType,
         ListType, RestType, RemovalType, diskVars, jobVars, sweepVars,
         removeVars, jobRest
  <2>3. QED BY <2>1, <2>2 DEF Types
<1>6. ASSUME NEW d \in Downloads, Probe(d) PROVE Types'
  <2>1. PromoType'
    BY <1>6, BoundAssumption DEF Types, PromoType, Probe, Goto, Leave, Idle,
         Folders
  <2>2. JobType'
    BY <1>6 DEF Types, Contents, JobType, Probe, Goto, Leave, jobRest
  <2>3. RowType' /\ DiskType' /\ ListType' /\ RestType' /\ RemovalType'
    BY <1>6 DEF Types, Completed, Probe, RowType, DiskType, ListType, RestType,
         RemovalType, diskVars, jobRest, sweepVars, removeVars
  <2>4. QED BY <2>1, <2>2, <2>3 DEF Types
<1>7. ASSUME NEW d \in Downloads, Copy(d) PROVE Types'
  <2>1. DiskType'
    <3>1. CASE cache[Title[d]] = Nobody
      BY <1>7, <3>1 DEF Types, DiskType, Copy
    <3>2. CASE cache[Title[d]] # Nobody
      <4>1. part' = [part EXCEPT ![Title[d]][promo[d].folder] = cache[Title[d]]]
        BY <1>7, <3>2 DEF Copy
      <4>2. part' \in [Titles -> [Folders -> Contents]]
        BY <4>1, Located DEF Types, DiskType
      <4>3. QED BY <1>7, <3>2, <4>2 DEF Types, DiskType, Copy
    <3>3. QED BY <3>1, <3>2
  <2>2. PromoType'
    BY <1>7, Contented DEF Types, PromoType, Idle, Copy, Leave, Goto
  <2>3. JobType'
    BY <1>7 DEF Types, Contents, JobType, Copy, Leave, Goto, jobRest
  <2>4. RowType' /\ ListType' /\ RestType' /\ RemovalType'
    BY <1>7 DEF Types, Completed, Copy, RowType, ListType, RestType,
         RemovalType, jobRest, sweepVars, removeVars
  <2>5. QED BY <2>1, <2>2, <2>3, <2>4 DEF Types
<1>8. ASSUME NEW d \in Downloads, Rename(d) PROVE Types'
  <2>1. DiskType'
    <3>1. CASE part[Title[d]][promo[d].folder] = Nobody
      BY <1>8, <3>1 DEF Types, DiskType, Rename
    <3>2. CASE part[Title[d]][promo[d].folder] # Nobody
      <4>1. part' = [part EXCEPT ![Title[d]][promo[d].folder] = Nobody]
        BY <1>8, <3>2 DEF Rename
      <4>2. media' = [media EXCEPT ![Title[d]][promo[d].folder] =
              part[Title[d]][promo[d].folder]]
        BY <1>8, <3>2 DEF Rename
      <4>3. part' \in [Titles -> [Folders -> Contents]]
        BY <4>1, Located DEF Types, DiskType, Contents
      <4>4. media' \in [Titles -> [Folders -> Contents]]
        BY <4>2, Located DEF Types, DiskType
      <4>5. QED BY <1>8, <4>3, <4>4 DEF Types, DiskType, Rename
    <3>3. QED BY <3>1, <3>2
  <2>2. PromoType'
    BY <1>8, Contented DEF Types, PromoType, Idle, Rename, Leave, Goto
  <2>3. JobType'
    BY <1>8 DEF Types, Contents, JobType, Rename, Leave, Goto, jobRest
  <2>4. RowType' /\ ListType' /\ RestType' /\ RemovalType'
    BY <1>8 DEF Types, Completed, Rename, RowType, ListType, RestType,
         RemovalType, jobRest, sweepVars, removeVars
  <2>5. QED BY <2>1, <2>2, <2>3, <2>4 DEF Types
<1>9. ASSUME NEW d \in Downloads, Update(d) PROVE Types'
  <2>1. RowType'
    BY <1>9 DEF Types, RowType, Completed, Rows, Update
  <2>2. PromoType'
    BY <1>9, Contented DEF Types, PromoType, Idle, Update, Leave, Goto
  <2>3. JobType'
    BY <1>9 DEF Types, Contents, JobType, Update, Leave, Goto, jobRest
  <2>4. DiskType' /\ ListType' /\ RestType' /\ RemovalType'
    BY <1>9 DEF Types, Update, DiskType, ListType, RestType, RemovalType,
         diskVars, jobRest, sweepVars, removeVars
  <2>5. QED BY <2>1, <2>2, <2>3, <2>4 DEF Types
<1>10. ASSUME NEW d \in Downloads, Unlink(d) PROVE Types'
  BY <1>10, Contented DEF Types, RowType, DiskType, PromoType, JobType,
       ListType, RestType, RemovalType, Completed, Contents, Idle, Unlink,
       Leave, jobRest, sweepVars, removeVars
<1>11. ASSUME NEW d \in Downloads, CopyFails(d) PROVE Types'
  <2>1. PromoType'
    BY <1>11, Contented DEF Types, PromoType, Idle, CopyFails, Leave
  <2>2. JobType'
    BY <1>11 DEF Types, Contents, JobType, CopyFails, Leave, jobRest
  <2>3. RestType'
    BY <1>11 DEF Types, RestType, CopyFails, sweepVars
  <2>4. RowType' /\ DiskType' /\ ListType' /\ RemovalType'
    BY <1>11 DEF Types, Completed, CopyFails, RowType, DiskType, ListType,
         RemovalType, diskVars, jobRest, removeVars
  <2>5. QED BY <2>1, <2>2, <2>3, <2>4 DEF Types
<1>12. ASSUME NEW d \in Downloads, RemoveBegin(d) PROVE Types'
  <2>1. RemovalType'
    BY <1>12 DEF Types, RemovalType, RowType, Rows, RemoveBegin
  <2>2. RowType' /\ DiskType' /\ PromoType' /\ JobType' /\ ListType' /\ RestType'
    BY <1>12 DEF Types, Completed, RemoveBegin, RowType, DiskType, PromoType,
         JobType, ListType, RestType, diskVars, jobVars, sweepVars, jobRest
  <2>3. QED BY <2>1, <2>2 DEF Types
<1>13. ASSUME NEW d \in Downloads, RemoveFile(d) PROVE Types'
  <2>1. RemovalType'
    BY <1>13, PathsDiffer DEF Types, RemovalType, RemoveFile, NoRemoval
  <2>2. DiskType'
    BY <1>13 DEF Types, Contents, DiskType, RemoveFile
  <2>3. RowType' /\ PromoType' /\ JobType' /\ ListType' /\ RestType'
    BY <1>13 DEF Types, Completed, RemoveFile, RowType, PromoType, JobType,
         ListType, RestType, jobVars, sweepVars, jobRest
  <2>4. QED BY <2>1, <2>2, <2>3 DEF Types
<1>14. ASSUME NEW d \in Downloads, RemoveRow(d) PROVE Types'
  <2>1. RowType'
    BY <1>14, Contented, PathsDiffer, TitleAssumption DEF Types, RowType,
         Completed, Contents, Rows, RemoveRow, NoRemoval, Dropped, Tombstone,
         diskVars, jobVars, sweepVars, jobRest
  <2>2. RemovalType'
    BY <1>14, PathsDiffer DEF Types, RemovalType, NoRemoval, RemoveRow
  <2>3. DiskType' /\ PromoType' /\ JobType' /\ ListType' /\ RestType'
    BY <1>14 DEF Types, RemoveRow, DiskType, PromoType, JobType, ListType,
         RestType, diskVars, jobVars, sweepVars, jobRest
  <2>4. QED BY <2>1, <2>2, <2>3 DEF Types
<1>15. CASE ResumeRead
  BY <1>15 DEF Types, RowType, DiskType, PromoType, JobType, ListType,
       RestType, RemovalType, Completed, ResumeRead, diskVars, sweepVars,
       removeVars
<1>16. CASE ReconcileRead
  <2>1. ListType'
    <3>1. listed' = [d \in unchecked' |-> row[d]] /\ unchecked' \subseteq Downloads
      BY <1>16 DEF ReconcileRead
    <3>2. missing = {} /\ missing' = missing /\ (jobPc' # "check" => unchecked' = {})
      BY <1>16 DEF ReconcileRead, Types, ListType
    <3>3. QED BY <3>1, <3>2 DEF Types, RowType, ListType
  <2>2. JobType'
    BY <1>16 DEF Contents, JobType, ReconcileRead
  <2>3. RowType' /\ DiskType' /\ PromoType' /\ RestType' /\ RemovalType'
    BY <1>16 DEF Types, Completed, ReconcileRead, RowType, DiskType, PromoType,
         RestType, RemovalType, diskVars, sweepVars, removeVars
  <2>4. QED BY <2>1, <2>2, <2>3 DEF Types
<1>17. CASE ReconcileJudge
  <2>1. ListType'
    <3>1. PICK left \in SUBSET missing : ActOn(left)
      BY <1>17 DEF ReconcileJudge
    <3>2. unchecked = {} /\ unchecked' = {}
      BY <1>17 DEF ReconcileJudge
    <3>3. QED
      BY <3>1, <3>2 DEF Types, ListType, ActOn, NoRows
  <2>2. JobType'
    BY <1>17 DEF Types, JobType, ReconcileJudge, ActOn
  <2>3. RowType' /\ DiskType' /\ PromoType' /\ RestType' /\ RemovalType'
    BY <1>17 DEF Types, Completed, ReconcileJudge, RowType, DiskType,
         PromoType, RestType, RemovalType, diskVars, sweepVars, removeVars
  <2>4. QED BY <2>1, <2>2, <2>3 DEF Types
<1>18. ASSUME NEW d \in Downloads, ResumeOne(d) PROVE Types'
  <2>1. PromoType'
    BY <1>18, Contented DEF Types, PromoType, ResumeOne, Begin
  <2>2. JobType'
    BY <1>18 DEF Types, Contents, JobType, ResumeOne
  <2>3. RowType' /\ DiskType' /\ ListType' /\ RestType' /\ RemovalType'
    BY <1>18 DEF Types, Completed, ResumeOne, RowType, DiskType, ListType,
         RestType, RemovalType, diskVars, sweepVars, removeVars
  <2>4. QED BY <2>1, <2>2, <2>3 DEF Types
<1>19. ASSUME NEW d \in Downloads, ReconcileCheck(d) PROVE Types'
  BY <1>19 DEF Types, RowType, DiskType, PromoType, JobType, ListType,
       RestType, RemovalType, Completed, ReconcileCheck, diskVars, sweepVars,
       removeVars
<1>20. ASSUME NEW d \in Downloads, ReconcileAct(d) PROVE Types'
  <2>1. ListType'
    <3>1. PICK left \in SUBSET missing : ActOn(left)
      BY <1>20 DEF ReconcileAct
    <3>2. unchecked = {} /\ unchecked' = {}
      BY <1>20 DEF ReconcileAct, Types, ListType
    <3>3. QED
      BY <3>1, <3>2 DEF Types, ListType, ActOn, NoRows
  <2>2. RowType'
    BY <1>20 DEF Types, RowType, Completed, Rows, ReconcileAct, ActOn,
         Tombstone, Dropped
  <2>3. JobType'
    BY <1>20 DEF Types, JobType, ReconcileAct, ActOn
  <2>4. DiskType' /\ PromoType' /\ RestType' /\ RemovalType'
    BY <1>20 DEF Types, ReconcileAct, DiskType, PromoType, RestType,
         RemovalType, diskVars, sweepVars, removeVars
  <2>5. QED BY <2>1, <2>2, <2>3, <2>4 DEF Types
<1>21. CASE SweepRead
  BY <1>21 DEF Types, RowType, DiskType, PromoType, JobType, ListType,
       RestType, RemovalType, Completed, SweepRead, SweepOn, jobVars,
       removeVars, jobRest
<1>22. CASE SweepRows
  BY <1>22 DEF Types, RowType, DiskType, PromoType, JobType, ListType,
       RestType, RemovalType, Completed, SweepRows, SweepOn, jobVars,
       removeVars, jobRest
<1>23. ASSUME NEW t \in Titles, SweepFile(t) PROVE Types'
  BY <1>23 DEF Types, RowType, DiskType, PromoType, JobType, ListType,
       RestType, RemovalType, Completed, Contents, SweepFile, SweepOn, jobVars,
       removeVars, jobRest
<1>24. ASSUME NEW t \in Titles, AgeFile(t) PROVE Types'
  BY <1>24 DEF Types, RowType, DiskType, PromoType, JobType, ListType,
       RestType, RemovalType, Completed, AgeFile, jobVars, sweepVars,
       removeVars, jobRest
<1>25. ASSUME NEW t \in Titles, NEW k \in Folders, AgePart(t, k) PROVE Types'
  BY <1>25 DEF Types, RowType, DiskType, PromoType, JobType, ListType,
       RestType, RemovalType, Completed, AgePart, jobVars, sweepVars,
       removeVars, jobRest
<1>26. ASSUME NEW t \in Titles, NEW k \in Folders, HuskLook(t, k) PROVE Types'
  BY <1>26 DEF Types, RowType, DiskType, PromoType, JobType, ListType,
       RestType, RemovalType, Completed, HuskLook, diskVars, jobVars,
       sweepVars, removeVars, jobRest
<1>27. ASSUME NEW t \in Titles, NEW k \in Folders, HuskRemove(t, k) PROVE
     Types'
  BY <1>27 DEF Types, RowType, DiskType, PromoType, JobType, ListType,
       RestType, RemovalType, Completed, Contents, HuskRemove, jobVars,
       sweepVars, removeVars, jobRest
<1>28. CASE UNCHANGED vars
  BY <1>28 DEF Types, RowType, DiskType, PromoType, JobType, ListType,
       RestType, RemovalType, Completed, vars, diskVars, jobRest, jobVars,
       sweepVars, removeVars
<1>29. QED BY <1>1, <1>2, <1>3, <1>4, <1>5, <1>6, <1>7, <1>8, <1>9, <1>10,
     <1>11, <1>12, <1>13, <1>14, <1>15, <1>16, <1>17, <1>18, <1>19, <1>20,
     <1>21, <1>22, <1>23, <1>24, <1>25, <1>26, <1>27, <1>28 DEF Next,
     PromoteStep, Job, Sweep, Remove

(* Copies and renames stay within a title. *)
LEMMA NextFilesByTitle ==
  ASSUME Types, FilesByTitle, [Next]_vars
  PROVE  FilesByTitle'
<1>1. CASE Crash
  BY <1>1 DEF FilesByTitle, Crash, diskVars
<1>2. ASSUME NEW d \in Downloads, FetchStart(d) PROVE FilesByTitle'
  BY <1>2 DEF FilesByTitle, FetchStart
<1>3. ASSUME NEW d \in Downloads, FetchFail(d) PROVE FilesByTitle'
  BY <1>3 DEF FilesByTitle, FetchFail, diskVars
<1>4. ASSUME NEW d \in Downloads, NEW pool \in {"cache", "library"},
     FetchDone(d, pool) PROVE FilesByTitle'
  BY <1>4 DEF FilesByTitle, FetchDone, diskVars, jobVars, removeVars
<1>5. ASSUME NEW d \in Downloads, Promote(d) PROVE FilesByTitle'
  <2>1. BeginEffect(d)
    BY <1>5, BeginDoes
  <2>2. QED
    BY <2>1 DEF BeginEffect, FilesByTitle
<1>6. ASSUME NEW d \in Downloads, Probe(d) PROVE FilesByTitle'
  <2>1. ProbeEffect(d)
    BY <1>6, ProbeDoes
  <2>2. QED
    BY <2>1, Contented, Located, TitleAssumption DEF ProbeEffect, Stays,
         othersVars, FilesByTitle, Completed, Promoting, At, Idle, NoRemoval,
         Contents, SameSize
<1>7. ASSUME NEW d \in Downloads, Copy(d) PROVE FilesByTitle'
  <2>1. CopyEffect(d)
    BY <1>7, CopyDoes
  <2>2. cache[Title[d]] # Nobody => Title[cache[Title[d]]] = Title[d]
    BY Located DEF FilesByTitle
  <2>3. QED BY <2>1, <2>2 DEF CopyEffect, FilesByTitle
<1>8. ASSUME NEW d \in Downloads, Rename(d) PROVE FilesByTitle'
  <2>1. RenameEffect(d)
    BY <1>8, RenameDoes
  <2>2. QED
    BY <2>1 DEF RenameEffect, FilesByTitle, Contents
<1>9. ASSUME NEW d \in Downloads, Update(d) PROVE FilesByTitle'
  <2>1. UpdateEffect(d)
    BY <1>9, UpdateDoes
  <2>2. QED
    BY <2>1 DEF UpdateEffect, FilesByTitle
<1>10. ASSUME NEW d \in Downloads, Unlink(d) PROVE FilesByTitle'
  <2>1. LeaveEffect(d)
    BY <1>10, LeaveDoes
  <2>2. QED
    BY <2>1 DEF LeaveEffect, CacheFreed, FilesByTitle
<1>11. ASSUME NEW d \in Downloads, CopyFails(d) PROVE FilesByTitle'
  <2>1. LeaveEffect(d)
    BY <1>11, LeaveDoes
  <2>2. QED
    BY <2>1 DEF LeaveEffect, CacheFreed, FilesByTitle
<1>12. ASSUME NEW d \in Downloads, RemoveBegin(d) PROVE FilesByTitle'
  BY <1>12 DEF FilesByTitle, Completed, Promoting, RemoveBegin, diskVars
<1>13. ASSUME NEW d \in Downloads, RemoveFile(d) PROVE FilesByTitle'
  <2>1. RemoveEffect(d)
    BY <1>13, RemoveDoes
  <2>2. QED
    BY <2>1 DEF RemoveEffect, CacheFreed, FilesByTitle
<1>14. ASSUME NEW d \in Downloads, RemoveRow(d) PROVE FilesByTitle'
  <2>1. RowEffect(d)
    BY <1>14, RowDoes
  <2>2. QED
    BY <2>1 DEF RowEffect, FilesByTitle
<1>15. CASE ResumeRead
  BY <1>15 DEF FilesByTitle, ResumeRead, diskVars
<1>16. CASE ReconcileRead
  BY <1>16 DEF FilesByTitle, ReconcileRead, diskVars
<1>17. CASE ReconcileJudge
  BY <1>17 DEF Types, FilesByTitle, ReconcileJudge, diskVars
<1>18. ASSUME NEW d \in Downloads, ResumeOne(d) PROVE FilesByTitle'
  <2>1. CASE MayPromote(d)
    <3>1. BeginEffect(d)
      BY <1>18, <2>1, BeginDoes
    <3>2. QED
      BY <3>1 DEF BeginEffect, FilesByTitle
  <2>2. CASE ~MayPromote(d)
    BY <1>18, <2>2 DEF ResumeOne, diskVars, FilesByTitle
  <2>3. QED BY <2>1, <2>2
<1>19. ASSUME NEW d \in Downloads, ReconcileCheck(d) PROVE FilesByTitle'
  BY <1>19 DEF FilesByTitle, ReconcileCheck, diskVars
<1>20. ASSUME NEW d \in Downloads, ReconcileAct(d) PROVE FilesByTitle'
  <2>1. RowEffect(d)
    BY <1>20, RowDoes
  <2>2. QED
    BY <2>1 DEF RowEffect, FilesByTitle
<1>21. CASE SweepRead
  BY <1>21 DEF FilesByTitle, SweepRead, SweepOn
<1>22. CASE SweepRows
  BY <1>22 DEF FilesByTitle, SweepRows, SweepOn
<1>23. ASSUME NEW t \in Titles, SweepFile(t) PROVE FilesByTitle'
  BY <1>23 DEF FilesByTitle, SweepFile, SweepOn
<1>24. ASSUME NEW t \in Titles, AgeFile(t) PROVE FilesByTitle'
  BY <1>24 DEF Types, FilesByTitle, AgeFile
<1>25. ASSUME NEW t \in Titles, NEW k \in Folders, AgePart(t, k) PROVE
     FilesByTitle'
  BY <1>25 DEF FilesByTitle, AgePart
<1>26. ASSUME NEW t \in Titles, NEW k \in Folders, HuskLook(t, k) PROVE
     FilesByTitle'
  BY <1>26 DEF FilesByTitle, HuskLook, diskVars
<1>27. ASSUME NEW t \in Titles, NEW k \in Folders, HuskRemove(t, k) PROVE
     FilesByTitle'
  BY <1>27 DEF FilesByTitle, HuskRemove
<1>28. CASE UNCHANGED vars
  BY <1>28 DEF FilesByTitle, vars, diskVars
<1>29. QED BY <1>1, <1>2, <1>3, <1>4, <1>5, <1>6, <1>7, <1>8, <1>9, <1>10,
     <1>11, <1>12, <1>13, <1>14, <1>15, <1>16, <1>17, <1>18, <1>19, <1>20,
     <1>21, <1>22, <1>23, <1>24, <1>25, <1>26, <1>27, <1>28 DEF Next,
     PromoteStep, Job, Sweep, Remove

(* Promotions and removals start from a completed row, and no status goes back.
   *)
LEMMA NextOnlyFetched ==
  ASSUME Types, OnlyFetched, [Next]_vars
  PROVE  OnlyFetched'
<1>1. CASE Crash
  BY <1>1 DEF OnlyFetched, Fetched, Promoting, Crash
<1>2. ASSUME NEW d \in Downloads, FetchStart(d) PROVE OnlyFetched'
  BY <1>2 DEF OnlyFetched, Fetched, Promoting, FetchStart, removeVars
<1>3. ASSUME NEW d \in Downloads, FetchFail(d) PROVE OnlyFetched'
  BY <1>3 DEF OnlyFetched, Fetched, Promoting, FetchFail, removeVars
<1>4. ASSUME NEW d \in Downloads, NEW pool \in {"cache", "library"},
     FetchDone(d, pool) PROVE OnlyFetched'
  BY <1>4 DEF OnlyFetched, Fetched, Promoting, FetchDone, removeVars
<1>5. ASSUME NEW d \in Downloads, Promote(d) PROVE OnlyFetched'
  <2>1. BeginEffect(d)
    BY <1>5, BeginDoes
  <2>2. QED
    BY <2>1 DEF BeginEffect, Stays, othersVars, OnlyFetched, Fetched,
         Completed, Promoting
<1>6. ASSUME NEW d \in Downloads, Probe(d) PROVE OnlyFetched'
  <2>1. ProbeEffect(d)
    BY <1>6, ProbeDoes
  <2>2. QED
    BY <2>1, Contented, PathsDiffer, Located, Typed DEF ProbeEffect, Stays,
         othersVars, OnlyFetched, Fetched, Completed, Promoting, At, Idle,
         NoRemoval, Contents, SameSize
<1>7. ASSUME NEW d \in Downloads, Copy(d) PROVE OnlyFetched'
  <2>1. CopyEffect(d)
    BY <1>7, CopyDoes
  <2>2. QED
    BY <2>1 DEF CopyEffect, Stays, othersVars, OnlyFetched, Fetched, Promoting,
         At, Idle
<1>8. ASSUME NEW d \in Downloads, Rename(d) PROVE OnlyFetched'
  <2>1. RenameEffect(d)
    BY <1>8, RenameDoes
  <2>2. QED
    BY <2>1 DEF RenameEffect, Stays, othersVars, OnlyFetched, Fetched,
         Promoting, At, Idle
<1>9. ASSUME NEW d \in Downloads, Update(d) PROVE OnlyFetched'
  <2>1. UpdateEffect(d)
    BY <1>9, UpdateDoes
  <2>2. QED
    BY <2>1 DEF UpdateEffect, Stays, othersVars, OnlyFetched, Fetched,
         Promoting, At, Idle
<1>10. ASSUME NEW d \in Downloads, Unlink(d) PROVE OnlyFetched'
  <2>1. LeaveEffect(d)
    BY <1>10, LeaveDoes
  <2>2. QED
    BY <2>1 DEF LeaveEffect, Stays, othersVars, OnlyFetched, Fetched, Promoting
<1>11. ASSUME NEW d \in Downloads, CopyFails(d) PROVE OnlyFetched'
  <2>1. LeaveEffect(d)
    BY <1>11, LeaveDoes
  <2>2. QED
    BY <2>1 DEF LeaveEffect, Stays, othersVars, OnlyFetched, Fetched, Promoting
<1>12. ASSUME NEW d \in Downloads, RemoveBegin(d) PROVE OnlyFetched'
  BY <1>12 DEF OnlyFetched, Fetched, Completed, Promoting, RemoveBegin
<1>13. ASSUME NEW d \in Downloads, RemoveFile(d) PROVE OnlyFetched'
  <2>1. RemoveEffect(d)
    BY <1>13, RemoveDoes
  <2>2. QED
    BY <2>1 DEF RemoveEffect, Stays, othersVars, OnlyFetched, Fetched,
         Promoting
<1>14. ASSUME NEW d \in Downloads, RemoveRow(d) PROVE OnlyFetched'
  <2>1. RowEffect(d)
    BY <1>14, RowDoes
  <2>2. QED
    BY <2>1 DEF RowEffect, Stays, othersVars, OnlyFetched, Fetched, Promoting
<1>15. CASE ResumeRead
  BY <1>15 DEF OnlyFetched, Fetched, Promoting, ResumeRead, removeVars
<1>16. CASE ReconcileRead
  BY <1>16 DEF OnlyFetched, Fetched, Promoting, ReconcileRead, removeVars
<1>17. CASE ReconcileJudge
  BY <1>17 DEF OnlyFetched, Fetched, Promoting, ReconcileJudge, removeVars
<1>18. ASSUME NEW d \in Downloads, ResumeOne(d) PROVE OnlyFetched'
  <2>1. CASE MayPromote(d)
    <3>1. BeginEffect(d)
      BY <1>18, <2>1, BeginDoes
    <3>2. QED
      BY <3>1 DEF BeginEffect, Stays, othersVars, OnlyFetched, Fetched,
           Completed, Promoting
  <2>2. CASE ~MayPromote(d)
    BY <1>18, <2>2 DEF ResumeOne, removeVars, OnlyFetched, Fetched, Promoting
  <2>3. QED BY <2>1, <2>2
<1>19. ASSUME NEW d \in Downloads, ReconcileCheck(d) PROVE OnlyFetched'
  BY <1>19 DEF OnlyFetched, Fetched, Promoting, ReconcileCheck, removeVars
<1>20. ASSUME NEW d \in Downloads, ReconcileAct(d) PROVE OnlyFetched'
  <2>1. RowEffect(d)
    BY <1>20, RowDoes
  <2>2. QED
    BY <2>1 DEF RowEffect, Stays, othersVars, OnlyFetched, Fetched, Promoting
<1>21. CASE SweepRead
  BY <1>21 DEF OnlyFetched, Fetched, Promoting, SweepRead, SweepOn, removeVars
<1>22. CASE SweepRows
  BY <1>22 DEF OnlyFetched, Fetched, Promoting, SweepRows, SweepOn, removeVars
<1>23. ASSUME NEW t \in Titles, SweepFile(t) PROVE OnlyFetched'
  BY <1>23 DEF OnlyFetched, Fetched, Promoting, SweepFile, SweepOn, removeVars
<1>24. ASSUME NEW t \in Titles, AgeFile(t) PROVE OnlyFetched'
  BY <1>24 DEF OnlyFetched, Fetched, Promoting, AgeFile, removeVars
<1>25. ASSUME NEW t \in Titles, NEW k \in Folders, AgePart(t, k) PROVE
     OnlyFetched'
  BY <1>25 DEF OnlyFetched, Fetched, Promoting, AgePart, removeVars
<1>26. ASSUME NEW t \in Titles, NEW k \in Folders, HuskLook(t, k) PROVE
     OnlyFetched'
  BY <1>26 DEF OnlyFetched, Fetched, Promoting, HuskLook, removeVars
<1>27. ASSUME NEW t \in Titles, NEW k \in Folders, HuskRemove(t, k) PROVE
     OnlyFetched'
  BY <1>27 DEF OnlyFetched, Fetched, Promoting, HuskRemove, removeVars
<1>28. CASE UNCHANGED vars
  BY <1>28 DEF OnlyFetched, Fetched, Promoting, vars, removeVars
<1>29. QED BY <1>1, <1>2, <1>3, <1>4, <1>5, <1>6, <1>7, <1>8, <1>9, <1>10,
     <1>11, <1>12, <1>13, <1>14, <1>15, <1>16, <1>17, <1>18, <1>19, <1>20,
     <1>21, <1>22, <1>23, <1>24, <1>25, <1>26, <1>27, <1>28 DEF Next,
     PromoteStep, Job, Sweep, Remove

(* A fetch takes a free name, and nothing but the download that uses a cache
   file writes or unlinks it, save the sweep. *)
LEMMA NextNameUsedOnce ==
  ASSUME Types, OnlyFetched, RowFollows, NameUsedOnce, [Next]_vars
  PROVE  NameUsedOnce'
<1>1. CASE Crash
  BY <1>1, PathsDiffer DEF NameUsedOnce, Uses, Completed, Promoting, NoRemoval,
       Crash, diskVars
<1>2. ASSUME NEW d \in Downloads, FetchStart(d) PROVE NameUsedOnce'
  <2>1. \A e \in Downloads : Title[e] = Title[d] => ~Uses(e)
    BY <1>2, Contented DEF FetchStart, NameFree, Tracked, NameUsedOnce, Uses
  <2>2. \A e \in Downloads : Uses(e)' => Uses(e) \/ e = d
    BY <1>2 DEF FetchStart, Uses, Completed, Promoting, removeVars
  <2>3. \A u \in Titles : cache'[u] = IF u = Title[d] THEN d ELSE cache[u]
    BY <1>2 DEF FetchStart, Types, DiskType
  <2>4. \A e \in Downloads : row'[e].status = "ACTIVE" => row[e].status = "ACTIVE" \/ e = d
    BY <1>2 DEF FetchStart
  <2>5. QED
    BY <1>2, <2>1, <2>2, <2>3, <2>4, Located DEF FetchStart, NameUsedOnce, Uses
<1>3. ASSUME NEW d \in Downloads, FetchFail(d) PROVE NameUsedOnce'
  BY <1>3 DEF NameUsedOnce, Uses, Completed, Promoting, FetchFail, diskVars,
       removeVars
<1>4. ASSUME NEW d \in Downloads, NEW pool \in {"cache", "library"},
     FetchDone(d, pool) PROVE NameUsedOnce'
  BY <1>4 DEF NameUsedOnce, Uses, Completed, Promoting, FetchDone, diskVars,
       removeVars
<1>5. ASSUME NEW d \in Downloads, Promote(d) PROVE NameUsedOnce'
  <2>1. BeginEffect(d)
    BY <1>5, BeginDoes
  <2>2. QED
    BY <2>1 DEF BeginEffect, Stays, NameUsedOnce, Uses, Completed, Promoting
<1>6. ASSUME NEW d \in Downloads, Probe(d) PROVE NameUsedOnce'
  <2>1. ProbeEffect(d)
    BY <1>6, ProbeDoes
  <2>2. \A e \in Downloads : Uses(e)' => Uses(e)
    BY <2>1 DEF ProbeEffect, Stays, Uses, Completed, Promoting, At, Idle
  <2>3. QED BY <2>1, <2>2 DEF ProbeEffect, NameUsedOnce
<1>7. ASSUME NEW d \in Downloads, Copy(d) PROVE NameUsedOnce'
  <2>1. CopyEffect(d)
    BY <1>7, CopyDoes
  <2>2. QED
    BY <2>1 DEF CopyEffect, Stays, NameUsedOnce, Uses, Completed, Promoting,
         At, Idle
<1>8. ASSUME NEW d \in Downloads, Rename(d) PROVE NameUsedOnce'
  <2>1. RenameEffect(d)
    BY <1>8, RenameDoes
  <2>2. QED
    BY <2>1 DEF RenameEffect, Stays, NameUsedOnce, Uses, Completed, Promoting,
         At, Idle
<1>9. ASSUME NEW d \in Downloads, Update(d) PROVE NameUsedOnce'
  <2>1. UpdateEffect(d)
    BY <1>9, UpdateDoes
  <2>2. QED
    BY <2>1 DEF UpdateEffect, Stays, NameUsedOnce, Uses, Completed, Promoting,
         At, Idle
<1>10. ASSUME NEW d \in Downloads, Unlink(d) PROVE NameUsedOnce'
  <2>1. LeaveEffect(d)
    BY <1>10, LeaveDoes
  <2>2. QED
    BY <2>1, Located DEF LeaveEffect, Stays, CacheFreed, OnlyFetched,
         NameUsedOnce, Fetched, Uses, Completed, Promoting
<1>11. ASSUME NEW d \in Downloads, CopyFails(d) PROVE NameUsedOnce'
  <2>1. LeaveEffect(d)
    BY <1>11, LeaveDoes
  <2>2. QED
    BY <2>1, Located DEF LeaveEffect, Stays, CacheFreed, OnlyFetched,
         NameUsedOnce, Fetched, Uses, Completed, Promoting
<1>12. ASSUME NEW d \in Downloads, RemoveBegin(d) PROVE NameUsedOnce'
  BY <1>12 DEF NameUsedOnce, Uses, Completed, Promoting, RemoveBegin, diskVars
<1>13. ASSUME NEW d \in Downloads, RemoveFile(d) PROVE NameUsedOnce'
  <2>1. RemoveEffect(d)
    BY <1>13, RemoveDoes
  <2>2. QED
    BY <2>1, PathsDiffer, Located DEF RemoveEffect, Stays, CacheFreed,
         OnlyFetched, NameUsedOnce, Fetched, Uses, Completed, Promoting,
         NoRemoval
<1>14. ASSUME NEW d \in Downloads, RemoveRow(d) PROVE NameUsedOnce'
  <2>1. RowEffect(d)
    BY <1>14, RowDoes
  <2>2. QED
    BY <2>1, PathsDiffer DEF RowEffect, Stays, NameUsedOnce, Uses, Completed,
         Promoting, NoRemoval
<1>15. CASE ResumeRead
  BY <1>15 DEF NameUsedOnce, Uses, Completed, Promoting, ResumeRead, diskVars,
       removeVars
<1>16. CASE ReconcileRead
  BY <1>16 DEF NameUsedOnce, Uses, Completed, Promoting, ReconcileRead,
       diskVars, removeVars
<1>17. CASE ReconcileJudge
  BY <1>17 DEF NameUsedOnce, Uses, Completed, Promoting, ReconcileJudge,
       diskVars, removeVars
<1>18. ASSUME NEW d \in Downloads, ResumeOne(d) PROVE NameUsedOnce'
  <2>1. CASE MayPromote(d)
    <3>1. BeginEffect(d)
      BY <1>18, <2>1, BeginDoes
    <3>2. QED
      BY <3>1 DEF BeginEffect, Stays, NameUsedOnce, Uses, Completed, Promoting
  <2>2. CASE ~MayPromote(d)
    BY <1>18, <2>2 DEF ResumeOne, diskVars, removeVars, NameUsedOnce, Uses,
         Completed, Promoting
  <2>3. QED BY <2>1, <2>2
<1>19. ASSUME NEW d \in Downloads, ReconcileCheck(d) PROVE NameUsedOnce'
  BY <1>19 DEF NameUsedOnce, Uses, Completed, Promoting, ReconcileCheck,
       diskVars, removeVars
<1>20. ASSUME NEW d \in Downloads, ReconcileAct(d) PROVE NameUsedOnce'
  <2>1. RowEffect(d)
    BY <1>20, RowDoes
  <2>2. QED
    BY <2>1, PathsDiffer DEF RowEffect, Stays, NameUsedOnce, Uses, Completed,
         Promoting, NoRemoval
<1>21. CASE SweepRead
  BY <1>21 DEF NameUsedOnce, Uses, Completed, Promoting, SweepRead, SweepOn,
       removeVars
<1>22. CASE SweepRows
  BY <1>22 DEF NameUsedOnce, Uses, Completed, Promoting, SweepRows, SweepOn,
       removeVars
<1>23. ASSUME NEW t \in Titles, SweepFile(t) PROVE NameUsedOnce'
  BY <1>23 DEF NameUsedOnce, Uses, Completed, Promoting, SweepFile, SweepOn,
       WithinGrace, removeVars
<1>24. ASSUME NEW t \in Titles, AgeFile(t) PROVE NameUsedOnce'
  BY <1>24 DEF NameUsedOnce, Uses, Completed, Promoting, AgeFile, removeVars
<1>25. ASSUME NEW t \in Titles, NEW k \in Folders, AgePart(t, k) PROVE
     NameUsedOnce'
  BY <1>25 DEF NameUsedOnce, Uses, Completed, Promoting, AgePart, removeVars
<1>26. ASSUME NEW t \in Titles, NEW k \in Folders, HuskLook(t, k) PROVE
     NameUsedOnce'
  BY <1>26 DEF NameUsedOnce, Uses, Completed, Promoting, HuskLook, diskVars,
       removeVars
<1>27. ASSUME NEW t \in Titles, NEW k \in Folders, HuskRemove(t, k) PROVE
     NameUsedOnce'
  BY <1>27 DEF NameUsedOnce, Uses, Completed, Promoting, HuskRemove, removeVars
<1>28. CASE UNCHANGED vars
  BY <1>28 DEF NameUsedOnce, Uses, Completed, Promoting, vars, diskVars,
       removeVars
<1>29. QED BY <1>1, <1>2, <1>3, <1>4, <1>5, <1>6, <1>7, <1>8, <1>9, <1>10,
     <1>11, <1>12, <1>13, <1>14, <1>15, <1>16, <1>17, <1>18, <1>19, <1>20,
     <1>21, <1>22, <1>23, <1>24, <1>25, <1>26, <1>27, <1>28 DEF Next,
     PromoteStep, Job, Sweep, Remove

(* The sweep has read the rows after the directory, and spares what is fresh.
   *)
LEMMA NextCacheKept ==
  ASSUME Types, OnlyFetched, NameUsedOnce, RowFollows, CacheKept, [Next]_vars
  PROVE  CacheKept'
<1>1. CASE Crash
  BY <1>1 DEF CacheKept, Completed, Crash, diskVars
<1>2. ASSUME NEW d \in Downloads, FetchStart(d) PROVE CacheKept'
  BY <1>2, Contented DEF CacheKept, Completed, FetchStart, NameFree, sweepVars,
       removeVars
<1>3. ASSUME NEW d \in Downloads, FetchFail(d) PROVE CacheKept'
  BY <1>3 DEF CacheKept, Completed, FetchFail, diskVars, sweepVars, removeVars
<1>4. ASSUME NEW d \in Downloads, NEW pool \in {"cache", "library"},
     FetchDone(d, pool) PROVE CacheKept'
  BY <1>4 DEF NameUsedOnce, CacheKept, Completed, FetchDone, diskVars,
       sweepVars, removeVars
<1>5. ASSUME NEW d \in Downloads, Promote(d) PROVE CacheKept'
  <2>1. BeginEffect(d)
    BY <1>5, BeginDoes
  <2>2. QED
    BY <2>1 DEF BeginEffect, othersVars, CacheKept, Completed
<1>6. ASSUME NEW d \in Downloads, Probe(d) PROVE CacheKept'
  <2>1. ProbeEffect(d)
    BY <1>6, ProbeDoes
  <2>2. QED
    BY <2>1 DEF ProbeEffect, othersVars, CacheKept, Completed
<1>7. ASSUME NEW d \in Downloads, Copy(d) PROVE CacheKept'
  <2>1. CopyEffect(d)
    BY <1>7, CopyDoes
  <2>2. QED
    BY <2>1 DEF CopyEffect, othersVars, CacheKept, Completed
<1>8. ASSUME NEW d \in Downloads, Rename(d) PROVE CacheKept'
  <2>1. RenameEffect(d)
    BY <1>8, RenameDoes
  <2>2. QED
    BY <2>1 DEF RenameEffect, othersVars, CacheKept, Completed
<1>9. ASSUME NEW d \in Downloads, Update(d) PROVE CacheKept'
  <2>1. UpdateEffect(d)
    BY <1>9, UpdateDoes
  <2>0. InLibrary(promo[d].folder) # Cache
    BY PathsDiffer, Typed
  <2>2. \A e \in Downloads : row'[e].path = Cache => row'[e] = row[e]
    BY <2>0, <2>1 DEF UpdateEffect, Stays
  <2>3. QED
    BY <2>1, <2>2 DEF UpdateEffect, CacheKept, Completed, othersVars
<1>10. ASSUME NEW d \in Downloads, Unlink(d) PROVE CacheKept'
  <2>1. LeaveEffect(d)
    BY <1>10, LeaveDoes
  <2>2. QED
    BY <2>1, Located DEF LeaveEffect, othersVars, CacheFreed, NameUsedOnce,
         RowFollows, CacheKept, Uses, Completed
<1>11. ASSUME NEW d \in Downloads, CopyFails(d) PROVE CacheKept'
  <2>1. LeaveEffect(d)
    BY <1>11, LeaveDoes
  <2>2. QED
    BY <2>1, Located DEF LeaveEffect, othersVars, CacheFreed, NameUsedOnce,
         RowFollows, CacheKept, Uses, Completed
<1>12. ASSUME NEW d \in Downloads, RemoveBegin(d) PROVE CacheKept'
  BY <1>12 DEF CacheKept, Completed, RemoveBegin, diskVars, sweepVars
<1>13. ASSUME NEW d \in Downloads, RemoveFile(d) PROVE CacheKept'
  <2>1. RemoveEffect(d) /\ d \in doomed
    BY <1>13, RemoveDoes, Typed DEF RemoveEffect
  <2>2. \A e \in Downloads : Completed(e) /\ row[e].path = Cache /\ e \notin doomed =>
          ~(removal[d].path = Cache /\ Title[e] = Title[d])
    BY <2>1 DEF NameUsedOnce, Uses
  <2>3. QED
    BY <2>1, <2>2, Located DEF RemoveEffect, CacheFreed, CacheKept, Completed,
         othersVars
<1>14. ASSUME NEW d \in Downloads, RemoveRow(d) PROVE CacheKept'
  <2>1. RowEffect(d)
    BY <1>14, RowDoes
  <2>2. QED
    BY <2>1 DEF RowEffect, Stays, othersVars, CacheKept, Completed
<1>15. CASE ResumeRead
  BY <1>15 DEF CacheKept, Completed, ResumeRead, diskVars, sweepVars,
       removeVars
<1>16. CASE ReconcileRead
  BY <1>16 DEF CacheKept, Completed, ReconcileRead, diskVars, sweepVars,
       removeVars
<1>17. CASE ReconcileJudge
  BY <1>17 DEF CacheKept, Completed, ReconcileJudge, diskVars, sweepVars,
       removeVars
<1>18. ASSUME NEW d \in Downloads, ResumeOne(d) PROVE CacheKept'
  <2>1. CASE MayPromote(d)
    <3>1. BeginEffect(d)
      BY <1>18, <2>1, BeginDoes
    <3>2. QED
      BY <3>1 DEF BeginEffect, othersVars, CacheKept, Completed
  <2>2. CASE ~MayPromote(d)
    BY <1>18, <2>2 DEF ResumeOne, diskVars, sweepVars, removeVars, CacheKept,
         Completed
  <2>3. QED BY <2>1, <2>2
<1>19. ASSUME NEW d \in Downloads, ReconcileCheck(d) PROVE CacheKept'
  BY <1>19 DEF CacheKept, Completed, ReconcileCheck, diskVars, sweepVars,
       removeVars
<1>20. ASSUME NEW d \in Downloads, ReconcileAct(d) PROVE CacheKept'
  <2>1. RowEffect(d)
    BY <1>20, RowDoes
  <2>2. QED
    BY <2>1 DEF RowEffect, Stays, othersVars, CacheKept, Completed
<1>21. CASE SweepRead
  BY <1>21 DEF CacheKept, Completed, SweepRead, SweepOn, removeVars
<1>22. CASE SweepRows
  BY <1>22 DEF CacheKept, Tracked, Completed, SweepRows, SweepOn, Kept,
       removeVars
<1>23. ASSUME NEW t \in Titles, SweepFile(t) PROVE CacheKept'
  BY <1>23 DEF CacheKept, Completed, SweepFile, SweepOn, WithinGrace,
       removeVars
<1>24. ASSUME NEW t \in Titles, AgeFile(t) PROVE CacheKept'
  BY <1>24 DEF CacheKept, Completed, AgeFile, sweepVars, removeVars
<1>25. ASSUME NEW t \in Titles, NEW k \in Folders, AgePart(t, k) PROVE
     CacheKept'
  BY <1>25 DEF CacheKept, Completed, AgePart, sweepVars, removeVars
<1>26. ASSUME NEW t \in Titles, NEW k \in Folders, HuskLook(t, k) PROVE
     CacheKept'
  BY <1>26 DEF CacheKept, Completed, HuskLook, diskVars, sweepVars, removeVars
<1>27. ASSUME NEW t \in Titles, NEW k \in Folders, HuskRemove(t, k) PROVE
     CacheKept'
  BY <1>27 DEF CacheKept, Completed, HuskRemove, sweepVars, removeVars
<1>28. CASE UNCHANGED vars
  BY <1>28 DEF CacheKept, Completed, vars, diskVars, sweepVars, removeVars
<1>29. QED BY <1>1, <1>2, <1>3, <1>4, <1>5, <1>6, <1>7, <1>8, <1>9, <1>10,
     <1>11, <1>12, <1>13, <1>14, <1>15, <1>16, <1>17, <1>18, <1>19, <1>20,
     <1>21, <1>22, <1>23, <1>24, <1>25, <1>26, <1>27, <1>28 DEF Next,
     PromoteStep, Job, Sweep, Remove

(* A row leaves the cache for good, in the step after which only the unlink
   remains. *)
LEMMA NextRowFollows ==
  ASSUME Types, OnlyFetched, RowFollows, [Next]_vars
  PROVE  RowFollows'
<1>1. CASE Crash
  BY <1>1, PathsDiffer DEF RowFollows, At, Idle, NoRemoval, Crash
<1>2. ASSUME NEW d \in Downloads, FetchStart(d) PROVE RowFollows'
  BY <1>2 DEF RowFollows, At, FetchStart, removeVars
<1>3. ASSUME NEW d \in Downloads, FetchFail(d) PROVE RowFollows'
  BY <1>3 DEF RowFollows, At, FetchFail, removeVars
<1>4. ASSUME NEW d \in Downloads, NEW pool \in {"cache", "library"},
     FetchDone(d, pool) PROVE RowFollows'
  BY <1>4, PathsDiffer DEF OnlyFetched, RowFollows, Fetched, Promoting, At,
       Idle, NoRemoval, FetchDone, removeVars
<1>5. ASSUME NEW d \in Downloads, Promote(d) PROVE RowFollows'
  <2>1. BeginEffect(d)
    BY <1>5, BeginDoes
  <2>2. QED
    BY <2>1, PathsDiffer DEF BeginEffect, Stays, RowFollows, At
<1>6. ASSUME NEW d \in Downloads, Probe(d) PROVE RowFollows'
  <2>1. ProbeEffect(d)
    BY <1>6, ProbeDoes
  <2>2. QED
    BY <2>1 DEF ProbeEffect, Stays, OnlyFetched, RowFollows, Fetched,
         Completed, Promoting, At, Idle, NoRemoval, Contents
<1>7. ASSUME NEW d \in Downloads, Copy(d) PROVE RowFollows'
  <2>1. CopyEffect(d)
    BY <1>7, CopyDoes
  <2>2. QED
    BY <2>1 DEF CopyEffect, Stays, RowFollows, At, Idle
<1>8. ASSUME NEW d \in Downloads, Rename(d) PROVE RowFollows'
  <2>1. RenameEffect(d)
    BY <1>8, RenameDoes
  <2>2. QED
    BY <2>1 DEF RenameEffect, Stays, RowFollows, At, Idle
<1>9. ASSUME NEW d \in Downloads, Update(d) PROVE RowFollows'
  <2>1. UpdateEffect(d)
    BY <1>9, UpdateDoes
  <2>2. removal[d].path \notin LibraryPaths
    BY <2>1 DEF UpdateEffect, RowFollows, At
  <2>3. ASSUME NEW e \in Downloads, e # d
       PROVE row'[e] = row[e] /\ promo'[e] = promo[e] /\ removal'[e] = removal[e]
    BY <2>1, <2>3 DEF UpdateEffect, Stays
  <2>4. \/ row'[d] = row[d] /\ promo'[d] = Idle
        \/ row'[d].path \in LibraryPaths /\ promo'[d].pc = "unlink"
    BY <2>1, PathsDiffer, Typed DEF UpdateEffect
  <2>5. removal'[d] = removal[d]
    BY <2>1 DEF UpdateEffect
  <2>6. QED
    BY <2>2, <2>3, <2>4, <2>5, PathsDiffer DEF RowFollows, At, Idle
<1>10. ASSUME NEW d \in Downloads, Unlink(d) PROVE RowFollows'
  <2>1. LeaveEffect(d)
    BY <1>10, LeaveDoes
  <2>2. QED
    BY <2>1 DEF LeaveEffect, Stays, RowFollows, At, Idle
<1>11. ASSUME NEW d \in Downloads, CopyFails(d) PROVE RowFollows'
  <2>1. LeaveEffect(d)
    BY <1>11, LeaveDoes
  <2>2. QED
    BY <2>1 DEF LeaveEffect, Stays, RowFollows, At, Idle
<1>12. ASSUME NEW d \in Downloads, RemoveBegin(d) PROVE RowFollows'
  BY <1>12, PathsDiffer DEF Types, PromoType, RowFollows, At, RemoveBegin
<1>13. ASSUME NEW d \in Downloads, RemoveFile(d) PROVE RowFollows'
  <2>1. RemoveEffect(d)
    BY <1>13, RemoveDoes
  <2>2. QED
    BY <2>1, PathsDiffer DEF RemoveEffect, Stays, RowFollows, At, NoRemoval
<1>14. ASSUME NEW d \in Downloads, RemoveRow(d) PROVE RowFollows'
  <2>1. RowEffect(d)
    BY <1>14, RowDoes
  <2>2. QED
    BY <2>1, PathsDiffer DEF RowEffect, Stays, RowFollows, At, NoRemoval
<1>15. CASE ResumeRead
  BY <1>15 DEF RowFollows, At, ResumeRead, removeVars
<1>16. CASE ReconcileRead
  BY <1>16 DEF RowFollows, At, ReconcileRead, removeVars
<1>17. CASE ReconcileJudge
  BY <1>17 DEF RowFollows, At, ReconcileJudge, removeVars
<1>18. ASSUME NEW d \in Downloads, ResumeOne(d) PROVE RowFollows'
  <2>1. CASE MayPromote(d)
    <3>1. BeginEffect(d)
      BY <1>18, <2>1, BeginDoes
    <3>2. QED
      BY <3>1, PathsDiffer DEF BeginEffect, Stays, RowFollows, At
  <2>2. CASE ~MayPromote(d)
    BY <1>18, <2>2 DEF ResumeOne, removeVars, RowFollows, At
  <2>3. QED BY <2>1, <2>2
<1>19. ASSUME NEW d \in Downloads, ReconcileCheck(d) PROVE RowFollows'
  BY <1>19 DEF RowFollows, At, ReconcileCheck, removeVars
<1>20. ASSUME NEW d \in Downloads, ReconcileAct(d) PROVE RowFollows'
  <2>1. RowEffect(d)
    BY <1>20, RowDoes
  <2>2. QED
    BY <2>1, PathsDiffer DEF RowEffect, Stays, RowFollows, At, NoRemoval
<1>21. CASE SweepRead
  BY <1>21 DEF RowFollows, At, SweepRead, SweepOn, removeVars
<1>22. CASE SweepRows
  BY <1>22 DEF RowFollows, At, SweepRows, SweepOn, removeVars
<1>23. ASSUME NEW t \in Titles, SweepFile(t) PROVE RowFollows'
  BY <1>23 DEF RowFollows, At, SweepFile, SweepOn, removeVars
<1>24. ASSUME NEW t \in Titles, AgeFile(t) PROVE RowFollows'
  BY <1>24 DEF RowFollows, At, AgeFile, removeVars
<1>25. ASSUME NEW t \in Titles, NEW k \in Folders, AgePart(t, k) PROVE
     RowFollows'
  BY <1>25 DEF RowFollows, At, AgePart, removeVars
<1>26. ASSUME NEW t \in Titles, NEW k \in Folders, HuskLook(t, k) PROVE
     RowFollows'
  BY <1>26 DEF RowFollows, At, HuskLook, removeVars
<1>27. ASSUME NEW t \in Titles, NEW k \in Folders, HuskRemove(t, k) PROVE
     RowFollows'
  BY <1>27 DEF RowFollows, At, HuskRemove, removeVars
<1>28. CASE UNCHANGED vars
  BY <1>28 DEF RowFollows, At, vars, removeVars
<1>29. QED BY <1>1, <1>2, <1>3, <1>4, <1>5, <1>6, <1>7, <1>8, <1>9, <1>10,
     <1>11, <1>12, <1>13, <1>14, <1>15, <1>16, <1>17, <1>18, <1>19, <1>20,
     <1>21, <1>22, <1>23, <1>24, <1>25, <1>26, <1>27, <1>28 DEF Next,
     PromoteStep, Job, Sweep, Remove

(* What a promotion found or made stays, as the others of its title are not
   under way. *)
LEMMA NextFolderHeld ==
  ASSUME Types, FilesByTitle, OnlyFetched, NameUsedOnce, RowFollows,
       LibraryKept, FolderHeld, [Next]_vars
  PROVE  FolderHeld'
<1>1. CASE Crash
  BY <1>1 DEF FolderHeld, Held, At, Idle, Crash
<1>2. ASSUME NEW d \in Downloads, FetchStart(d) PROVE FolderHeld'
  BY <1>2 DEF FolderHeld, Held, Sound, At, FetchStart, removeVars
<1>3. ASSUME NEW d \in Downloads, FetchFail(d) PROVE FolderHeld'
  BY <1>3 DEF FolderHeld, Held, Sound, At, FetchFail, diskVars, removeVars
<1>4. ASSUME NEW d \in Downloads, NEW pool \in {"cache", "library"},
     FetchDone(d, pool) PROVE FolderHeld'
  BY <1>4 DEF FolderHeld, Held, Sound, At, FetchDone, diskVars, removeVars
<1>5. ASSUME NEW d \in Downloads, Promote(d) PROVE FolderHeld'
  <2>1. BeginEffect(d)
    BY <1>5, BeginDoes
  <2>2. QED
    BY <2>1 DEF BeginEffect, Stays, othersVars, FolderHeld, Held, Sound, At
<1>6. ASSUME NEW d \in Downloads, Probe(d) PROVE FolderHeld'
  <2>1. ProbeEffect(d)
    BY <1>6, ProbeDoes
  <2>2. ASSUME NEW e \in Downloads, e # d PROVE Held(e)'
    BY <2>1, <2>2 DEF ProbeEffect, Stays, Held, FolderHeld, Sound, At,
         othersVars
  <2>3. Held(d)'
    <3>1. SameSize(media[Title[d]][promo[d].folder], cache[Title[d]]) =>
            media[Title[d]][promo[d].folder] = d
      BY <2>1, Located, SameFile DEF ProbeEffect, Promoting, At, Idle
    <3>2. QED BY <2>1, <3>1 DEF ProbeEffect, Held, At, Idle
  <2>4. QED BY <2>2, <2>3 DEF FolderHeld
<1>7. ASSUME NEW d \in Downloads, Copy(d) PROVE FolderHeld'
  <2>1. CopyEffect(d)
    BY <1>7, CopyDoes
  <2>2. ASSUME NEW e \in Downloads, e # d PROVE Held(e)'
    <3>1. Promoting(e) => Title[e] # Title[d]
      BY <2>1, <2>2, OnePromotion DEF CopyEffect, Promoting, At, Idle
    <3>2. promo'[e] = promo[e] /\ media' = media /\ doomed' = doomed
      BY <2>1, <2>2 DEF CopyEffect, Stays, othersVars
    <3>3. Promoting(e) => part'[Title[e]][promo[e].folder] = part[Title[e]][promo[e].folder]
      BY <2>1, <3>1, Located DEF CopyEffect
    <3>4. QED
      BY <3>2, <3>3 DEF Held, FolderHeld, Sound, At, Promoting, Idle
  <2>3. Held(d)'
    <3>1. cache[Title[d]] \in {d, Nobody}
      BY <2>1 DEF CopyEffect, NameUsedOnce, Uses, Promoting, At, Idle
    <3>2. media[Title[d]][promo[d].folder] = Nobody
      BY <2>1 DEF CopyEffect, FolderHeld, Held, At
    <3>3. QED
      BY <2>1, <3>1, <3>2, Located DEF CopyEffect, Held, At, Idle
  <2>4. QED BY <2>2, <2>3 DEF FolderHeld
<1>8. ASSUME NEW d \in Downloads, Rename(d) PROVE FolderHeld'
  <2>1. RenameEffect(d)
    BY <1>8, RenameDoes
  <2>2. ASSUME NEW e \in Downloads, e # d PROVE Held(e)'
    <3>1. Promoting(e) => Title[e] # Title[d]
      BY <2>1, <2>2, OnePromotion DEF RenameEffect, Promoting, At, Idle
    <3>2. promo'[e] = promo[e] /\ doomed' = doomed
      BY <2>1, <2>2 DEF RenameEffect, Stays, othersVars
    <3>3. Promoting(e) =>
            /\ part'[Title[e]][promo[e].folder] = part[Title[e]][promo[e].folder]
            /\ media'[Title[e]][promo[e].folder] = media[Title[e]][promo[e].folder]
      BY <2>1, <3>1, Located DEF RenameEffect
    <3>4. QED
      BY <3>2, <3>3 DEF Held, FolderHeld, Sound, At, Promoting, Idle
  <2>3. Held(d)'
    <3>1. part[Title[d]][promo[d].folder] \in {d, Nobody}
      BY <2>1 DEF RenameEffect, FolderHeld, Held
    <3>2. QED BY <2>1, <3>1, Located DEF RenameEffect, Held, At, Idle
  <2>4. QED BY <2>2, <2>3 DEF FolderHeld
<1>9. ASSUME NEW d \in Downloads, Update(d) PROVE FolderHeld'
  <2>1. UpdateEffect(d)
    BY <1>9, UpdateDoes
  <2>2. QED
    BY <2>1 DEF UpdateEffect, Stays, othersVars, FolderHeld, Held, Sound, At,
         Idle
<1>10. ASSUME NEW d \in Downloads, Unlink(d) PROVE FolderHeld'
  <2>1. LeaveEffect(d)
    BY <1>10, LeaveDoes
  <2>2. QED
    BY <2>1 DEF LeaveEffect, Stays, othersVars, FolderHeld, Held, Sound, At,
         Idle
<1>11. ASSUME NEW d \in Downloads, CopyFails(d) PROVE FolderHeld'
  <2>1. LeaveEffect(d)
    BY <1>11, LeaveDoes
  <2>2. QED
    BY <2>1 DEF LeaveEffect, Stays, othersVars, FolderHeld, Held, Sound, At,
         Idle
<1>12. ASSUME NEW d \in Downloads, RemoveBegin(d) PROVE FolderHeld'
  BY <1>12 DEF FolderHeld, Held, Sound, At, RemoveBegin, diskVars
<1>13. ASSUME NEW d \in Downloads, RemoveFile(d) PROVE FolderHeld'
  <2>1. RemoveEffect(d)
    BY <1>13, RemoveDoes
  <2>2. SUFFICES ASSUME NEW e \in Downloads PROVE Held(e)'
    BY DEF FolderHeld
  <2>3. promo' = promo /\ part' = part /\ doomed' = doomed
    BY <2>1 DEF RemoveEffect, othersVars
  <2>4. media[Title[e]][promo[e].folder] = Nobody =>
          media'[Title[e]][promo[e].folder] = Nobody
    BY <2>1, Located DEF RemoveEffect
  <2>5. ASSUME At(e, "update"), Sound PROVE media'[Title[e]][promo[e].folder] = e
    <3>1. media[Title[e]][promo[e].folder] = e
      BY <2>5 DEF FolderHeld, Held
    <3>2. CASE removal[d].path = InLibrary(promo[e].folder) /\ Title[d] = Title[e]
      <4>1. removal[d] = [pc |-> "file", path |-> InLibrary(promo[e].folder)]
        BY <2>1, <3>2, Typed DEF RemoveEffect
      <4>2. media[Title[d]][promo[e].folder] = d
        BY <2>5, <4>1, Located DEF LibraryKept
      <4>3. promo[d].pc \in {"idle", "unlink"}
        BY <3>2, Located, PathsDiffer DEF RowFollows
      <4>4. QED BY <2>5, <3>1, <3>2, <4>2, <4>3 DEF At
    <3>3. CASE ~(removal[d].path = InLibrary(promo[e].folder) /\ Title[d] = Title[e])
      BY <2>1, <3>1, <3>3, Located DEF RemoveEffect
    <3>4. QED BY <3>2, <3>3
  <2>6. QED BY <2>3, <2>4, <2>5 DEF FolderHeld, Held, Sound, At
<1>14. ASSUME NEW d \in Downloads, RemoveRow(d) PROVE FolderHeld'
  <2>1. RowEffect(d)
    BY <1>14, RowDoes
  <2>2. QED
    BY <2>1 DEF RowEffect, othersVars, FolderHeld, Held, Sound, At
<1>15. CASE ResumeRead
  BY <1>15 DEF FolderHeld, Held, Sound, At, ResumeRead, diskVars, removeVars
<1>16. CASE ReconcileRead
  BY <1>16 DEF FolderHeld, Held, Sound, At, ReconcileRead, diskVars, removeVars
<1>17. CASE ReconcileJudge
  BY <1>17 DEF FolderHeld, Held, Sound, At, ReconcileJudge, diskVars,
       removeVars
<1>18. ASSUME NEW d \in Downloads, ResumeOne(d) PROVE FolderHeld'
  <2>1. CASE MayPromote(d)
    <3>1. BeginEffect(d)
      BY <1>18, <2>1, BeginDoes
    <3>2. QED
      BY <3>1 DEF BeginEffect, Stays, othersVars, FolderHeld, Held, Sound, At
  <2>2. CASE ~MayPromote(d)
    BY <1>18, <2>2 DEF ResumeOne, diskVars, removeVars, FolderHeld, Held,
         Sound, At
  <2>3. QED BY <2>1, <2>2
<1>19. ASSUME NEW d \in Downloads, ReconcileCheck(d) PROVE FolderHeld'
  BY <1>19 DEF FolderHeld, Held, Sound, At, ReconcileCheck, diskVars,
       removeVars
<1>20. ASSUME NEW d \in Downloads, ReconcileAct(d) PROVE FolderHeld'
  <2>1. RowEffect(d)
    BY <1>20, RowDoes
  <2>2. QED
    BY <2>1 DEF RowEffect, othersVars, FolderHeld, Held, Sound, At
<1>21. CASE SweepRead
  BY <1>21 DEF FolderHeld, Held, Sound, At, SweepRead, SweepOn, removeVars
<1>22. CASE SweepRows
  BY <1>22 DEF FolderHeld, Held, Sound, At, SweepRows, SweepOn, removeVars
<1>23. ASSUME NEW t \in Titles, SweepFile(t) PROVE FolderHeld'
  BY <1>23 DEF FolderHeld, Held, Sound, At, SweepFile, SweepOn, removeVars
<1>24. ASSUME NEW t \in Titles, AgeFile(t) PROVE FolderHeld'
  BY <1>24 DEF FolderHeld, Held, Sound, At, AgeFile, removeVars
<1>25. ASSUME NEW t \in Titles, NEW k \in Folders, AgePart(t, k) PROVE
     FolderHeld'
  BY <1>25 DEF FolderHeld, Held, Sound, At, AgePart, removeVars
<1>26. ASSUME NEW t \in Titles, NEW k \in Folders, HuskLook(t, k) PROVE
     FolderHeld'
  BY <1>26 DEF FolderHeld, Held, Sound, At, HuskLook, diskVars, removeVars
<1>27. ASSUME NEW t \in Titles, NEW k \in Folders, HuskRemove(t, k) PROVE
     FolderHeld'
  BY <1>27 DEF FolderHeld, Held, Sound, At, HuskRemove, removeVars
<1>28. CASE UNCHANGED vars
  BY <1>28 DEF FolderHeld, Held, Sound, At, vars, diskVars, removeVars
<1>29. QED BY <1>1, <1>2, <1>3, <1>4, <1>5, <1>6, <1>7, <1>8, <1>9, <1>10,
     <1>11, <1>12, <1>13, <1>14, <1>15, <1>16, <1>17, <1>18, <1>19, <1>20,
     <1>21, <1>22, <1>23, <1>24, <1>25, <1>26, <1>27, <1>28 DEF Next,
     PromoteStep, Job, Sweep, Remove

(* The row is written after the rename, and a removal takes the file of its own
   download. *)
LEMMA NextLibraryKept ==
  ASSUME Types, OnlyFetched, NameUsedOnce, RowFollows, FolderHeld, LibraryKept,
       [Next]_vars
  PROVE  LibraryKept'
<1>1. CASE Crash
  <2>1. SUFFICES ASSUME Sound PROVE LibraryKept'
    BY <1>1 DEF Crash, LibraryKept, Sound
  <2>2. \A d \in Downloads : removal[d].pc # "row"
    <3>1. CASE "crash" \notin Overlap
      BY <1>1, <3>1 DEF Crash
    <3>2. CASE doomed = {}
      <4>1. \A d \in Downloads : removal[d] = NoRemoval
        BY <3>2, Typed
      <4>2. QED BY <4>1 DEF NoRemoval
    <3>3. QED BY <2>1, <3>1, <3>2 DEF Sound
  <2>3. \A d \in Downloads : removal'[d] = NoRemoval
    BY <1>1 DEF Crash
  <2>4. QED
    BY <1>1, <2>1, <2>2, <2>3 DEF Crash, diskVars, LibraryKept, Completed,
         NoRemoval
<1>2. ASSUME NEW d \in Downloads, FetchStart(d) PROVE LibraryKept'
  BY <1>2 DEF LibraryKept, Sound, Completed, FetchStart, removeVars
<1>3. ASSUME NEW d \in Downloads, FetchFail(d) PROVE LibraryKept'
  BY <1>3 DEF LibraryKept, Sound, Completed, FetchFail, diskVars, removeVars
<1>4. ASSUME NEW d \in Downloads, NEW pool \in {"cache", "library"},
     FetchDone(d, pool) PROVE LibraryKept'
  BY <1>4, PathsDiffer DEF OnlyFetched, FolderHeld, LibraryKept, Fetched,
       Sound, Completed, FetchDone, diskVars, removeVars
<1>5. ASSUME NEW d \in Downloads, Promote(d) PROVE LibraryKept'
  <2>1. BeginEffect(d)
    BY <1>5, BeginDoes
  <2>2. QED
    BY <2>1 DEF BeginEffect, LibraryKept, Sound, Completed, othersVars
<1>6. ASSUME NEW d \in Downloads, Probe(d) PROVE LibraryKept'
  <2>1. ProbeEffect(d)
    BY <1>6, ProbeDoes
  <2>2. QED
    BY <2>1 DEF ProbeEffect, LibraryKept, Sound, Completed, othersVars
<1>7. ASSUME NEW d \in Downloads, Copy(d) PROVE LibraryKept'
  <2>1. CopyEffect(d)
    BY <1>7, CopyDoes
  <2>2. QED
    BY <2>1 DEF CopyEffect, LibraryKept, Sound, Completed, othersVars
<1>8. ASSUME NEW d \in Downloads, Rename(d) PROVE LibraryKept'
  <2>1. RenameEffect(d)
    BY <1>8, RenameDoes
  <2>2. ASSUME NEW u \in Titles, NEW i \in Folders, media[u][i] # Nobody
        PROVE  media'[u][i] = media[u][i]
    BY <2>1, <2>2 DEF RenameEffect, FolderHeld, Held, At
  <2>3. row' = row /\ removal' = removal /\ doomed' = doomed
    BY <2>1 DEF RenameEffect, othersVars
  <2>4. SUFFICES ASSUME Sound PROVE LibraryKept'
    BY <2>3 DEF LibraryKept, Sound
  <2>5. ASSUME NEW e \in Downloads, NEW k \in Folders, media[Title[e]][k] = e
        PROVE  media'[Title[e]][k] = e
    BY <2>2, <2>5, Located, Contented
  <2>6. QED BY <2>3, <2>4, <2>5 DEF LibraryKept, Completed
<1>9. ASSUME NEW d \in Downloads, Update(d) PROVE LibraryKept'
  <2>1. UpdateEffect(d)
    BY <1>9, UpdateDoes
  <2>2. media' = media /\ removal' = removal /\ doomed' = doomed
    BY <2>1 DEF UpdateEffect, othersVars
  <2>3. Sound => media[Title[d]][promo[d].folder] = d
    BY <2>1 DEF UpdateEffect, FolderHeld, Held
  <2>4. ASSUME NEW e \in Downloads, NEW k \in Folders, Completed(e)',
                 row'[e].path = InLibrary(k)
        PROVE  \/ Completed(e) /\ row[e].path = InLibrary(k)
               \/ e = d /\ k = promo[d].folder
    BY <2>1, <2>4, Located, PathsDiffer DEF UpdateEffect, Stays, Completed
  <2>5. QED BY <2>2, <2>3, <2>4 DEF LibraryKept, Sound
<1>10. ASSUME NEW d \in Downloads, Unlink(d) PROVE LibraryKept'
  <2>1. LeaveEffect(d)
    BY <1>10, LeaveDoes
  <2>2. QED
    BY <2>1 DEF LeaveEffect, othersVars, FolderHeld, LibraryKept, Held, Sound,
         Completed
<1>11. ASSUME NEW d \in Downloads, CopyFails(d) PROVE LibraryKept'
  <2>1. LeaveEffect(d)
    BY <1>11, LeaveDoes
  <2>2. QED
    BY <2>1 DEF LeaveEffect, othersVars, LibraryKept, Sound, Completed,
         NoRemoval
<1>12. ASSUME NEW d \in Downloads, RemoveBegin(d) PROVE LibraryKept'
  BY <1>12 DEF Types, RowFollows, LibraryKept, Sound, Completed, NoRemoval,
       RemoveBegin, diskVars
<1>13. ASSUME NEW d \in Downloads, RemoveFile(d) PROVE LibraryKept'
  <2>1. RemoveEffect(d)
    BY <1>13, RemoveDoes
  <2>2. SUFFICES ASSUME Sound PROVE LibraryKept'
    BY <2>1 DEF RemoveEffect, LibraryKept, Sound, othersVars
  <2>3. \A k \in Folders : removal[d].path = InLibrary(k) => media[Title[d]][k] = d
    BY <2>1, <2>2, Typed DEF RemoveEffect, LibraryKept
  <2>4. ASSUME NEW e \in Downloads, NEW k \in Folders, e # d, media[Title[e]][k] = e
        PROVE  media'[Title[e]][k] = e
    BY <2>1, <2>3, <2>4, Located DEF RemoveEffect
  <2>5. ASSUME NEW k \in Folders, media[Title[d]][k] = d, removal[d].path # InLibrary(k)
        PROVE  media'[Title[d]][k] = d
    BY <2>1, <2>5, Located DEF RemoveEffect
  <2>6. ASSUME NEW k \in Folders, removal[d].path = InLibrary(k)
        PROVE  removal'[d] = [pc |-> "row", path |-> InLibrary(k)]
    <3>1. FileAt(d, removal[d].path) = d
      BY <2>3, <2>6, PathsDiffer DEF FileAt
    <3>2. QED BY <2>1, <2>6, <3>1, Contented DEF RemoveEffect
  <2>7. /\ row' = row /\ \A e \in Downloads : e # d => removal'[e] = removal[e]
        /\ removal'[d].pc # "file" /\ removal[d].pc # "row"
    BY <2>1 DEF RemoveEffect, Stays, NoRemoval
  <2>8. QED BY <2>2, <2>4, <2>5, <2>6, <2>7 DEF LibraryKept, Completed
<1>14. ASSUME NEW d \in Downloads, RemoveRow(d) PROVE LibraryKept'
  <2>1. RowEffect(d)
    BY <1>14, RowDoes
  <2>2. \A e \in Downloads : Completed(e)' =>
          e # d /\ row'[e] = row[e] /\ removal'[e] = removal[e]
    BY <2>1 DEF RowEffect, Stays, Completed
  <2>3. \A e \in Downloads, k \in Folders :
          removal'[e] = [pc |-> "file", path |-> InLibrary(k)] => removal[e] = removal'[e]
    BY <2>1 DEF RowEffect, Stays, NoRemoval
  <2>4. QED
    BY <2>1, <2>2, <2>3 DEF RowEffect, LibraryKept, Sound, Completed,
         othersVars
<1>15. CASE ResumeRead
  BY <1>15 DEF OnlyFetched, LibraryKept, Sound, Completed, ResumeRead,
       diskVars, removeVars
<1>16. CASE ReconcileRead
  BY <1>16 DEF LibraryKept, Sound, Completed, ReconcileRead, diskVars,
       sweepVars, removeVars
<1>17. CASE ReconcileJudge
  BY <1>17 DEF LibraryKept, Sound, Completed, ReconcileJudge, ActOn, diskVars,
       removeVars
<1>18. ASSUME NEW d \in Downloads, ResumeOne(d) PROVE LibraryKept'
  <2>1. UNCHANGED <<row, media, removal, doomed>>
    BY <1>18 DEF ResumeOne, diskVars, removeVars
  <2>2. QED BY <2>1 DEF LibraryKept, Sound, Completed
<1>19. ASSUME NEW d \in Downloads, ReconcileCheck(d) PROVE LibraryKept'
  BY <1>19 DEF LibraryKept, Sound, Completed, ReconcileCheck, diskVars,
       removeVars
<1>20. ASSUME NEW d \in Downloads, ReconcileAct(d) PROVE LibraryKept'
  <2>1. RowEffect(d)
    BY <1>20, RowDoes
  <2>2. \A e \in Downloads : Completed(e)' =>
          e # d /\ row'[e] = row[e] /\ removal'[e] = removal[e]
    BY <2>1 DEF RowEffect, Stays, Completed
  <2>3. \A e \in Downloads, k \in Folders :
          removal'[e] = [pc |-> "file", path |-> InLibrary(k)] => removal[e] = removal'[e]
    BY <2>1 DEF RowEffect, Stays, NoRemoval
  <2>4. QED
    BY <2>1, <2>2, <2>3 DEF RowEffect, LibraryKept, Sound, Completed,
         othersVars
<1>21. CASE SweepRead
  BY <1>21 DEF LibraryKept, Sound, Completed, SweepRead, SweepOn, removeVars
<1>22. CASE SweepRows
  BY <1>22 DEF LibraryKept, Sound, Completed, SweepRows, SweepOn, removeVars
<1>23. ASSUME NEW t \in Titles, SweepFile(t) PROVE LibraryKept'
  <2>1. UNCHANGED <<row, media, removal, doomed>>
    BY <1>23 DEF SweepFile, SweepOn, removeVars
  <2>2. QED BY <2>1 DEF LibraryKept, Sound, Completed
<1>24. ASSUME NEW t \in Titles, AgeFile(t) PROVE LibraryKept'
  BY <1>24 DEF LibraryKept, Sound, Completed, AgeFile, removeVars
<1>25. ASSUME NEW t \in Titles, NEW k \in Folders, AgePart(t, k) PROVE
     LibraryKept'
  BY <1>25 DEF LibraryKept, Sound, Completed, AgePart, removeVars
<1>26. ASSUME NEW t \in Titles, NEW k \in Folders, HuskLook(t, k) PROVE
     LibraryKept'
  BY <1>26 DEF RowFollows, LibraryKept, Sound, Completed, HuskLook, diskVars,
       removeVars
<1>27. ASSUME NEW t \in Titles, NEW k \in Folders, HuskRemove(t, k) PROVE
     LibraryKept'
  BY <1>27 DEF LibraryKept, Sound, Completed, HuskRemove, removeVars
<1>28. CASE UNCHANGED vars
  BY <1>28 DEF LibraryKept, Sound, Completed, vars, diskVars, removeVars
<1>29. QED BY <1>1, <1>2, <1>3, <1>4, <1>5, <1>6, <1>7, <1>8, <1>9, <1>10,
     <1>11, <1>12, <1>13, <1>14, <1>15, <1>16, <1>17, <1>18, <1>19, <1>20,
     <1>21, <1>22, <1>23, <1>24, <1>25, <1>26, <1>27, <1>28 DEF Next,
     PromoteStep, Job, Sweep, Remove

(* A promotion takes the first folder that is free. *)
LEMMA NextInOrder ==
  ASSUME Types, FilesByTitle, OnlyFetched, NameUsedOnce, FolderHeld, InOrder,
       [Next]_vars
  PROVE  InOrder'
<1>1. CASE Crash
  BY <1>1 DEF InOrder, Filled, Passed, At, Idle, Crash, diskVars
<1>2. ASSUME NEW d \in Downloads, FetchStart(d) PROVE InOrder'
  BY <1>2 DEF InOrder, Filled, Passed, Below, Promoting, At, Idle, FetchStart,
       NameFree, removeVars
<1>3. ASSUME NEW d \in Downloads, FetchFail(d) PROVE InOrder'
  BY <1>3 DEF InOrder, Filled, Passed, Below, At, FetchFail, diskVars,
       removeVars
<1>4. ASSUME NEW d \in Downloads, NEW pool \in {"cache", "library"},
     FetchDone(d, pool) PROVE InOrder'
  BY <1>4 DEF InOrder, Filled, Passed, Below, At, FetchDone, diskVars,
       removeVars
<1>5. ASSUME NEW d \in Downloads, Promote(d) PROVE InOrder'
  <2>1. CASE BeginEffect(d)
    <3>1. \A e \in Downloads : Passed(e) => Passed(e)'
      BY <2>1, Contented DEF BeginEffect, Stays, Passed, Below, At
    <3>2. QED
      BY <2>1, <3>1 DEF BeginEffect, InOrder, Filled, othersVars
  <2>2. QED BY <1>5, <2>1, BeginDoes
<1>6. ASSUME NEW d \in Downloads, Probe(d) PROVE InOrder'
  <2>1. ProbeEffect(d)
    BY <1>6, ProbeDoes
  <2>2. media' = media /\ cache' = cache /\ part' = part /\ doomed' = doomed
    BY <2>1 DEF ProbeEffect, othersVars
  <2>3. ASSUME NEW e \in Downloads, e # d PROVE Passed(e) => Passed(e)'
    BY <2>1, <2>2, <2>3 DEF ProbeEffect, Stays, Passed, Below, At
  <2>4. ASSUME Passed(d) PROVE Passed(d)'
    <3>1. SUFFICES ASSUME promo'[d].pc \in {"probe", "copy"},
            cache[Title[d]] = d PROVE Below(d)'
      BY <2>1, <2>2 DEF ProbeEffect, Passed, At, Idle
    <3>2. Below(d)
      BY <2>1, <2>4, <3>1 DEF ProbeEffect, Passed, At
    <3>3. CASE promo'[d].folder = promo[d].folder
      BY <2>2, <3>2, <3>3 DEF Below
    <3>4. CASE promo'[d].folder = promo[d].folder + 1
      <4>0. promo[d].folder \in Folders /\ promo[d].folder \in Nat /\ Promoting(d)
        <5>1. Promoting(d)
          BY <2>1 DEF ProbeEffect, Promoting, At, Idle
        <5>2. QED BY <5>1, Located, Contented
      <4>1. media[Title[d]][promo[d].folder] \notin {Nobody, d}
        <5>1. /\ media[Title[d]][promo[d].folder] # Nobody
              /\ ~SameSize(media[Title[d]][promo[d].folder], cache[Title[d]])
          BY <2>1, <3>1, <3>4, <4>0 DEF ProbeEffect, Idle
        <5>2. QED BY <3>1, <4>0, <5>1, SameFile
      <4>2. \A i \in Folders : i < promo[d].folder + 1 =>
              i < promo[d].folder \/ i = promo[d].folder
        BY <4>0, Contented
      <4>3. QED BY <2>2, <3>2, <3>4, <4>1, <4>2 DEF Below
    <3>5. QED BY <2>1, <3>1, <3>3, <3>4 DEF ProbeEffect, Idle
  <2>5. QED BY <2>2, <2>3, <2>4 DEF InOrder, Filled
<1>7. ASSUME NEW d \in Downloads, Copy(d) PROVE InOrder'
  <2>1. CopyEffect(d)
    BY <1>7, CopyDoes
  <2>2. media' = media /\ cache' = cache /\ doomed' = doomed
    BY <2>1 DEF CopyEffect, othersVars
  <2>3. ASSUME NEW e \in Downloads, e # d PROVE Passed(e) => Passed(e)'
    <3>1. Promoting(e) => Title[e] # Title[d]
      BY <2>1, <2>3, OnePromotion DEF CopyEffect, Promoting, At, Idle
    <3>2. promo'[e] = promo[e]
      BY <2>1, <2>3 DEF CopyEffect, Stays
    <3>3. Promoting(e) => part'[Title[e]][promo[e].folder] = part[Title[e]][promo[e].folder]
      BY <2>1, <3>1, Located DEF CopyEffect
    <3>4. QED
      BY <2>2, <3>2, <3>3 DEF Passed, Below, At, Promoting, Idle
  <2>4. ASSUME Passed(d) PROVE Passed(d)'
    BY <2>1, <2>2, <2>4, Located DEF CopyEffect, Passed, Below, At, Idle
  <2>5. QED BY <2>2, <2>3, <2>4 DEF InOrder, Filled
<1>8. ASSUME NEW d \in Downloads, Rename(d) PROVE InOrder'
  <2>1. RenameEffect(d)
    BY <1>8, RenameDoes
  <2>2. cache' = cache /\ doomed' = doomed
    BY <2>1 DEF RenameEffect, othersVars
  <2>3. ASSUME NEW e \in Downloads, e # d PROVE Passed(e) => Passed(e)'
    <3>1. Promoting(e) => Title[e] # Title[d]
      BY <2>1, <2>3, OnePromotion DEF RenameEffect, Promoting, At, Idle
    <3>2. promo'[e] = promo[e]
      BY <2>1, <2>3 DEF RenameEffect, Stays
    <3>3. Promoting(e) => \A i \in Folders :
            /\ part'[Title[e]][i] = part[Title[e]][i]
            /\ media'[Title[e]][i] = media[Title[e]][i]
      BY <2>1, <3>1, Located DEF RenameEffect
    <3>4. QED
      BY <2>2, <3>2, <3>3, Located DEF Passed, Below, At, Promoting, Idle
  <2>4. Passed(d)'
    BY <2>1 DEF RenameEffect, Passed, At, Idle
  <2>5. ASSUME Passed(d), Filled PROVE Filled'
    <3>1. CASE media' = media
      BY <2>5, <3>1 DEF Filled
    <3>2. CASE part[Title[d]][promo[d].folder] # Nobody
      <4>1. /\ part[Title[d]][promo[d].folder] = d
            /\ media[Title[d]][promo[d].folder] = Nobody
        BY <2>1, <3>2 DEF RenameEffect, FolderHeld, Held, At
      <4>2. Below(d)
        BY <2>1, <2>5, <4>1 DEF RenameEffect, Passed
      <4>3. CASE UNCHANGED media
        BY <2>5, <4>3 DEF Filled
      <4>4. CASE \A u \in Titles, i \in Folders :
                   media'[u][i] =
                     IF u = Title[d] /\ i = promo[d].folder THEN d ELSE media[u][i]
        BY <2>5, <4>1, <4>2, <4>4, Located, Contented DEF Filled, Below
      <4>5. QED BY <2>1, <4>1, <4>3, <4>4 DEF RenameEffect
    <3>3. QED BY <2>1, <3>1, <3>2 DEF RenameEffect
  <2>6. QED BY <2>2, <2>3, <2>4, <2>5 DEF InOrder
<1>9. ASSUME NEW d \in Downloads, Update(d) PROVE InOrder'
  <2>1. UpdateEffect(d)
    BY <1>9, UpdateDoes
  <2>2. QED
    BY <2>1 DEF UpdateEffect, Stays, othersVars, InOrder, Filled, Passed,
         Below, At, Idle
<1>10. ASSUME NEW d \in Downloads, Unlink(d) PROVE InOrder'
  <2>1. LeaveEffect(d)
    BY <1>10, LeaveDoes
  <2>2. QED
    BY <2>1, Contented, Located DEF LeaveEffect, Stays, othersVars, CacheFreed,
         InOrder, Filled, Passed, Below, At, Idle
<1>11. ASSUME NEW d \in Downloads, CopyFails(d) PROVE InOrder'
  <2>1. LeaveEffect(d)
    BY <1>11, LeaveDoes
  <2>2. QED
    BY <2>1, Contented, Located DEF LeaveEffect, Stays, othersVars, CacheFreed,
         InOrder, Filled, Passed, Below, At, Idle
<1>12. ASSUME NEW d \in Downloads, RemoveBegin(d) PROVE InOrder'
  BY <1>12 DEF Types, OnlyFetched, InOrder, Filled, Completed, RemoveBegin
<1>13. ASSUME NEW d \in Downloads, RemoveFile(d) PROVE InOrder'
  <2>1. RemoveEffect(d)
    BY <1>13, RemoveDoes
  <2>2. QED
    BY <2>1, Typed DEF RemoveEffect, othersVars, InOrder
<1>14. ASSUME NEW d \in Downloads, RemoveRow(d) PROVE InOrder'
  <2>1. RowEffect(d)
    BY <1>14, RowDoes
  <2>2. QED
    BY <2>1 DEF RowEffect, othersVars, NameUsedOnce, InOrder, Filled, Passed,
         Below, At
<1>15. CASE ResumeRead
  BY <1>15 DEF InOrder, Filled, Passed, Below, At, ResumeRead, ToResume,
       diskVars, sweepVars, removeVars
<1>16. CASE ReconcileRead
  BY <1>16 DEF InOrder, Filled, Passed, Below, At, ReconcileRead, diskVars,
       removeVars
<1>17. CASE ReconcileJudge
  BY <1>17 DEF InOrder, Filled, Passed, Below, At, ReconcileJudge, ActOn,
       diskVars, removeVars
<1>18. ASSUME NEW d \in Downloads, ResumeOne(d) PROVE InOrder'
  <2>1. CASE BeginEffect(d)
    <3>1. \A e \in Downloads : Passed(e) => Passed(e)'
      BY <2>1, Contented DEF BeginEffect, Stays, Passed, Below, At
    <3>2. QED
      BY <2>1, <3>1 DEF BeginEffect, InOrder, Filled, othersVars
  <2>2. CASE ~MayPromote(d)
    BY <1>18, <2>2 DEF ResumeOne, diskVars, removeVars, InOrder, Filled,
         Passed, Below, At
  <2>3. QED BY <1>18, <2>1, <2>2, BeginDoes
<1>19. ASSUME NEW d \in Downloads, ReconcileCheck(d) PROVE InOrder'
  BY <1>19 DEF InOrder, Filled, Passed, Below, At, ReconcileCheck, NotFound,
       diskVars, removeVars
<1>20. ASSUME NEW d \in Downloads, ReconcileAct(d) PROVE InOrder'
  <2>1. RowEffect(d)
    BY <1>20, RowDoes
  <2>2. QED
    BY <2>1 DEF RowEffect, othersVars, NameUsedOnce, InOrder, Filled, Passed,
         Below, At
<1>21. CASE SweepRead
  BY <1>21 DEF SweepRead, SweepOn, removeVars, InOrder, Filled, Passed, Below,
       At
<1>22. CASE SweepRows
  BY <1>22 DEF SweepRows, SweepOn, removeVars, InOrder, Filled, Passed, Below,
       At
<1>23. ASSUME NEW t \in Titles, SweepFile(t) PROVE InOrder'
  BY <1>23, Contented DEF OnlyFetched, InOrder, Filled, Passed, Below, At,
       SweepFile, SweepOn, removeVars
<1>24. ASSUME NEW t \in Titles, AgeFile(t) PROVE InOrder'
  BY <1>24 DEF AgeFile, removeVars, InOrder, Filled, Passed, Below, At
<1>25. ASSUME NEW t \in Titles, NEW k \in Folders, AgePart(t, k) PROVE InOrder'
  BY <1>25 DEF InOrder, Filled, Passed, Below, At, AgePart, removeVars
<1>26. ASSUME NEW t \in Titles, NEW k \in Folders, HuskLook(t, k) PROVE
     InOrder'
  BY <1>26 DEF InOrder, Filled, Passed, Below, At, HuskLook, diskVars,
       removeVars
<1>27. ASSUME NEW t \in Titles, NEW k \in Folders, HuskRemove(t, k) PROVE
     InOrder'
  BY <1>27, Contented DEF InOrder, Filled, Passed, Below, At, HuskRemove,
       removeVars
<1>28. CASE UNCHANGED vars
  BY <1>28 DEF vars, diskVars, removeVars, InOrder, Filled, Passed, Below, At
<1>29. QED BY <1>1, <1>2, <1>3, <1>4, <1>5, <1>6, <1>7, <1>8, <1>9, <1>10,
     <1>11, <1>12, <1>13, <1>14, <1>15, <1>16, <1>17, <1>18, <1>19, <1>20,
     <1>21, <1>22, <1>23, <1>24, <1>25, <1>26, <1>27, <1>28 DEF Next,
     PromoteStep, Job, Sweep, Remove

(* A pass that promotions wait for sees every file of a row that is not being
   removed. *)
LEMMA NextListTrue ==
  ASSUME PassesAlone, Types, CacheKept, LibraryKept, ListTrue, [Next]_vars
  PROVE  ListTrue'
<1>1. CASE Crash
  BY <1>1 DEF Crash, ListTrue
<1>2. ASSUME NEW d \in Downloads, FetchStart(d) PROVE ListTrue'
  <2>1. ASSUME NEW e \in Downloads, Fetched(e) PROVE Fetched(e)' /\ row'[e] = row[e]
    BY <1>2, <2>1 DEF FetchStart, Fetched
  <2>2. UNCHANGED <<promo, jobPc, listed, missing, doomed>>
    BY <1>2 DEF FetchStart, jobVars, jobRest, removeVars
  <2>3. \A e \in missing : Fetched(e)
    BY DEF ListTrue, Types, ListType
  <2>4. QED
    BY <2>1, <2>2, <2>3, Named DEF ListTrue, Promoting, Completed
<1>3. ASSUME NEW d \in Downloads, FetchFail(d) PROVE ListTrue'
  <2>1. ASSUME NEW e \in Downloads, Fetched(e) PROVE Fetched(e)' /\ row'[e] = row[e]
    BY <1>3, <2>1 DEF FetchFail, Fetched
  <2>2. UNCHANGED <<promo, jobPc, listed, missing, doomed>>
    BY <1>3 DEF FetchFail, jobVars, jobRest, removeVars
  <2>3. \A e \in missing : Fetched(e)
    BY DEF ListTrue, Types, ListType
  <2>4. QED
    BY <2>1, <2>2, <2>3, Named DEF ListTrue, Promoting, Completed
<1>4. ASSUME NEW d \in Downloads, NEW pool \in {"cache", "library"},
     FetchDone(d, pool) PROVE ListTrue'
  <2>1. ASSUME NEW e \in Downloads, Fetched(e) PROVE Fetched(e)' /\ row'[e] = row[e]
    BY <1>4, <2>1 DEF FetchDone, Fetched
  <2>2. UNCHANGED <<promo, jobPc, listed, missing, doomed>>
    BY <1>4 DEF FetchDone, jobVars, jobRest, removeVars
  <2>3. \A e \in missing : Fetched(e)
    BY DEF ListTrue, Types, ListType
  <2>4. QED
    BY <2>1, <2>2, <2>3, Named DEF ListTrue, Promoting, Completed
<1>5. ASSUME NEW d \in Downloads, Promote(d) PROVE ListTrue'
  <2>1. jobPc \notin {"check", "act"} /\ UNCHANGED <<row, jobPc, missing, doomed>>
    BY <1>5 DEF PassesAlone, Promote, MayPromote, jobVars, jobRest, removeVars
  <2>2. QED BY <2>1 DEF ListTrue, Completed
<1>6. ASSUME NEW d \in Downloads, Probe(d) PROVE ListTrue'
  <2>1. Promoting(d) /\ UNCHANGED <<jobPc, missing, doomed>>
    BY <1>6 DEF Probe, Promoting, At, Idle, jobRest, removeVars
  <2>2. \A e \in Downloads : row'[e].status = row[e].status
    BY <1>6 DEF Probe
  <2>3. QED BY <2>1, <2>2, Named DEF ListTrue, Completed
<1>7. ASSUME NEW d \in Downloads, Copy(d) PROVE ListTrue'
  <2>1. Promoting(d) /\ UNCHANGED <<jobPc, missing, doomed>>
    BY <1>7 DEF Copy, Promoting, At, Idle, jobRest, removeVars
  <2>2. \A e \in Downloads : row'[e].status = row[e].status
    BY <1>7 DEF Copy
  <2>3. QED BY <2>1, <2>2, Named DEF ListTrue, Completed
<1>8. ASSUME NEW d \in Downloads, Rename(d) PROVE ListTrue'
  <2>1. Promoting(d) /\ UNCHANGED <<jobPc, missing, doomed>>
    BY <1>8 DEF Rename, Promoting, At, Idle, jobRest, removeVars
  <2>2. \A e \in Downloads : row'[e].status = row[e].status
    BY <1>8 DEF Rename
  <2>3. QED BY <2>1, <2>2, Named DEF ListTrue, Completed
<1>9. ASSUME NEW d \in Downloads, Update(d) PROVE ListTrue'
  <2>1. Promoting(d) /\ UNCHANGED <<jobPc, missing, doomed>>
    BY <1>9 DEF Update, Promoting, At, Idle, jobRest, removeVars
  <2>2. \A e \in Downloads : row'[e].status = row[e].status
    BY <1>9, UpdateDoes DEF UpdateEffect, Stays
  <2>3. QED BY <2>1, <2>2, Named DEF ListTrue, Completed
<1>10. ASSUME NEW d \in Downloads, Unlink(d) PROVE ListTrue'
  <2>1. Promoting(d) /\ UNCHANGED <<jobPc, missing, doomed>>
    BY <1>10 DEF Unlink, Promoting, At, Idle, jobRest, removeVars
  <2>2. \A e \in Downloads : row'[e].status = row[e].status
    BY <1>10 DEF Unlink
  <2>3. QED BY <2>1, <2>2, Named DEF ListTrue, Completed
<1>11. ASSUME NEW d \in Downloads, CopyFails(d) PROVE ListTrue'
  <2>1. Promoting(d) /\ UNCHANGED <<jobPc, missing, doomed>>
    BY <1>11 DEF CopyFails, Promoting, Idle, jobRest, removeVars
  <2>2. \A e \in Downloads : row'[e].status = row[e].status
    BY <1>11 DEF CopyFails
  <2>3. QED BY <2>1, <2>2, Named DEF ListTrue, Completed
<1>12. ASSUME NEW d \in Downloads, RemoveBegin(d) PROVE ListTrue'
  <2>1. UNCHANGED <<row, promo, jobPc, listed, missing>> /\ doomed \subseteq doomed'
    BY <1>12 DEF RemoveBegin, jobVars, jobRest
  <2>2. QED BY <2>1 DEF ListTrue, Fetched, Completed, Promoting
<1>13. ASSUME NEW d \in Downloads, RemoveFile(d) PROVE ListTrue'
  <2>1. UNCHANGED <<row, promo, jobPc, listed, missing, doomed>>
    BY <1>13 DEF RemoveFile, jobVars, jobRest
  <2>2. QED BY <2>1 DEF ListTrue, Fetched, Completed, Promoting
<1>14. ASSUME NEW d \in Downloads, RemoveRow(d) PROVE ListTrue'
  <2>1. RowEffect(d) /\ UNCHANGED <<jobPc, listed, missing>>
    BY <1>14, RowDoes DEF RemoveRow, jobVars, jobRest
  <2>2. QED
    BY <2>1, Named DEF RowEffect, Stays, othersVars, ListTrue, Fetched,
         Completed, Promoting
<1>15. CASE ResumeRead
  <2>1. jobPc' = "resume" /\ UNCHANGED <<row, missing, doomed>>
    BY <1>15 DEF ResumeRead, removeVars
  <2>2. QED BY <2>1 DEF ListTrue, Completed
<1>16. CASE ReconcileRead
  <2>1. \A d \in Downloads : ~Promoting(d)
    BY <1>16 DEF PassesAlone, ReconcileRead
  <2>2. UNCHANGED <<row, promo, doomed, missing>>
    BY <1>16 DEF ReconcileRead, removeVars
  <2>3. DOMAIN listed' \subseteq Downloads /\
          \A e \in DOMAIN listed' : Completed(e) /\ listed'[e] = row[e]
    BY <1>16 DEF ReconcileRead
  <2>4. QED
    BY <2>1, <2>2, <2>3 DEF ListTrue, Fetched, Completed, Promoting
<1>17. CASE ReconcileJudge
  <2>1. PICK left \in SUBSET missing : ActOn(left)
    BY <1>17 DEF ReconcileJudge
  <2>2. jobPc = "check" /\ UNCHANGED <<row, promo, doomed>>
    BY <1>17 DEF ReconcileJudge, removeVars
  <2>3. DOMAIN listed' \subseteq DOMAIN listed /\
          \A e \in DOMAIN listed' : listed'[e] = listed[e]
    BY <2>1 DEF ActOn, NoRows
  <2>4. missing' \subseteq missing
    BY <2>1 DEF ActOn
  <2>5. QED
    BY <2>2, <2>3, <2>4 DEF ListTrue, Fetched, Completed, Promoting
<1>18. ASSUME NEW d \in Downloads, ResumeOne(d) PROVE ListTrue'
  <2>1. jobPc = "resume" /\ UNCHANGED <<row, jobPc, missing, doomed>>
    BY <1>18 DEF ResumeOne, removeVars
  <2>2. QED BY <2>1 DEF ListTrue, Completed
<1>19. ASSUME NEW d \in Downloads, ReconcileCheck(d) PROVE ListTrue'
  <2>1. UNCHANGED <<row, promo, doomed, jobPc, listed>> /\ jobPc = "check"
    BY <1>19 DEF ReconcileCheck, removeVars
  <2>2. ASSUME Completed(d), NotFound(d) PROVE d \in doomed
    <3>1. row[d].path = listed[d].path
      BY <1>19, <2>1, <2>2 DEF ReconcileCheck, ListTrue, Types, ListType
    <3>2. FileAt(d, row[d].path) = Nobody
      BY <2>2, <3>1 DEF NotFound
    <3>3. QED
      BY <2>2, <3>2, FilesThere, Contented DEF PassesAlone, RowsHaveTheirFile
  <2>3. missing' \subseteq missing \cup {d} /\
          (d \in missing' => d \in missing \/ NotFound(d))
    BY <1>19 DEF ReconcileCheck
  <2>4. QED
    BY <2>1, <2>2, <2>3 DEF ListTrue, Fetched, Completed, Promoting
<1>20. ASSUME NEW d \in Downloads, ReconcileAct(d) PROVE ListTrue'
  <2>1. PICK left \in SUBSET missing : ActOn(left)
    BY <1>20 DEF ReconcileAct
  <2>2. RowEffect(d) /\ jobPc = "act"
    BY <1>20, RowDoes DEF ReconcileAct
  <2>3. DOMAIN listed' \subseteq DOMAIN listed /\
          \A e \in DOMAIN listed' : listed'[e] = listed[e]
    BY <2>1 DEF ActOn, NoRows
  <2>4. missing' \subseteq missing
    BY <2>1 DEF ActOn
  <2>5. QED
    BY <2>2, <2>3, <2>4, Named DEF RowEffect, Stays, othersVars, ListTrue,
         Fetched, Completed, Promoting
<1>21. CASE SweepRead
  <2>1. UNCHANGED <<row, promo, jobPc, listed, missing, doomed>>
    BY <1>21 DEF SweepRead, SweepOn, jobVars, jobRest, removeVars
  <2>2. QED BY <2>1 DEF ListTrue, Fetched, Completed, Promoting
<1>22. CASE SweepRows
  <2>1. UNCHANGED <<row, promo, jobPc, listed, missing, doomed>>
    BY <1>22 DEF SweepRows, SweepOn, jobVars, jobRest, removeVars
  <2>2. QED BY <2>1 DEF ListTrue, Fetched, Completed, Promoting
<1>23. ASSUME NEW t \in Titles, SweepFile(t) PROVE ListTrue'
  <2>1. UNCHANGED <<row, promo, jobPc, listed, missing, doomed>>
    BY <1>23 DEF SweepFile, SweepOn, jobVars, jobRest, removeVars
  <2>2. QED BY <2>1 DEF ListTrue, Fetched, Completed, Promoting
<1>24. ASSUME NEW t \in Titles, AgeFile(t) PROVE ListTrue'
  <2>1. UNCHANGED <<row, promo, jobPc, listed, missing, doomed>>
    BY <1>24 DEF AgeFile, jobVars, jobRest, removeVars
  <2>2. QED BY <2>1 DEF ListTrue, Fetched, Completed, Promoting
<1>25. ASSUME NEW t \in Titles, NEW k \in Folders, AgePart(t, k) PROVE
     ListTrue'
  <2>1. UNCHANGED <<row, promo, jobPc, listed, missing, doomed>>
    BY <1>25 DEF AgePart, jobVars, jobRest, removeVars
  <2>2. QED BY <2>1 DEF ListTrue, Fetched, Completed, Promoting
<1>26. ASSUME NEW t \in Titles, NEW k \in Folders, HuskLook(t, k) PROVE
     ListTrue'
  <2>1. UNCHANGED <<row, promo, jobPc, listed, missing, doomed>>
    BY <1>26 DEF HuskLook, jobVars, jobRest, removeVars
  <2>2. QED BY <2>1 DEF ListTrue, Fetched, Completed, Promoting
<1>27. ASSUME NEW t \in Titles, NEW k \in Folders, HuskRemove(t, k) PROVE
     ListTrue'
  <2>1. UNCHANGED <<row, promo, jobPc, listed, missing, doomed>>
    BY <1>27 DEF HuskRemove, jobVars, jobRest, removeVars
  <2>2. QED BY <2>1 DEF ListTrue, Fetched, Completed, Promoting
<1>28. CASE UNCHANGED vars
  BY <1>28 DEF vars, jobVars, jobRest, removeVars, ListTrue, Fetched,
       Completed, Promoting
<1>29. QED BY <1>1, <1>2, <1>3, <1>4, <1>5, <1>6, <1>7, <1>8, <1>9, <1>10,
     <1>11, <1>12, <1>13, <1>14, <1>15, <1>16, <1>17, <1>18, <1>19, <1>20,
     <1>21, <1>22, <1>23, <1>24, <1>25, <1>26, <1>27, <1>28 DEF Next,
     PromoteStep, Job, Sweep, Remove

(* A completed row loses its status to its own removal or to the pass that
   missed its file. *)
LEMMA OnlyActed ==
  ASSUME Types, NEW x \in Downloads, Completed(x), removal[x] = NoRemoval, x
       \notin missing, [Next]_vars
  PROVE  row'[x].status = "COMPLETED"
<1>1. CASE Crash
  BY <1>1 DEF Completed, Crash
<1>2. ASSUME NEW d \in Downloads, FetchStart(d) PROVE row'[x].status =
     "COMPLETED"
  BY <1>2 DEF FetchStart, Completed
<1>3. ASSUME NEW d \in Downloads, FetchFail(d) PROVE row'[x].status =
     "COMPLETED"
  BY <1>3 DEF FetchFail, Completed
<1>4. ASSUME NEW d \in Downloads, NEW pool \in {"cache", "library"},
     FetchDone(d, pool) PROVE row'[x].status = "COMPLETED"
  BY <1>4 DEF FetchDone, Completed
<1>5. ASSUME NEW d \in Downloads, Promote(d) PROVE row'[x].status = "COMPLETED"
  BY <1>5 DEF Completed, Promote
<1>6. ASSUME NEW d \in Downloads, Probe(d) PROVE row'[x].status = "COMPLETED"
  BY <1>6 DEF Completed, Probe
<1>7. ASSUME NEW d \in Downloads, Copy(d) PROVE row'[x].status = "COMPLETED"
  BY <1>7 DEF Completed, Copy
<1>8. ASSUME NEW d \in Downloads, Rename(d) PROVE row'[x].status = "COMPLETED"
  BY <1>8 DEF Completed, Rename
<1>9. ASSUME NEW d \in Downloads, Update(d) PROVE row'[x].status = "COMPLETED"
  <2>1. UpdateEffect(d)
    BY <1>9, UpdateDoes
  <2>2. QED BY <2>1 DEF UpdateEffect, Stays, Completed
<1>10. ASSUME NEW d \in Downloads, Unlink(d) PROVE row'[x].status = "COMPLETED"
  BY <1>10 DEF Completed, Unlink
<1>11. ASSUME NEW d \in Downloads, CopyFails(d) PROVE row'[x].status =
     "COMPLETED"
  BY <1>11 DEF Completed, CopyFails
<1>12. ASSUME NEW d \in Downloads, RemoveBegin(d) PROVE row'[x].status =
     "COMPLETED"
  BY <1>12 DEF Completed, RemoveBegin
<1>13. ASSUME NEW d \in Downloads, RemoveFile(d) PROVE row'[x].status =
     "COMPLETED"
  BY <1>13 DEF Completed, RemoveFile
<1>14. ASSUME NEW d \in Downloads, RemoveRow(d) PROVE row'[x].status =
     "COMPLETED"
  <2>1. RowEffect(d)
    BY <1>14, RowDoes
  <2>2. d # x
    BY <1>14 DEF RemoveRow, NoRemoval
  <2>3. QED BY <2>1, <2>2 DEF RowEffect, Stays, Completed
<1>15. CASE ResumeRead
  BY <1>15 DEF Completed, ResumeRead
<1>16. CASE ReconcileRead
  BY <1>16 DEF Completed, ReconcileRead
<1>17. CASE ReconcileJudge
  BY <1>17 DEF Completed, ReconcileJudge
<1>18. ASSUME NEW d \in Downloads, ResumeOne(d) PROVE row'[x].status =
     "COMPLETED"
  BY <1>18 DEF Completed, ResumeOne
<1>19. ASSUME NEW d \in Downloads, ReconcileCheck(d) PROVE row'[x].status =
     "COMPLETED"
  BY <1>19 DEF Completed, ReconcileCheck
<1>20. ASSUME NEW d \in Downloads, ReconcileAct(d) PROVE row'[x].status =
     "COMPLETED"
  <2>1. RowEffect(d)
    BY <1>20, RowDoes
  <2>2. d # x
    BY <1>20 DEF ReconcileAct
  <2>3. QED BY <2>1, <2>2 DEF RowEffect, Stays, Completed
<1>21. CASE SweepRead
  BY <1>21 DEF Completed, SweepRead, SweepOn
<1>22. CASE SweepRows
  BY <1>22 DEF Completed, SweepRows, SweepOn
<1>23. ASSUME NEW t \in Titles, SweepFile(t) PROVE row'[x].status = "COMPLETED"
  BY <1>23 DEF Completed, SweepFile, SweepOn
<1>24. ASSUME NEW t \in Titles, AgeFile(t) PROVE row'[x].status = "COMPLETED"
  BY <1>24 DEF Completed, AgeFile
<1>25. ASSUME NEW t \in Titles, NEW k \in Folders, AgePart(t, k) PROVE
     row'[x].status = "COMPLETED"
  BY <1>25 DEF Completed, AgePart
<1>26. ASSUME NEW t \in Titles, NEW k \in Folders, HuskLook(t, k) PROVE
     row'[x].status = "COMPLETED"
  BY <1>26 DEF Completed, HuskLook
<1>27. ASSUME NEW t \in Titles, NEW k \in Folders, HuskRemove(t, k) PROVE
     row'[x].status = "COMPLETED"
  BY <1>27 DEF Completed, HuskRemove
<1>28. CASE UNCHANGED vars
  BY <1>28 DEF vars, Completed
<1>29. QED BY <1>1, <1>2, <1>3, <1>4, <1>5, <1>6, <1>7, <1>8, <1>9, <1>10,
     <1>11, <1>12, <1>13, <1>14, <1>15, <1>16, <1>17, <1>18, <1>19, <1>20,
     <1>21, <1>22, <1>23, <1>24, <1>25, <1>26, <1>27, <1>28 DEF Next,
     PromoteStep, Job, Sweep, Remove

-----------------------------------------------------------------------------
(* The initial states. *)
LEMMA InitHolds == Init => IInv /\ ListTrue
<1>1. SUFFICES ASSUME Init PROVE IInv /\ ListTrue
  OBVIOUS
<1>2. \A d \in Downloads :
        /\ row[d].status = "NONE" /\ row[d].path = NoPath /\ row[d] \in Rows
        /\ promo[d] = Idle /\ removal[d] = NoRemoval
  BY <1>1, PathsDiffer DEF Init, ProcessInit, Rows
<1>3. /\ row \in [Downloads -> Rows] /\ doomed = {} /\ missing = {} /\ listed = NoRows
      /\ \A t \in Titles : cache[t] = Nobody
      /\ \A t \in Titles, k \in Folders : media[t][k] = Nobody /\ part[t][k] = Nobody
  BY <1>1, PathsDiffer DEF Init, ProcessInit, Rows
<1>4. Types
  <2>1. RowType
    BY <1>2, <1>3 DEF RowType, Completed
  <2>2. DiskType
    BY <1>1 DEF Init, DiskType, Contents
  <2>3. PromoType /\ JobType
    BY <1>1, Contented DEF Init, ProcessInit, PromoType, JobType, Idle,
         Contents
  <2>4. ListType /\ RestType
    BY <1>1 DEF Init, ProcessInit, ListType, RestType, NoRows
  <2>5. RemovalType
    BY <1>1, PathsDiffer DEF Init, ProcessInit, RemovalType, NoRemoval
  <2>6. QED BY <2>1, <2>2, <2>3, <2>4, <2>5 DEF Types
<1>5. FilesByTitle /\ OnlyFetched
  BY <1>2, <1>3 DEF FilesByTitle, OnlyFetched, Promoting
<1>6. NameUsedOnce
  BY <1>2, PathsDiffer DEF NameUsedOnce, Uses, Promoting, NoRemoval
<1>7. CacheKept /\ LibraryKept
  BY <1>2 DEF CacheKept, LibraryKept, Completed, NoRemoval
<1>8. RowFollows /\ FolderHeld
  BY <1>2, PathsDiffer DEF RowFollows, FolderHeld, Held, At, Idle
<1>9. InOrder
  BY <1>2, <1>3 DEF InOrder, Filled, Passed, At, Idle
<1>10. ListTrue
  BY <1>1, <1>2 DEF Init, ProcessInit, ListTrue
<1>11. QED BY <1>4, <1>5, <1>6, <1>7, <1>8, <1>9, <1>10 DEF IInv

(* The invariant is inductive. *)
LEMMA IInvHolds == Spec => []IInv
<1>1. ASSUME IInv, [Next]_vars PROVE IInv'
  <2>1. Types'
    BY <1>1, NextTypes DEF IInv
  <2>2. FilesByTitle' /\ OnlyFetched' /\ NameUsedOnce' /\ CacheKept' /\ RowFollows'
    BY <1>1, NextFilesByTitle, NextOnlyFetched, NextNameUsedOnce,
         NextCacheKept, NextRowFollows DEF IInv
  <2>3. FolderHeld' /\ LibraryKept' /\ InOrder'
    BY <1>1, NextFolderHeld, NextLibraryKept, NextInOrder DEF IInv
  <2>4. QED BY <2>1, <2>2, <2>3 DEF IInv
<1>2. QED BY <1>1, InitHolds, PTL DEF Spec

(* So is what a pass knows, when promotions wait for it. *)
LEMMA ListTrueHolds == ASSUME PassesAlone PROVE Spec => []ListTrue
<1>1. ASSUME IInv, ListTrue, [Next]_vars PROVE ListTrue'
  BY <1>1, NextListTrue DEF IInv
<1>2. QED BY <1>1, InitHolds, IInvHolds, PTL DEF Spec

-----------------------------------------------------------------------------
(* Every reachable state has the declared types: rows, files and temporaries,
   the places of promotions, of the job, of the sweep and of the removals. *)
THEOREM TypeOKHolds == Spec => []TypeOK
<1>1. IInv => TypeOK
  BY DEF IInv, Types, TypeOK, RowType, DiskType, PromoType, JobType, ListType,
       RestType, RemovalType
<1>2. QED BY <1>1, IInvHolds, PTL

(* Every completed download has its own file at the path its row holds, through
   promotions, sweeps, reconciliations, removals and crashes, until its removal
   is asked for (library.service.ts: 47-312, 769-1134), provided no crash falls between
   the unlink and the row write of a removal. *)
THEOREM RowsHaveTheirFileHolds ==
  ASSUME "crash" \notin Overlap PROVE Spec => []RowsHaveTheirFile
<1>1. IInv => RowsHaveTheirFile
  BY FilesThere DEF IInv
<1>2. QED BY <1>1, IInvHolds, PTL

(* An interrupted promotion that is resumed finds the copy it made, whatever was
   copied, renamed or left behind when it died (229-277, 981): no download has two
   files in the library as long as nothing was removed. *)
THEOREM OneCopyInLibraryHolds == Spec => []OneCopyInLibrary
<1>1. ASSUME IInv, doomed = {}, NEW d \in Downloads
      PROVE  Cardinality({k \in Folders : media[Title[d]][k] = d}) <= 1
  <2>1. \A i, j \in Folders : media[Title[d]][i] = d /\ media[Title[d]][j] = d => i = j
    BY <1>1, TitleAssumption, Contented DEF IInv, InOrder, Filled
  <2>2. CASE \A k \in Folders : media[Title[d]][k] # d
    <3>1. {k \in Folders : media[Title[d]][k] = d} = {}
      BY <2>2
    <3>2. QED BY <3>1, FS_EmptySet
  <2>3. ASSUME NEW k \in Folders, media[Title[d]][k] = d
        PROVE  Cardinality({i \in Folders : media[Title[d]][i] = d}) <= 1
    <3>1. {i \in Folders : media[Title[d]][i] = d} = {k}
      BY <2>1, <2>3
    <3>2. QED BY <3>1, FS_Singleton
  <2>4. QED BY <2>2, <2>3
<1>2. IInv => OneCopyInLibrary
  BY <1>1 DEF OneCopyInLibrary
<1>3. QED BY <1>2, IInvHolds, PTL

(* The reconciliation deletes or tombstones no row whose file is there (769-889),
   provided promotions do not overlap its pass and no crash falls between the
   two steps of a removal. *)
THEOREM LiveRecordsSurviveHolds ==
  ASSUME PassesAlone PROVE Spec => LiveRecordsSurvive
<1>1. ASSUME IInv, ListTrue, [Next]_vars, NEW d \in Downloads PROVE Survives(d)
  <2>1. SUFFICES ASSUME Completed(d), d \notin doomed, row'[d].status # "COMPLETED"
                 PROVE  FALSE
    BY DEF Survives
  <2>2. removal[d] = NoRemoval /\ d \notin missing
    BY <1>1, <2>1, Typed DEF IInv, ListTrue
  <2>3. QED
    BY <1>1, <2>1, <2>2, OnlyActed DEF IInv
<1>2. IInv /\ ListTrue /\ [Next]_vars => [\A d \in Downloads : Survives(d)]_vars
  BY <1>1
<1>3. QED
  BY <1>2, ListTrueHolds, IInvHolds, PTL DEF Spec, LiveRecordsSurvive

-----------------------------------------------------------------------------
(* The contract.  With every file where its row says, the place of a download
   follows from its row and from whether its removal was asked for. *)
PlaceIn(d, r, asked) ==
  IF r.status \in {"NONE", "ACTIVE"} THEN "absent"
  ELSE IF r.status # "COMPLETED" THEN "gone"
  ELSE IF d \in asked THEN "doomed"
  ELSE IF r.path # Cache THEN "kept"
  ELSE IF r.pool = "library" THEN "owed" ELSE "cached"

Placed == \A d \in Downloads : Place(d) = PlaceIn(d, row[d], doomed)

LEMMA PlacedHolds == ASSUME "crash" \notin Overlap PROVE Spec => []Placed
<1>1. IInv => Placed
  <2> SUFFICES ASSUME IInv, NEW d \in Downloads
               PROVE  Place(d) = PlaceIn(d, row[d], doomed)
    BY DEF Placed
  <2>1. row[d].status \in {"NONE", "ACTIVE", "COMPLETED", "DELETED", "GONE"}
    BY DEF IInv, Types, RowType, Rows
  <2>2. Completed(d) /\ d \notin doomed => FileAt(d, row[d].path) = d
    BY FilesThere DEF IInv, RowsHaveTheirFile
  <2>3. QED BY <2>1, <2>2 DEF Place, PlaceIn, Completed
<1>2. QED BY <1>1, IInvHolds, PTL

PlaceMap == [d \in Downloads |-> Place(d)]

(* What a step does to the row of one download is its move in the contract. *)
LEMMA RowMove ==
  ASSUME Placed, Placed', NEW d \in Downloads, NEW from, NEW to,
         PlaceIn(d, row[d], doomed) \in from, PlaceIn(d, row'[d], doomed') = to,
         \A e \in Downloads \ {d} :
           row'[e] = row[e] /\ (e \in doomed' <=> e \in doomed)
  PROVE  Contract!Move(d, from, to)
<1>1. Place(d) \in from /\ Place(d)' = to
  BY DEF Placed
<1>2. \A e \in Downloads \ {d} : Place(e)' = Place(e)
  BY DEF Placed, PlaceIn
<1>3. QED BY <1>1, <1>2 DEF Contract!Move

(* A step that leaves the rows and the removals alone, or gives a row another
   status of the same kind, is none. *)
LEMMA RowStays ==
  ASSUME Placed, Placed', doomed' = doomed,
         \A d \in Downloads :
           PlaceIn(d, row'[d], doomed) = PlaceIn(d, row[d], doomed)
  PROVE  PlaceMap' = PlaceMap
<1>1. \A d \in Downloads : Place(d)' = Place(d)
  BY DEF Placed
<1>2. QED BY <1>1 DEF PlaceMap

(* A row that is deleted, or made a tombstone, was doomed or is gone already. *)
LEMMA RowGoes ==
  ASSUME IInv, Placed, Placed', NEW d \in Downloads, Fetched(d),
         Completed(d) => d \in doomed, doomed' = doomed,
         row' = row \/ row' = Dropped(d) \/ row' = Tombstone(d)
  PROVE  Contract!Next \/ PlaceMap' = PlaceMap
<1>1. row \in [Downloads -> Rows]
  BY DEF IInv, Types, RowType
<1>2. CASE row' = row
  BY <1>2, RowStays
<1>3. CASE row' # row
  <2>1. \A e \in Downloads \ {d} : row'[e] = row[e]
    BY <1>1, <1>3 DEF Dropped, Tombstone
  <2>2. row'[d].status \in {"DELETED", "GONE"}
    BY <1>1, <1>3 DEF Dropped, Tombstone, Rows
  <2>3. PlaceIn(d, row'[d], doomed') = "gone"
    BY <2>2 DEF PlaceIn
  <2>4. CASE Completed(d)
    <3>1. PlaceIn(d, row[d], doomed) \in {"doomed"}
      BY <2>4 DEF PlaceIn, Completed
    <3>2. Contract!Move(d, {"doomed"}, "gone")
      BY <2>1, <2>3, <3>1, RowMove
    <3>3. QED BY <3>2 DEF Contract!Next, Contract!Remove
  <2>5. CASE ~Completed(d)
    <3>1. PlaceIn(d, row[d], doomed) = "gone"
      BY <2>5 DEF PlaceIn, Completed, Fetched
    <3>2. \A e \in Downloads :
            PlaceIn(e, row'[e], doomed) = PlaceIn(e, row[e], doomed)
      BY <2>1, <2>3, <3>1
    <3>3. QED BY <3>2, RowStays
  <2>6. QED BY <2>4, <2>5
<1>4. QED BY <1>2, <1>3

LEMMA ContractStep ==
  ASSUME PassesAlone, IInv, ListTrue, Placed, Placed', [Next]_vars
  PROVE  Contract!Next \/ PlaceMap' = PlaceMap
<1>0. row \in [Downloads -> Rows] /\ Types
  BY DEF IInv, Types, RowType
<1>1. CASE row' = row /\ doomed' = doomed
  BY <1>1, RowStays
<1>2. ASSUME NEW d \in Downloads, FetchStart(d) PROVE PlaceMap' = PlaceMap
  <2>1. \A e \in Downloads :
          PlaceIn(e, row'[e], doomed) = PlaceIn(e, row[e], doomed)
    BY <1>0, <1>2 DEF FetchStart, PlaceIn, Rows
  <2>2. QED BY <1>2, <2>1, RowStays DEF FetchStart, removeVars
<1>3. ASSUME NEW d \in Downloads, NEW pool \in {"cache", "library"},
             FetchDone(d, pool)
      PROVE  Contract!Next
  <2> DEFINE to == IF pool = "library" THEN "owed" ELSE "cached"
  <2>1. doomed' = doomed /\ d \notin doomed
    BY <1>3 DEF FetchDone, removeVars, IInv, OnlyFetched, Fetched
  <2>2. row'[d] = [status |-> "COMPLETED", pool |-> pool, path |-> Cache]
    BY <1>0, <1>3 DEF FetchDone
  <2>3. PlaceIn(d, row'[d], doomed') = to
    BY <2>1, <2>2 DEF PlaceIn
  <2>4. PlaceIn(d, row[d], doomed) \in {"absent"}
    BY <1>3 DEF FetchDone, PlaceIn
  <2>5. \A e \in Downloads \ {d} : row'[e] = row[e]
    BY <1>0, <1>3 DEF FetchDone
  <2>6. Contract!Move(d, {"absent"}, to)
    BY <2>1, <2>3, <2>4, <2>5, RowMove
  <2>7. QED BY <2>6 DEF Contract!Next, Contract!Finish
<1>4. ASSUME NEW d \in Downloads, FetchFail(d) PROVE Contract!Next
  <2>1. doomed' = doomed
    BY <1>4 DEF FetchFail, removeVars
  <2>2. PlaceIn(d, row[d], doomed) \in {"absent"}
    BY <1>4 DEF FetchFail, PlaceIn
  <2>3. PlaceIn(d, row'[d], doomed') = "gone"
    BY <1>0, <1>4 DEF FetchFail, PlaceIn, Rows
  <2>4. \A e \in Downloads \ {d} : row'[e] = row[e]
    BY <1>0, <1>4 DEF FetchFail
  <2>5. Contract!Move(d, {"absent"}, "gone")
    BY <2>1, <2>2, <2>3, <2>4, RowMove
  <2>6. QED BY <2>5 DEF Contract!Next, Contract!Fail
<1>5. ASSUME NEW d \in Downloads, Update(d)
      PROVE  Contract!Next \/ PlaceMap' = PlaceMap
  <2>1. doomed' = doomed /\ Fetched(d)
    BY <1>5 DEF Update, removeVars, IInv, OnlyFetched, Promoting, At, Idle
  <2>2. /\ \A e \in Downloads \ {d} : row'[e] = row[e]
        /\ row'[d].status = row[d].status
    BY <1>0, <1>5 DEF Update, Rows
  <2>3. CASE Completed(d) /\ d \notin doomed
    <3>1. row[d].path = Cache
      BY <1>0, <1>5, <2>3, Typed, PathsDiffer DEF Update, IInv, RowFollows, At
    <3>2. row'[d].path # Cache
      <4>1. row'[d].path = InLibrary(promo[d].folder)
        BY <1>0, <1>5, <2>3 DEF Update, Completed, Rows
      <4>2. promo[d].folder \in Folders
        BY <1>0, Typed
      <4>3. QED BY <4>1, <4>2, PathsDiffer
    <3>3. PlaceIn(d, row[d], doomed) \in {"cached", "owed"}
      BY <2>3, <3>1 DEF PlaceIn, Completed
    <3>4. PlaceIn(d, row'[d], doomed') = "kept"
      BY <2>1, <2>2, <2>3, <3>2 DEF PlaceIn, Completed
    <3>5. Contract!Move(d, {"cached", "owed"}, "kept")
      BY <2>1, <2>2, <3>3, <3>4, RowMove
    <3>6. QED BY <3>5 DEF Contract!Next, Contract!Promote
  <2>4. CASE ~(Completed(d) /\ d \notin doomed)
    <3>1. \A e \in Downloads :
            PlaceIn(e, row'[e], doomed) = PlaceIn(e, row[e], doomed)
      BY <2>1, <2>2, <2>4 DEF PlaceIn, Completed, Fetched
    <3>2. QED BY <2>1, <3>1, RowStays
  <2>5. QED BY <2>3, <2>4
<1>6. ASSUME NEW d \in Downloads, ReconcileAct(d)
      PROVE  Contract!Next \/ PlaceMap' = PlaceMap
  <2>1. Fetched(d) /\ (Completed(d) => d \in doomed)
    BY <1>0, <1>6, Named DEF ReconcileAct, ListTrue
  <2>2. QED BY <1>6, <2>1, RowGoes DEF ReconcileAct, removeVars
<1>7. ASSUME NEW d \in Downloads, RemoveBegin(d)
      PROVE  Contract!Next \/ PlaceMap' = PlaceMap
  <2>1. row' = row /\ doomed' = doomed \cup {d} /\ Completed(d)
    BY <1>7 DEF RemoveBegin
  <2>2. CASE d \in doomed
    <3>1. doomed' = doomed
      BY <2>1, <2>2
    <3>2. QED BY <2>1, <3>1, RowStays
  <2>3. CASE d \notin doomed
    <3>1. PlaceIn(d, row[d], doomed) \in {"cached", "owed", "kept"}
      BY <2>1, <2>3 DEF PlaceIn, Completed
    <3>2. PlaceIn(d, row'[d], doomed') = "doomed"
      BY <2>1 DEF PlaceIn, Completed
    <3>3. Contract!Move(d, {"cached", "owed", "kept"}, "doomed")
      BY <2>1, <3>1, <3>2, RowMove
    <3>4. QED BY <3>3 DEF Contract!Next, Contract!Condemn
  <2>4. QED BY <2>2, <2>3
<1>8. ASSUME NEW d \in Downloads, RemoveRow(d)
      PROVE  Contract!Next \/ PlaceMap' = PlaceMap
  <2>1. removal[d] # NoRemoval
    BY <1>8 DEF RemoveRow, NoRemoval
  <2>2. d \in doomed /\ Fetched(d)
    BY <1>0, <2>1, Typed DEF IInv, OnlyFetched
  <2>3. QED BY <1>8, <2>2, RowGoes DEF RemoveRow
<1>9. ASSUME NEW d \in Downloads,
             Promote(d) \/ Probe(d) \/ Copy(d) \/ Rename(d) \/ Unlink(d)
               \/ CopyFails(d) \/ RemoveFile(d)
      PROVE  row' = row /\ doomed' = doomed
  BY <1>9 DEF Promote, Probe, Copy, Rename, Unlink, CopyFails, RemoveFile, removeVars
<1>10. ASSUME NEW d \in Downloads, ResumeOne(d) \/ ReconcileCheck(d)
       PROVE  row' = row /\ doomed' = doomed
  BY <1>10 DEF ResumeOne, ReconcileCheck, removeVars
<1>11. CASE ResumeRead \/ ReconcileRead \/ ReconcileJudge \/ Crash
            \/ UNCHANGED vars
  BY <1>1, <1>11 DEF ResumeRead, ReconcileRead, ReconcileJudge, Crash, vars, removeVars
<1>12. CASE Sweep \/ \E t \in Titles : AgeFile(t)
  BY <1>1, <1>12 DEF Sweep, SweepRead, SweepRows, SweepFile, SweepOn, AgeFile, removeVars
<1>13. CASE \E t \in Titles, k \in Folders :
              AgePart(t, k) \/ HuskLook(t, k) \/ HuskRemove(t, k)
  BY <1>1, <1>13 DEF AgePart, HuskLook, HuskRemove, removeVars
<1>14. QED
  BY <1>1, <1>2, <1>3, <1>4, <1>5, <1>6, <1>7, <1>8, <1>9, <1>10, <1>11, <1>12,
     <1>13 DEF Next, PromoteStep, Job, Remove

(* The library implements its contract (47-312, 769-1134): every step of a
   promotion, a pass, a removal or a restart is one step of LibraryContract or
   none, under the same conditions. *)
THEOREM LibraryImplementsContract ==
  ASSUME PassesAlone PROVE Spec => ImplementsLibraryContract
<1>1. Init => Contract!Init
  <2> SUFFICES ASSUME Init, NEW d \in Downloads PROVE Place(d) = "absent"
    BY DEF Contract!Init
  <2>1. row[d].status = "NONE"
    BY DEF Init
  <2>2. QED BY <2>1 DEF Place, Completed
<1>2. IInv /\ ListTrue /\ Placed /\ Placed' /\ [Next]_vars
        => [Contract!Next]_([d \in Downloads |-> Place(d)])
  BY ContractStep DEF PlaceMap
<1>3. "crash" \notin Overlap
  BY DEF PassesAlone
<1>4. Spec => []Placed
  BY <1>3, PlacedHolds
<1>5. QED
  BY <1>1, <1>2, <1>4, IInvHolds, ListTrueHolds, PTL
     DEF Spec, ImplementsLibraryContract, Contract!Spec
=============================================================================
