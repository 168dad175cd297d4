---------------------------- MODULE VideoArchive ----------------------------
(***************************************************************************)
(* How a subscription decides whether a video is new                       *)
(* (services/subscription.service.ts, filterNewVideos), followed for one   *)
(* video of the channel.  The memory of what has been dealt with is spread *)
(* over the archive table and the download rows, and everything that       *)
(* downloads or removes a file writes one of them, the other, or both.     *)
(*                                                                         *)
(* The scheduled check, a backfill and a user's request run concurrently;  *)
(* each of their actions is the code between two awaits.  The download     *)
(* itself is left to DownloadPipeline: here a row is active until it ends  *)
(* one way or another, and a download that is cancelled has stopped.  A    *)
(* removal is one action (Library and CacheQuota take it apart); the order *)
(* of its writes is not visible to a check that reads the archive first    *)
(* and the rows last, and LoseFile is the removal that has only unlinked.  *)
(***************************************************************************)
EXTENDS Naturals, FiniteSets

CONSTANTS
  Rows,     \* bound: download rows of the video at one time
  Checkers, \* runs of filterNewVideos: subset of {"check", "backfill"}
  Sources   \* where they get their listing: subset of {"rss", "flat", "feed"}

ASSUME CheckersAssumption == Checkers \subseteq {"check", "backfill"}
ASSUME SourcesAssumption == Sources \subseteq {"rss", "flat", "feed"}

VARIABLES
  era,      \* published "before" or "after" the subscription was created
  public,   \* the premiere or stream is over
  short,    \* a short, and the subscription excludes shorts
  seed,     \* seedArchive: "pending", "done" or "failed"
  arch,     \* the archive row
  row,      \* [Rows -> Download.status]
  file,     \* [Rows -> the file of the row exists]
  ending,   \* [Rows -> the second write of a download's end that is due]
  pc,       \* [Callers -> the next await]
  source,   \* [Callers -> where the listing came from, while it matters]
  found,    \* [Callers -> the completed row found]
  revived,  \* history: callers whose row was started again since they found it
  had,      \* history: the archive entry is that of a video once downloaded
  asked     \* history: a check came before the seed, a trusted feed listed the
            \* video, or a user asked for it

world == <<era, public, short>>
dbVars == <<seed, arch, row, file, ending>>
callVars == <<pc, source, found, revived>>
vars == <<world, dbVars, callVars, had, asked>>

Callers == Checkers \cup {"request"}

(* "plain" has no reason: seeded, or downloaded.  "backoff" is a failure or a
   duration skip within its 24 hours, "lapsed" one beyond them, "never" an
   excluded short. *)
Entries == {"none", "plain", "backoff", "lapsed", "never"}
Statuses == {"none", "active", "completed", "failed", "cancelled", "tombstone"}
Endings == {"no", "archive", "fail"}
Stages == {"idle", "archive", "lapse", "download", "probe", "forget",
           "dropArchive", "dropRow", "existing", "offer", "insert"}

With(S) == {r \in Rows : row[r] \in S}

Init ==
  /\ era \in {"before", "after"} /\ public \in BOOLEAN /\ short \in BOOLEAN
  /\ seed = "pending" /\ arch = "none"
  /\ row = [r \in Rows |-> "none"] /\ file = [r \in Rows |-> FALSE]
  /\ ending = [r \in Rows |-> "no"]
  /\ pc = [c \in Callers |-> "idle"] /\ source = [c \in Callers |-> "flat"]
  /\ found = [c \in Callers |-> {}]
  /\ had = FALSE /\ asked = (era = "after") /\ revived = {}

-----------------------------------------------------------------------------
(* seedArchive archives what is listed when the subscription is created. *)
Seed ==
  /\ seed = "pending"
  /\ \/ /\ seed' = "done"
        /\ arch' = IF arch = "none" THEN "plain" ELSE arch
     \/ seed' = "failed" /\ arch' = arch
  /\ UNCHANGED <<world, row, file, ending, callVars, had, asked>>

Premiere ==
  /\ ~public
  /\ public' = TRUE
  /\ UNCHANGED <<era, short, dbVars, callVars, had, asked>>

CooldownLapses ==
  /\ arch = "backoff"
  /\ arch' = "lapsed"
  /\ UNCHANGED <<world, seed, row, file, ending, callVars, had, asked>>

-----------------------------------------------------------------------------
(* filterNewVideos and the createDownload that follows it. *)
Goto(c, stage) == pc' = [pc EXCEPT ![c] = stage]

(* Mutant: the file is left behind. *)
GoneFromTable(r, status) ==
  /\ row' = [row EXCEPT ![r] = status]
  /\ file' = file

(* A row goes, or is put aside, and its file with it. *)
Gone(r, status) ==
  /\ row' = [row EXCEPT ![r] = status]
  /\ file' = [file EXCEPT ![r] = FALSE]

(* The source of the listing is not looked at again. *)
Settle(c) == source' = [source EXCEPT ![c] = "flat"]

LetGo(c) ==
  /\ found' = [found EXCEPT ![c] = {}]
  /\ revived' = revived \ {c}

Leave(c) == Goto(c, "idle") /\ Settle(c) /\ LetGo(c)

(* A listing names the video; one that is known to be upcoming is passed
   over, but not every listing knows. *)
Begin(c) ==
  /\ c \in Checkers /\ pc[c] = "idle"
  /\ \E s \in Sources :
       /\ c = "backfill" => s # "feed"
       /\ source' = [source EXCEPT ![c] = s]
  /\ Goto(c, "archive")
  /\ UNCHANGED <<world, dbVars, found, revived, had, asked>>

ReadArchive(c) ==
  /\ pc[c] = "archive"
  /\ CASE arch = "none" -> Goto(c, "existing") /\ Settle(c) /\ UNCHANGED <<found, revived>>
       [] arch = "plain" -> Goto(c, "download") /\ UNCHANGED <<source, found, revived>>
       [] arch = "lapsed" -> Goto(c, "lapse") /\ UNCHANGED <<source, found, revived>>
       [] OTHER -> Leave(c)
  /\ asked' = (asked \/ seed # "done")
  /\ UNCHANGED <<world, dbVars, had>>

(* archive.delete, whatever the entry is by now. *)
Unarchive == arch' = "none" /\ had' = FALSE

DropLapsed(c) ==
  /\ pc[c] = "lapse"
  /\ Unarchive
  /\ Goto(c, "download")
  /\ UNCHANGED <<world, seed, row, file, ending, source, found, revived, asked>>

(* Mutant: what a dated source lists is taken for new. *)
ReconsideredUndated(c) == source[c] \in {"feed", "rss"}

(* An entry that no completed download stands behind is taken for a seed.  It
   is reconsidered if the video came out after the subscription, or if the
   source lists recent uploads only. *)
Reconsidered(c) == source[c] = "feed" \/ (source[c] = "rss" /\ era = "after")

(* Mutant: an entry without a file keeps the video away for ever. *)
FindOnlyCompleted(c) ==
  /\ pc[c] = "download"
  /\ IF With({"completed"}) # {}
     THEN \E r \in With({"completed"}) :
            /\ Goto(c, "probe") /\ Settle(c) /\ UNCHANGED revived
            /\ found' = [found EXCEPT ![c] = {r}]
     ELSE Leave(c)
  /\ asked' = (asked \/ source[c] = "feed")
  /\ UNCHANGED <<world, dbVars, had>>

FindCompleted(c) ==
  /\ pc[c] = "download"
  /\ IF With({"completed"}) # {}
     THEN \E r \in With({"completed"}) :
            /\ Goto(c, "probe") /\ Settle(c) /\ UNCHANGED revived
            /\ found' = [found EXCEPT ![c] = {r}]
     ELSE IF Reconsidered(c)
          THEN Goto(c, "forget") /\ Settle(c) /\ UNCHANGED <<found, revived>>
          ELSE Leave(c)
  /\ asked' = (asked \/ source[c] = "feed")
  /\ UNCHANGED <<world, dbVars, had>>

ForgetSeed(c) ==
  /\ pc[c] = "forget"
  /\ Unarchive
  /\ Goto(c, "existing")
  /\ UNCHANGED <<world, seed, row, file, ending, source, found, revived, asked>>

(* Mutant: the file is not looked for. *)
ProbeNothing(c) ==
  /\ pc[c] = "probe"
  /\ Goto(c, "dropArchive")
  /\ UNCHANGED <<source, found, revived, world, dbVars, had, asked>>

Probe(c) ==
  /\ pc[c] = "probe"
  /\ IF \E r \in found[c] : file[r]
     THEN Leave(c)
     ELSE Goto(c, "dropArchive") /\ UNCHANGED <<source, found, revived>>
  /\ UNCHANGED <<world, dbVars, had, asked>>

(* The file is gone: entry and row go too.  A delete that finds nothing throws
   and ends the whole check. *)
DropArchive(c) ==
  /\ pc[c] = "dropArchive"
  /\ IF arch = "none"
     THEN Leave(c) /\ UNCHANGED <<arch, had>>
     ELSE Unarchive /\ Goto(c, "dropRow") /\ UNCHANGED <<source, found, revived>>
  /\ UNCHANGED <<world, seed, row, file, ending, asked>>

DropRow(c) ==
  /\ pc[c] = "dropRow"
  /\ \E r \in found[c] :
       IF row[r] = "none"
       THEN Leave(c) /\ UNCHANGED <<row, file>>
       ELSE /\ Gone(r, "none")
            /\ Goto(c, "existing")
            /\ LetGo(c) /\ UNCHANGED source
  /\ UNCHANGED <<world, seed, arch, ending, had, asked>>

FindExisting(c) ==
  /\ pc[c] = "existing"
  /\ IF With({"active", "completed"}) # {}
     THEN Leave(c)
     ELSE Goto(c, "offer") /\ UNCHANGED <<source, found, revived>>
  /\ UNCHANGED <<world, dbVars, had, asked>>

(* createDownload refuses a URL that is being downloaded, then creates the
   row.  A user's request begins here. *)
Request ==
  /\ pc["request"] = "idle"
  /\ Goto("request", "offer")
  /\ asked' = TRUE
  /\ UNCHANGED <<world, dbVars, source, found, revived, had>>

Offer(c) ==
  /\ pc[c] = "offer"
  /\ IF With({"active"}) # {}
     THEN Leave(c)
     ELSE Goto(c, "insert") /\ UNCHANGED <<source, found, revived>>
  /\ UNCHANGED <<world, dbVars, had, asked>>

(* Where a new row goes, which no caller can name yet: the bound on rows makes
   one that is over give way, never one that a check or a write to come knows. *)
Named == UNION {found[c] : c \in Callers} \cup {r \in Rows : ending[r] # "no"}

Room ==
  IF With({"none"}) \subseteq Named
  THEN With({"failed", "cancelled", "tombstone"}) \ Named
  ELSE With({"none"}) \ Named

Insert(c) ==
  /\ pc[c] = "insert"
  /\ \E r \in Room : row' = [row EXCEPT ![r] = "active"]
  /\ Leave(c)
  /\ UNCHANGED <<world, seed, arch, file, ending, had, asked>>

-----------------------------------------------------------------------------
(* The end of a download: the row is written first when it succeeds, the
   archive first when it fails, and the other write comes whatever has become
   of the row. *)
Complete(r) ==
  /\ row[r] = "active" /\ ending[r] = "no" /\ public /\ ~short
  /\ row' = [row EXCEPT ![r] = "completed"]
  /\ file' = [file EXCEPT ![r] = TRUE]
  /\ ending' = [ending EXCEPT ![r] = "archive"]
  /\ UNCHANGED <<world, seed, arch, callVars, had, asked>>

(* addToArchive leaves an entry that is there as it is; without a title, or
   with the archive switched off, nothing is added. *)
AddToArchive(r) ==
  /\ ending[r] = "archive"
  /\ ending' = [ending EXCEPT ![r] = "no"]
  /\ \/ arch \in {"none", "plain"} /\ arch' = "plain" /\ had' = TRUE
     \/ UNCHANGED <<arch, had>>
  /\ UNCHANGED <<world, seed, row, file, callVars, asked>>

FailArchive(r) ==
  /\ row[r] = "active" /\ ending[r] = "no"
  /\ file' = [file EXCEPT ![r] = FALSE]
  /\ arch' = "backoff" /\ had' = FALSE
  /\ ending' = [ending EXCEPT ![r] = "fail"]
  /\ UNCHANGED <<world, seed, row, callVars, asked>>

(* Older failures of the video are superseded.  The failure is written over
   whatever the row is by now. *)
FailRow(r) ==
  /\ ending[r] = "fail"
  /\ row' = [q \in Rows |-> CASE q = r /\ row[q] # "none" -> "failed"
                              [] q # r /\ row[q] = "failed" -> "none"
                              [] OTHER -> row[q]]
  /\ ending' = [ending EXCEPT ![r] = "no"]
  /\ UNCHANGED <<world, seed, arch, file, callVars, had, asked>>

(* The metadata rule the video out: a premiere is dropped without a trace, a
   short is archived for good, a video over the duration limit for a while. *)
Skip(r) ==
  /\ row[r] = "active" /\ ending[r] = "no"
  /\ \/ ~public /\ UNCHANGED <<arch, had>>
     \/ public /\ short /\ arch' = "never" /\ had' = FALSE
     \/ public /\ ~short /\ arch' = "backoff" /\ had' = FALSE
  /\ Gone(r, "none")
  /\ UNCHANGED <<world, seed, ending, callVars, asked>>

-----------------------------------------------------------------------------
(* Removals. *)
Done(r) == row[r] = "completed" /\ ending[r] = "no"

(* Watched long enough: a cache item goes with its row, a library item leaves
   a tombstone; the archive is not touched. *)
AutoDelete(r) ==
  /\ Done(r) /\ file[r]
  /\ \E status \in {"none", "tombstone"} : Gone(r, status)
  /\ UNCHANGED <<world, seed, arch, ending, callVars, had, asked>>

(* A quota takes the file, the archive entry and the row. *)
Evict(r) ==
  /\ Done(r) /\ file[r]
  /\ Gone(r, "none") /\ Unarchive
  /\ UNCHANGED <<world, seed, ending, callVars, asked>>

(* reconcileFiles finds the file missing: a cache item goes with its entry, a
   library item leaves a tombstone. *)
Reconcile(r) ==
  /\ Done(r) /\ ~file[r]
  /\ \/ Gone(r, "none") /\ Unarchive
     \/ Gone(r, "tombstone") /\ UNCHANGED <<arch, had>>
  /\ UNCHANGED <<world, seed, ending, callVars, asked>>

(* deleteDownload, of a row in any state. *)
UserDelete(r) ==
  /\ row[r] # "none"
  /\ Gone(r, "none") /\ Unarchive
  /\ asked' = TRUE
  /\ UNCHANGED <<world, seed, ending, callVars, revived>>

(* cancelDownload, of a row in any state: the file it names is unlinked, also
   that of a finished download, and the archive is not touched. *)
Cancel(r) ==
  /\ row[r] # "none"
  /\ Gone(r, "cancelled")
  /\ UNCHANGED <<world, seed, arch, ending, callVars, had, asked>>

(* A row is started again, maybe under the eyes of a check that holds it. *)
Revive(r) ==
  /\ row' = [row EXCEPT ![r] = "active"]
  /\ revived' = revived \cup {c \in Callers : r \in found[c]}
  /\ file' = file

(* retryDownload and the heal pass.  A row whose video another row of its
   profile has is dropped instead. *)
Retry(r) ==
  /\ row[r] \in {"failed", "cancelled"}
  /\ \/ /\ \E q \in With({"completed"}) : file[q]
        /\ Gone(r, "none")
        /\ UNCHANGED <<arch, had, revived>>
     \/ Revive(r) /\ Unarchive
  /\ UNCHANGED <<world, seed, ending, pc, source, found, asked>>

(* A metadata job left over from an earlier start of the row (see
   DownloadPipeline) stops for a cancelled row only. *)
Rerun(r) ==
  /\ row[r] \in {"completed", "failed", "tombstone"}
  /\ Revive(r)
  /\ UNCHANGED <<world, seed, arch, ending, pc, source, found, had, asked>>

(* The file is deleted behind the program's back. *)
LoseFile(r) ==
  /\ Done(r) /\ file[r]
  /\ file' = [file EXCEPT ![r] = FALSE]
  /\ UNCHANGED <<world, seed, arch, row, ending, callVars, had, asked>>

-----------------------------------------------------------------------------
CallStep(c) ==
  \/ ReadArchive(c) \/ DropLapsed(c) \/ FindCompleted(c) \/ ForgetSeed(c)
  \/ Probe(c) \/ DropArchive(c) \/ DropRow(c) \/ FindExisting(c)
  \/ Offer(c) \/ Insert(c)

Next ==
  \/ Seed \/ Premiere \/ CooldownLapses \/ Request
  \/ \E c \in Callers : Begin(c) \/ CallStep(c)
  \/ \E r \in Rows : \/ Complete(r) \/ AddToArchive(r)
                     \/ FailArchive(r) \/ FailRow(r) \/ Skip(r)
                     \/ AutoDelete(r) \/ Evict(r) \/ Reconcile(r) \/ UserDelete(r)
                     \/ Cancel(r) \/ Retry(r) \/ Rerun(r) \/ LoseFile(r)

Spec == Init /\ [][Next]_vars

(* The checks come round (CheckChain) and now and then reach the RSS feed;
   downloads end, and one that is tried again and again succeeds. *)
Fairness ==
  /\ WF_vars(Seed) /\ WF_vars(CooldownLapses)
  /\ SF_vars(Begin("check") /\ source'["check"] = "rss")
  /\ \A c \in Callers : WF_vars(CallStep(c))
  /\ \A r \in Rows : WF_vars(AddToArchive(r) \/ FailRow(r)) /\ WF_vars(Reconcile(r))
  /\ \A r \in Rows : SF_vars(Complete(r))

FairSpec == Spec /\ Fairness

-----------------------------------------------------------------------------
(* The types; only a row that is there and not over has a file; a caller
   remembers a row just while it deals with its file. *)
TypeOK ==
  /\ era \in {"before", "after"} /\ public \in BOOLEAN /\ short \in BOOLEAN
  /\ seed \in {"pending", "done", "failed"} /\ arch \in Entries
  /\ row \in [Rows -> Statuses] /\ file \in [Rows -> BOOLEAN]
  /\ ending \in [Rows -> Endings]
  /\ pc \in [Callers -> Stages] /\ source \in [Callers -> {"rss", "flat", "feed"}]
  /\ found \in [Callers -> SUBSET Rows]
  /\ had \in BOOLEAN /\ asked \in BOOLEAN /\ revived \subseteq Callers
  /\ \A r \in Rows : /\ file[r] => row[r] \in {"active", "completed"}
                     /\ ending[r] = "fail" => ~file[r] /\ row[r] # "completed"
  /\ \A c \in Callers : found[c] # {} <=> pc[c] \in {"probe", "dropArchive", "dropRow"}

(* New subscriptions are future-only (subscription.service.ts:740): once the
   video is archived as back catalog, no check and no backfill downloads it,
   however they interleave with each other and with the seeding, as long as
   none of them read the archive before it was seeded, no trusted feed vouched
   for the video and no user asked for it. *)
FutureOnly ==
  era = "before" /\ seed = "done" /\ ~asked => \A r \in Rows : row[r] = "none"

(* What a check deletes is dead (subscription.service.ts:892-904): neither a
   running download nor one that has its file, through every removal,
   cancellation and failure since it found the row, unless that very row was
   started again under its eyes. *)
OnlyDeadRowsDropped ==
  \A c \in Callers \ revived : pc[c] \in {"dropArchive", "dropRow"} =>
    \A r \in found[c] : ~file[r] /\ row[r] # "active"

(* A new upload is not lost for ever to its archive entry (844-954): whether
   it was seeded while a premiere, skipped as upcoming, failed, deleted or
   evicted, a channel that keeps listing it gets it again. *)
NewVideoArrives ==
  <>[](era = "after" /\ public /\ ~short) => []<>(\E r \in Rows : file[r])

-----------------------------------------------------------------------------
(* Not true of this code: TLC finds a counterexample (README). *)

(* "Checks both the archive and pending/active downloads to prevent duplicates"
   (subscription.service.ts:828): a check does not take the row of a running
   download away, by the id it read when the row was completed. *)
NothingAliveDropped ==
  \A c \in Callers : pc[c] = "dropRow" =>
    \A r \in found[c] : ~file[r] /\ row[r] # "active"

(* "a video that was only *seeded* (archived without ever being downloaded) is
   reconsidered" (subscription.service.ts:833): the entry of a video that was
   downloaded, and is neither there any more nor on its way, is not taken for
   a seed. *)
OnlySeededReconsidered ==
  \A c \in Callers : pc[c] = "forget" /\ had => With({"active", "completed"}) # {}
=============================================================================
