------------------------------ MODULE LiveView ------------------------------
(***************************************************************************)
(* The list of active downloads in a browser (lib/stores/sse.svelte.ts),   *)
(* kept up to date by server-sent events (server/sse/emitter.ts), for one  *)
(* download and one page of its owner.  Nothing is replayed: a new         *)
(* connection is told the rows that are active when it is made, and events *)
(* are sent to whoever is registered at that moment.                       *)
(*                                                                         *)
(* The services write the row and announce it after an await.  An action   *)
(* is the code between two awaits, or one event handled by the page.  What *)
(* a card says is left out: the question is whether there is one.          *)
(***************************************************************************)
EXTENDS Naturals, Sequences

CONSTANTS
  MaxRetries,  \* bound: retries of the download
  MaxBreaks    \* bound: connections lost and restarts of the server

ASSUME BoundAssumption == MaxRetries \in Nat /\ MaxBreaks \in Nat

VARIABLES
  row,         \* "none" before createDownload, "active", "ended" (completed),
               \* "failed" (or cancelled), "gone"
  announce,    \* events of writes that were made, still to be emitted
  registered,  \* SSEEmitter.clients has the page's connection
  snapshot,    \* the initial state: "off", "asked", "active" or "inactive"
  link,        \* EventSource: "closed", "open", or "silent" (dead unnoticed)
  pipe,        \* messages sent and not handled yet
  card,        \* the download is in the page's list
  timers,      \* removals the page has scheduled
  retries, breaks,
  cut,         \* history: a removal took the card of a download that runs again
  late,        \* history: the snapshot named a download that had ended
  blind        \* history: the snapshot could not be read

rowVars == <<row, announce, retries>>
serverVars == <<registered, snapshot>>
pageVars == <<card, timers, cut>>
viewVars == <<rowVars, serverVars, link, pipe, pageVars, breaks, late, blind>>

ViewInit ==
  /\ row \in {"none", "active", "failed"} /\ announce = {} /\ retries = 0
  /\ registered = FALSE /\ snapshot = "off"
  /\ link = "closed" /\ pipe = <<>>
  /\ card = FALSE /\ timers = 0 /\ cut = FALSE
  /\ breaks = 0 /\ late = FALSE /\ blind = FALSE

-----------------------------------------------------------------------------
(* The download. *)
Write(status, event) ==
  /\ row' = status
  /\ announce' = announce \cup {event}
  /\ UNCHANGED <<serverVars, link, pipe, pageVars, breaks, late, blind>>

CreateDownload == row = "none" /\ Write("active", "created") /\ UNCHANGED retries

(* It is processed once it has been announced. *)
Running == row = "active" /\ "created" \notin announce

(* Between the row and download:complete lie the subtitles and the promotion. *)
CompleteDownload == Running /\ Write("ended", "ended") /\ UNCHANGED retries

(* It failed or was cancelled.  A completed download is cancelled too, as the
   first step of its deletion. *)
StopDownload ==
  /\ Running \/ row = "ended"
  /\ Write("failed", "ended") /\ UNCHANGED retries

(* A skip while it runs, or deleteDownload after its cancellation. *)
DeleteDownload ==
  /\ Running \/ row = "failed"
  /\ Write("gone", "removed") /\ UNCHANGED retries

(* Whoever retries it has seen it fail. *)
RetryDownload ==
  /\ row = "failed" /\ "ended" \notin announce /\ retries < MaxRetries
  /\ Write("active", "created") /\ retries' = retries + 1

-----------------------------------------------------------------------------
(* The server. *)
Send(message) == pipe' = IF link = "open" THEN Append(pipe, message) ELSE pipe

(* Mutant: events pass a client by until it has its initial state. *)
EmitToGreeted(event) ==
  /\ event \in announce
  /\ announce' = announce \ {event}
  /\ IF registered /\ snapshot = "off" THEN Send(event) ELSE pipe' = pipe
  /\ UNCHANGED <<row, retries, serverVars, link, pageVars, breaks, late, blind>>

(* emitToOwner and broadcastToUser. *)
Emit(event) ==
  /\ event \in announce
  /\ announce' = announce \ {event}
  /\ IF registered THEN Send(event) ELSE pipe' = pipe
  /\ UNCHANGED <<row, retries, serverVars, link, pageVars, breaks, late, blind>>

(* connectSSE and registerClient: the client is registered and greeted, then
   the initial state is asked for. *)
Connect ==
  /\ link = "closed"
  /\ link' = "open" /\ pipe' = <<"connected">>
  /\ registered' = TRUE /\ snapshot' = "asked"
  /\ late' = FALSE /\ blind' = FALSE
  /\ UNCHANGED <<rowVars, pageVars, breaks>>

ReadSnapshot ==
  /\ snapshot = "asked"
  /\ snapshot' = IF row = "active" THEN "active" ELSE "inactive"
  /\ UNCHANGED <<rowVars, registered, link, pipe, pageVars, breaks, late, blind>>

(* The error is logged; the page is told nothing. *)
SnapshotFails ==
  /\ snapshot = "asked"
  /\ snapshot' = "off" /\ blind' = TRUE
  /\ UNCHANGED <<rowVars, registered, link, pipe, pageVars, breaks, late>>

SendSnapshot ==
  /\ snapshot \in {"active", "inactive"}
  /\ IF snapshot = "active" THEN Send("created") ELSE pipe' = pipe
  /\ late' = (late \/ (snapshot = "active" /\ row # "active" /\ announce = {}))
  /\ snapshot' = "off"
  /\ UNCHANGED <<rowVars, registered, link, pageVars, breaks, blind>>

-----------------------------------------------------------------------------
(* The connection. *)
(* Mutant: the client stays in the registry and its start() goes on. *)
ClosedHalf == link' = "closed" /\ pipe' = <<>> /\ UNCHANGED serverVars

Closed == link' = "closed" /\ pipe' = <<>> /\ registered' = FALSE /\ snapshot' = "off"

(* onerror: the page connects again in five seconds. *)
ConnectionFails ==
  /\ link = "open" /\ breaks < MaxBreaks
  /\ breaks' = breaks + 1
  /\ Closed
  /\ UNCHANGED <<rowVars, pageVars, late, blind>>

(* The peer vanishes and nobody is told. *)
ConnectionDies ==
  /\ link = "open" /\ breaks < MaxBreaks
  /\ breaks' = breaks + 1
  /\ link' = "silent" /\ pipe' = <<>>
  /\ UNCHANGED <<rowVars, serverVars, pageVars, late, blind>>

(* No ping for 75 seconds. *)
Watchdog ==
  /\ link = "silent"
  /\ Closed
  /\ UNCHANGED <<rowVars, pageVars, breaks, late, blind>>

(* What was not announced never will be; an active download is resumed. *)
ServerRestarts ==
  /\ breaks < MaxBreaks
  /\ breaks' = breaks + 1
  /\ announce' = {}
  /\ IF link = "silent"
     THEN registered' = FALSE /\ snapshot' = "off" /\ UNCHANGED <<link, pipe>>
     ELSE Closed
  /\ UNCHANGED <<row, retries, pageVars, late, blind>>

-----------------------------------------------------------------------------
(* The page. *)

(* Mutant: the list survives a reconnection. *)
ListedStill(message) == message = "created" \/ (card /\ message # "removed")

(* Whether the download is in the list after a message.  "connected" empties
   the list, and an end leaves the card in it for a while. *)
Listed(message) == message = "created" \/ (card /\ message = "ended")

Removals(message) == IF message = "ended" THEN timers + 1 ELSE timers

Handle ==
  /\ pipe # <<>>
  /\ LET message == Head(pipe)
     IN /\ card' = Listed(message)
        /\ timers' = Removals(message)
        /\ cut' = (cut /\ message = "ended")
  /\ pipe' = Tail(pipe)
  /\ UNCHANGED <<rowVars, serverVars, link, breaks, late, blind>>

(* Three or five seconds after the end the card goes, whatever it shows. *)
RemovalDue ==
  /\ timers > 0
  /\ timers' = timers - 1
  /\ card' = FALSE
  /\ cut' = (cut \/ (card /\ row = "active"))
  /\ UNCHANGED <<rowVars, serverVars, link, pipe, breaks, late, blind>>

-----------------------------------------------------------------------------
DownloadStep ==
  \/ CreateDownload \/ CompleteDownload \/ StopDownload \/ DeleteDownload
  \/ RetryDownload

ServerStep ==
  \/ \E event \in announce : Emit(event)
  \/ ReadSnapshot \/ SnapshotFails \/ SendSnapshot

ViewNext ==
  \/ DownloadStep \/ ServerStep
  \/ Connect \/ ConnectionFails \/ ConnectionDies \/ Watchdog \/ ServerRestarts
  \/ Handle \/ RemovalDue

ViewSpec == ViewInit /\ [][ViewNext]_viewVars

(* Events are emitted and handled, timers run, and the page connects again. *)
ViewFairness ==
  /\ WF_viewVars(ServerStep) /\ WF_viewVars(Connect) /\ WF_viewVars(Watchdog)
  /\ WF_viewVars(Handle) /\ WF_viewVars(RemovalDue)

FairViewSpec == ViewSpec /\ ViewFairness

-----------------------------------------------------------------------------
Events == {"created", "ended", "removed"}

ViewTypeOK ==
  /\ row \in {"none", "active", "failed", "ended", "gone"}
  /\ announce \subseteq Events /\ retries \in 0 .. MaxRetries
  /\ registered \in BOOLEAN /\ snapshot \in {"off", "asked", "active", "inactive"}
  /\ link \in {"closed", "open", "silent"}
  /\ pipe \in Seq(Events \cup {"connected"})
  /\ pipe # <<>> => link = "open"
  /\ link = "closed" => ~registered /\ snapshot = "off"
  /\ \A i \in 1 .. Len(pipe) : pipe[i] = "connected" => i = 1
  /\ card \in BOOLEAN /\ timers \in Nat
  /\ breaks \in 0 .. MaxBreaks
  /\ cut \in BOOLEAN /\ late \in BOOLEAN /\ blind \in BOOLEAN

(* Nothing on its way to the page. *)
Settled == link = "open" /\ snapshot = "off" /\ pipe = <<>> /\ announce = {}

(* A running download is never missing from a page that is connected: nothing
   falls between the registration of the client and the initial state, or
   between two connections (emitter.ts:46, 53), unless that state could not be
   read, or the removal of an earlier failure took the card. *)
RunningIsShown == Settled /\ row = "active" /\ ~cut /\ ~blind => card

(* A download that has ended does not stay on the page, whichever event was
   lost with a connection or with the server (sse.svelte.ts:39), unless the
   initial state names it after its end was announced. *)
NoZombieCard ==
  <>[](row \notin {"none", "active"} /\ ~late) => <>[]~card
=============================================================================
