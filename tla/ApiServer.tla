----------------------------- MODULE ApiServer -----------------------------
(***************************************************************************)
(* One API process of main.rs over its lives: start-up, the Unix socket    *)
(* (or TCP port) it serves on, the accept loop, one task per connection,   *)
(* the handlers, and the per-phase counters they record.  The socket file  *)
(* is in a volume and survives the process.                                *)
(*                                                                         *)
(* The peers (HAProxy) are the environment: they connect, send one request *)
(* at a time on a connection they keep, and may close it at any moment.    *)
(* A handler has no await, so it holds one of the runtime's worker threads *)
(* from its first to its last step.  What vectorize and search find for a  *)
(* body is a CONSTANT; IvfSearch is about the search itself.               *)
(***************************************************************************)
EXTENDS Integers, Sequences, FiniteSets, Verdict

CONSTANTS
    Conns,       \* connections
    Bodies,      \* requests
    Outcome,     \* what a request leads to, see Outcomes
    Workers,     \* TOKIO_WORKER_THREADS
    SameUid,     \* the peer may use the socket before the chmod
    MaxStarts,   \* bound: how often the process is started
    MaxSent,     \* bound: how many requests are sent
    None

\* A request for /ready or /metrics, a body that does not parse, one whose search panics, or
\* one with so many frauds among its K neighbours.
Outcomes == [kind : {"ready", "metrics", "malformed", "panic", "score"}, frauds : 0 .. K]

\* None is no answer to a request.
NoneIsNoAnswer(b) ==
    /\ \A r \in {"200", "400", "disabled", "page"} : None # [to |-> b, is |-> r]
    /\ \A n \in 0 .. K : None # [to |-> b, is |-> RESPONSES(n)]

ASSUME ServerAssumption ==
    /\ IsFiniteSet(Conns)
    /\ \A b \in Bodies : NoneIsNoAnswer(b)
    /\ Outcome \in [Bodies -> Outcomes]
    /\ None \notin Bodies
    /\ Workers \in Nat \ {0}
    /\ SameUid \in BOOLEAN
    /\ MaxStarts \in Nat /\ MaxSent \in Nat

VARIABLES
    proc,     \* where main is
    cause,    \* history: why the process is down
    uds,      \* SOCKET_PATH is set
    enabled,  \* timing::ENABLED
    sock,     \* the file at SOCKET_PATH
    kept,     \* history: this life could not remove the file it found
    conn,     \* a connection: "gone" is one the peer left behind with a request
    task,     \* where the handler of a connection is
    ask,      \* the request waiting or being served on a connection
    found,    \* how many frauds its search found
    reply,    \* the last answer on a connection, and to what
    page,     \* the counts the /metrics handler of a connection has read
    count,    \* the count of each phase's PhaseStats
    panicked, \* history: the recorded requests of this life that panicked
    starts, sent

main == <<proc, cause, uds, enabled, sock, kept>>
conns == <<conn, task, ask, found, reply, page>>
stats == <<count, panicked>>
bounds == <<starts, sent>>
vars == <<main, conns, stats, bounds>>

Phases == {"PARSE", "VECTORIZE", "SEARCH", "TOTAL"}

----------------------------------------------------------------------------
Init ==
    /\ proc = "down" /\ cause = "never started"
    /\ uds = TRUE /\ enabled = FALSE
    /\ sock = "none" /\ kept = FALSE
    /\ conn = [c \in Conns |-> "none"]
    /\ task = [c \in Conns |-> "idle"]
    /\ ask = [c \in Conns |-> None]
    /\ found = [c \in Conns |-> 0]
    /\ reply = [c \in Conns |-> None]
    /\ page = [c \in Conns |-> <<>>]
    /\ count = [p \in Phases |-> 0] /\ panicked = 0
    /\ starts = 0 /\ sent = 0

----------------------------------------------------------------------------
(* The process                                                             *)

\* The memory and the connections are lost, the socket file stays.
Exit(why) ==
    /\ proc' = "down"
    /\ cause' = why
    /\ sock' = IF sock = "none" THEN "none" ELSE "stale"
    /\ conn' = [c \in Conns |-> "none"]
    /\ task' = [c \in Conns |-> "idle"]
    /\ ask' = [c \in Conns |-> None]
    /\ enabled' = FALSE
    /\ count' = [p \in Phases |-> 0] /\ panicked' = 0
    /\ page' = [c \in Conns |-> <<>>]
    /\ UNCHANGED <<uds, kept, found, reply, bounds>>

LaunchServingFirst ==
    /\ proc = "down"
    /\ starts < MaxStarts
    /\ proc' = "health"
    /\ uds' = TRUE
    /\ starts' = starts + 1
    /\ kept' = FALSE
    /\ UNCHANGED <<cause, enabled, sock, conns, stats, sent>>
\* main starts with the files, in the environment it is given.
Launch ==
    /\ proc = "down"
    /\ starts < MaxStarts
    /\ proc' = "load"
    /\ uds' \in BOOLEAN
    /\ starts' = starts + 1
    /\ kept' = FALSE
    /\ UNCHANGED <<cause, enabled, sock, conns, stats, sent>>

\* The three files are read; METRICS is looked at once.
LoadAll ==
    /\ proc = "load"
    /\ enabled' \in BOOLEAN
    /\ proc' = IF uds THEN "health" ELSE "tcp"
    /\ UNCHANGED <<cause, uds, sock, kept, conns, stats, bounds>>

\* The health listener is bound, and spawned, before the socket exists.
BindHealth ==
    /\ proc = "health"
    /\ proc' = "remove"
    /\ UNCHANGED <<cause, uds, enabled, sock, kept, conns, stats, bounds>>

RemoveFileNot ==
    /\ proc = "remove"
    /\ proc' = "bind"
    /\ UNCHANGED <<cause, uds, enabled, sock, kept, conns, stats, bounds>>
\* The socket of a previous life goes; that there is none is no error.
RemoveFile ==
    /\ proc = "remove"
    /\ sock' = "none"
    /\ proc' = "bind"
    /\ UNCHANGED <<cause, uds, enabled, kept, conns, stats, bounds>>

\* let _ = remove_file(..): an error is ignored, the file stays.
RemoveFileFails ==
    /\ proc = "remove"
    /\ sock # "none"
    /\ kept' = TRUE
    /\ proc' = "bind"
    /\ UNCHANGED <<cause, uds, enabled, sock, conns, stats, bounds>>

\* From here on the kernel queues connections of peers that may open the file.
BindUds ==
    /\ proc = "bind"
    /\ sock = "none"
    /\ sock' = "private"
    /\ proc' = "chmod"
    /\ UNCHANGED <<cause, uds, enabled, kept, conns, stats, bounds>>

\* The address is in use.
BindUdsFails ==
    /\ proc = "bind"
    /\ sock # "none"
    /\ Exit("bind uds")

SetPermissions ==
    /\ proc = "chmod"
    /\ sock' = "open"
    /\ proc' = "accept"
    /\ UNCHANGED <<cause, uds, enabled, kept, conns, stats, bounds>>

BindTcp ==
    /\ proc = "tcp"
    /\ proc' = "accept"
    /\ UNCHANGED <<cause, uds, enabled, sock, kept, conns, stats, bounds>>

\* A file is missing or refused, a port is taken, the path of the socket is no good,
\* the chmod fails: panic.
StartFails ==
    /\ proc \in {"load", "health", "tcp", "bind", "chmod"}
    /\ Exit("start")

Killed ==
    /\ proc # "down"
    /\ Exit("killed")

----------------------------------------------------------------------------
(* Connections                                                             *)

Listening ==
    \/ ~ uds /\ proc = "accept"
    \/ uds /\ sock = "private" /\ SameUid
    \/ uds /\ sock = "open"

Connect(c) ==
    /\ conn[c] = "none"
    /\ Listening
    /\ conn' = [conn EXCEPT ![c] = "queued"]
    /\ reply' = [reply EXCEPT ![c] = None]
    /\ UNCHANGED <<main, task, ask, found, page, stats, bounds>>

\* accept, and a task of its own for the connection.
Accept(c) ==
    /\ proc = "accept"
    /\ conn[c] = "queued"
    /\ conn' = [conn EXCEPT ![c] = "open"]
    /\ UNCHANGED <<main, task, ask, found, reply, page, stats, bounds>>

\* An error of accept on the Unix socket is fatal; axum::serve tries again.
AcceptFails ==
    /\ proc = "accept" /\ uds
    /\ \E c \in Conns : conn[c] = "queued"
    /\ Exit("uds accept failed")

Send(c, b) ==
    /\ conn[c] \in {"queued", "open"}
    /\ ask[c] = None
    /\ sent < MaxSent
    /\ ask' = [ask EXCEPT ![c] = b]
    /\ sent' = sent + 1
    /\ UNCHANGED <<main, conn, task, found, reply, page, stats, starts>>

\* A handler that runs goes on without its peer.  A request that still waits is lost
\* with the connection, or hyper reads it all the same and finds out when it answers;
\* for a queued connection, Accept before the close has that outcome.
PeerCloses(c) ==
    /\ conn[c] \in {"queued", "open"}
    /\ \/ /\ task[c] = "idle"
          /\ conn' = [conn EXCEPT ![c] = "none"]
          /\ ask' = [ask EXCEPT ![c] = None]
       \/ /\ conn[c] = "open" /\ ask[c] # None
          /\ conn' = [conn EXCEPT ![c] = "gone"]
          /\ ask' = ask
    /\ UNCHANGED <<main, task, found, reply, page, stats, bounds>>

----------------------------------------------------------------------------
(* Handlers                                                                *)

Running == {c \in Conns : task[c] # "idle"}

\* if let Some(t) = t { timing::P.record(..) }
Record(p) == count' = IF enabled THEN [count EXCEPT ![p] = @ + 1] ELSE count

\* The response goes to the peer, or nowhere, and the connection is kept.
Respond(c, r) ==
    /\ task' = [task EXCEPT ![c] = "idle"]
    /\ ask' = [ask EXCEPT ![c] = None]
    /\ IF conn[c] = "open"
       THEN /\ reply' = [reply EXCEPT ![c] = [to |-> ask[c], is |-> r]]
            /\ conn' = conn
       ELSE /\ conn' = [conn EXCEPT ![c] = "none"]
            /\ reply' = reply

\* A worker thread takes the request up.
Begin(c) ==
    /\ conn[c] \in {"open", "gone"}
    /\ task[c] = "idle" /\ ask[c] # None
    /\ Cardinality(Running) < Workers
    /\ task' = [task EXCEPT ![c] =
          IF Outcome[ask[c]].kind \in {"ready", "metrics"} THEN Outcome[ask[c]].kind ELSE "parse"]
    /\ UNCHANGED <<main, conn, ask, found, reply, page, stats, bounds>>

Ready(c) ==
    /\ task[c] = "ready"
    /\ Respond(c, "200")
    /\ UNCHANGED <<main, found, page, stats, bounds>>

\* report_all without METRICS.
MetricsDisabled(c) ==
    /\ task[c] = "metrics" /\ ~ enabled
    /\ Respond(c, "disabled")
    /\ UNCHANGED <<main, found, page, stats, bounds>>

ReportOrder == <<"PARSE", "VECTORIZE", "SEARCH", "TOTAL">>

\* report_all, the report of one phase (Timing) after the other, while the other
\* worker threads go on.
ReportPhase(c) ==
    /\ task[c] = "metrics" /\ enabled
    /\ Len(page[c]) < Len(ReportOrder)
    /\ page' = [page EXCEPT ![c] = Append(@, count[ReportOrder[Len(@) + 1]])]
    /\ UNCHANGED <<main, conn, task, ask, found, reply, stats, bounds>>

ReportDone(c) ==
    /\ task[c] = "metrics" /\ enabled
    /\ Len(page[c]) = Len(ReportOrder)
    /\ Respond(c, "page")
    /\ page' = [page EXCEPT ![c] = <<>>]
    /\ UNCHANGED <<main, found, stats, bounds>>

\* A body that does not parse is answered 400 and recorded nowhere.
BadRequest(c) ==
    /\ task[c] = "parse"
    /\ Outcome[ask[c]].kind = "malformed"
    /\ Respond(c, "400")
    /\ UNCHANGED <<main, found, page, stats, bounds>>

Parse(c) ==
    /\ task[c] = "parse"
    /\ Outcome[ask[c]].kind # "malformed"
    /\ Record("PARSE")
    /\ task' = [task EXCEPT ![c] = "vectorize"]
    /\ UNCHANGED <<main, conn, ask, found, reply, page, panicked, bounds>>

Vectorize(c) ==
    /\ task[c] = "vectorize"
    /\ Record("VECTORIZE")
    /\ task' = [task EXCEPT ![c] = "search"]
    /\ UNCHANGED <<main, conn, ask, found, reply, page, panicked, bounds>>

Search(c) ==
    /\ task[c] = "search"
    /\ Outcome[ask[c]].kind # "panic"
    /\ found' = [found EXCEPT ![c] = Outcome[ask[c]].frauds]
    /\ Record("SEARCH")
    /\ task' = [task EXCEPT ![c] = "total"]
    /\ UNCHANGED <<main, conn, ask, reply, page, panicked, bounds>>

SearchPanicsConnectionStays(c) ==
    /\ task[c] = "search"
    /\ Outcome[ask[c]].kind = "panic"
    /\ task' = [task EXCEPT ![c] = "idle"]
    /\ ask' = [ask EXCEPT ![c] = None]
    /\ panicked' = IF enabled THEN panicked + 1 ELSE panicked
    /\ UNCHANGED <<main, conn, found, reply, page, count, bounds>>
SearchPanicsWorkerStays(c) ==
    /\ task[c] = "search"
    /\ Outcome[ask[c]].kind = "panic"
    /\ task' = [task EXCEPT ![c] = "dead"]
    /\ ask' = [ask EXCEPT ![c] = None]
    /\ panicked' = IF enabled THEN panicked + 1 ELSE panicked
    /\ UNCHANGED <<main, conn, found, reply, page, count, bounds>>
SearchPanicsRecorded(c) ==
    /\ task[c] = "search"
    /\ Outcome[ask[c]].kind = "panic"
    /\ task' = [task EXCEPT ![c] = "idle"]
    /\ ask' = [ask EXCEPT ![c] = None]
    /\ conn' = [conn EXCEPT ![c] = "none"]
    /\ panicked' = IF enabled THEN panicked + 1 ELSE panicked
    /\ Record("SEARCH")
    /\ UNCHANGED <<main, found, reply, page, bounds>>
\* The panic unwinds the connection's task: no answer, the connection closes, the
\* worker thread is free again, and the phases behind are not recorded.
SearchPanics(c) ==
    /\ task[c] = "search"
    /\ Outcome[ask[c]].kind = "panic"
    /\ task' = [task EXCEPT ![c] = "idle"]
    /\ ask' = [ask EXCEPT ![c] = None]
    /\ conn' = [conn EXCEPT ![c] = "none"]
    /\ panicked' = IF enabled THEN panicked + 1 ELSE panicked
    /\ UNCHANGED <<main, found, reply, page, count, bounds>>

TotalUnrecorded(c) ==
    /\ task[c] = "total"
    /\ Respond(c, RESPONSES(found[c]))
    /\ UNCHANGED <<main, found, page, stats, bounds>>
Total(c) ==
    /\ task[c] = "total"
    /\ Record("TOTAL")
    /\ Respond(c, RESPONSES(found[c]))
    /\ UNCHANGED <<main, found, page, panicked, bounds>>

Handler(c) ==
    \/ Ready(c) \/ MetricsDisabled(c) \/ ReportPhase(c) \/ ReportDone(c)
    \/ BadRequest(c) \/ Parse(c) \/ Vectorize(c)
    \/ Search(c) \/ SearchPanics(c) \/ Total(c)

Startup ==
    \/ LoadAll \/ BindHealth \/ RemoveFile \/ RemoveFileFails
    \/ BindUds \/ BindUdsFails \/ SetPermissions \/ BindTcp \/ StartFails

Next ==
    \/ Launch \/ Startup \/ Killed \/ AcceptFails
    \/ \E c \in Conns :
          \/ Connect(c) \/ Accept(c) \/ PeerCloses(c)
          \/ Begin(c) \/ Handler(c)
          \/ \E b \in Bodies : Send(c, b)

Spec == Init /\ [][Next]_vars

\* main and the handlers run on; the accept loop takes every queued connection
\* and the runtime's queue every ready task, even when the workers are busy now
\* and then.  Nobody has to launch, connect or send.
FairSpec ==
    /\ Spec
    /\ WF_vars(Startup)
    /\ \A c \in Conns : WF_vars(Accept(c)) /\ SF_vars(Begin(c)) /\ WF_vars(Handler(c))

----------------------------------------------------------------------------
(* Properties                                                              *)

TypeOK ==
    /\ proc \in {"down", "load", "health", "tcp", "remove", "bind", "chmod", "accept"}
    /\ sock \in {"none", "stale", "private", "open"}
    /\ uds \in BOOLEAN /\ enabled \in BOOLEAN /\ kept \in BOOLEAN
    /\ conn \in [Conns -> {"none", "queued", "open", "gone"}]
    /\ task \in [Conns -> {"idle", "ready", "metrics", "parse", "vectorize", "search", "total"}]
    /\ ask \in [Conns -> Bodies \cup {None}]
    /\ found \in [Conns -> 0 .. K] /\ DOMAIN reply = Conns
    /\ page \in [Conns -> Seq(Nat)]
    /\ count \in [Phases -> Nat] /\ panicked \in Nat
    /\ \A c \in Conns : conn[c] \in {"none", "queued"} => task[c] = "idle"
    /\ \A c \in Conns : task[c] # "idle" => ask[c] # None

\* The socket file a killed process leaves behind does no harm, however often the
\* process dies, wherever in its start-up, and in whichever mode it ran in between: it
\* keeps a successor from binding only when it cannot be removed, a life past its bind
\* has a socket of its own at the path, and nobody reaches one that no life listens on.
StaleSocketHarmless ==
    /\ cause = "bind uds" /\ proc = "down" => kept
    /\ sock \in {"private", "open"} <=> uds /\ proc \in {"chmod", "accept"}

\* How many handlers are before a step.
At(t) == Cardinality({c \in Conns : task[c] = t})

\* The four counters of /metrics always tell of the same requests: they differ by
\* the handlers that are between two records and by the requests that panicked,
\* whatever the interleaving of the connections; without METRICS all stay 0.
PhasesAccounted ==
    IF enabled
    THEN /\ count["PARSE"] = count["VECTORIZE"] + At("vectorize")
         /\ count["VECTORIZE"] = count["SEARCH"] + At("search") + panicked
         /\ count["SEARCH"] = count["TOTAL"] + At("total")
    ELSE \A p \in Phases : count[p] = 0

\* A /metrics page is put together while requests go on, and still its lines fit:
\* no phase is reported with more requests than a later one has, but for those
\* that were in a handler on another worker thread and those that panicked.
PageFits ==
    \A c \in Conns : \A i, j \in DOMAIN page[c] :
        i < j => page[c][i] - page[c][j] <= Workers - 1 + panicked

\* An answer is that of the request before it on its connection: approved exactly
\* when fewer than 0.6 of the K neighbours are frauds, with that share as score.
AnswerFits ==
    \A c \in Conns : reply[c] # None =>
        LET o == Outcome[reply[c].to]
            r == reply[c].is
        IN  /\ o.kind # "panic"
            /\ o.kind = "ready" => r = "200"
            /\ o.kind = "metrics" => r \in {"disabled", "page"}
            /\ o.kind = "malformed" => r = "400"
            /\ o.kind = "score" => /\ r.fraud_score * K = 10 * o.frauds
                                   /\ r.approved <=> r.fraud_score < 6

\* No request vanishes from a connection that stays open: it is answered there,
\* or the connection closes and the peer knows.
AnsweredOrClosed ==
    [][\A c \in Conns : (ask[c] # None /\ ask'[c] = None) =>
          \/ conn'[c] = "open" /\ reply'[c] # None /\ reply'[c].to = ask[c]
          \/ conn'[c] = "none"]_vars

\* Every request sent comes to an end, also behind requests that panic on the
\* worker threads and those of other connections.
EveryRequestEnds == \A c \in Conns : ask[c] # None ~> ask[c] = None

\* The stage of a start as a peer of another uid sees it.
Stage ==
    CASE proc = "down" -> "down"
      [] proc = "load" -> "loading"
      [] proc = "chmod" -> "private"
      [] proc = "accept" -> IF uds /\ sock # "open" THEN "private" ELSE "serving"
      [] OTHER -> "loaded"

Process == INSTANCE ApiProcess WITH life <- Stage

\* Start-up, deaths and restarts in any order implement the abstract process: the
\* socket opens to others only in a life that has loaded its index.
RefinesApiProcess == Process!Spec
=============================================================================
