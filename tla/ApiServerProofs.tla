-------------------------- MODULE ApiServerProofs --------------------------
(***************************************************************************)
(* Theorems about ApiServer, for any number of connections, requests,      *)
(* worker threads and lives; about the deployment that is composed of      *)
(* such processes, for any number of servers and clients, every rise, fall *)
(* and retries, and however many processes die and checks time out; and    *)
(* about calibrate_probes, which has to reach the verdicts this service    *)
(* answers, for every list of probe counts and all test data.              *)
(***************************************************************************)
EXTENDS ApiServer, Deployment, Calibrate, FiniteSetTheorems, TLAPS

----------------------------------------------------------------------------
(* The inductive invariant                                                 *)

\* The socket file and the mode belong to where main is: a socket that answers is
\* the one of this life, and a file in the way of bind could not be removed.
SocketOfThisLife ==
    /\ sock = "private" <=> proc = "chmod"
    /\ sock = "open" <=> (proc = "accept" /\ uds)
    /\ proc \in {"health", "remove", "bind", "chmod"} => uds
    /\ proc = "tcp" => ~ uds
    /\ proc = "bind" /\ sock # "none" => kept

\* A bind found the path taken only by a file that could not be removed.
BlockedByKept == cause = "bind uds" /\ proc = "down" => kept

\* Handlers run only once main accepts, and nothing is counted before METRICS is read.
NothingBeforeServing ==
    /\ \A c \in Conns : conn[c] \in {"open", "gone"} => proc = "accept"
    /\ proc \in {"down", "load"} => panicked = 0 /\ \A ph \in Phases : count[ph] = 0

\* A handler is at a step its request leads to.
HandlerFits ==
    \A c \in Conns :
        LET o == Outcome[ask[c]]
        IN  /\ task[c] \in {"ready", "metrics"} => o.kind = task[c]
            /\ task[c] = "parse" => o.kind \in {"malformed", "panic", "score"}
            /\ task[c] \in {"vectorize", "search"} => o.kind \in {"panic", "score"}
            /\ task[c] = "total" => o.kind = "score" /\ found[c] = o.frauds

\* Handlers hold a worker thread each.
WorkersSuffice == Cardinality(Running) <= Workers

\* The counts on a page are of the past, so not above those of now.
PageOfThePast ==
    \A c \in Conns :
        /\ page[c] # <<>> => task[c] = "metrics" /\ enabled
        /\ Len(page[c]) <= Len(ReportOrder)
        /\ \A i \in DOMAIN page[c] : page[c][i] <= count[ReportOrder[i]]

IInv ==
    /\ TypeOK
    /\ SocketOfThisLife
    /\ NothingBeforeServing
    /\ HandlerFits
    /\ WorkersSuffice
    /\ BlockedByKept
    /\ PhasesAccounted
    /\ PageOfThePast
    /\ PageFits
    /\ AnswerFits

----------------------------------------------------------------------------
(* Counting handlers                                                       *)

\* The counts are numbers.
LEMMA AtType == \A t : At(t) \in Nat
<1> TAKE t
<1>1. IsFiniteSet({c \in Conns : task[c] = t})
  BY ServerAssumption, FS_Subset
<1> QED BY <1>1, FS_CardinalityType DEF At

----------------------------------------------------------------------------
(* The initial states                                                      *)

\* Before the first start there is no listener, no connection and no count.
LEMMA InitEstablishes == Init => IInv
<1> SUFFICES ASSUME Init PROVE IInv
  OBVIOUS
<1>0. /\ found = [c \in Conns |-> 0] /\ page = [c \in Conns |-> <<>>]
      /\ task = [c \in Conns |-> "idle"]
  BY DEF Init
<1>1. TypeOK
  <2>1. page \in [Conns -> Seq(Nat)]
    BY <1>0
  <2>2. found \in [Conns -> 0 .. K]
    BY <1>0 DEF K
  <2> QED BY <2>1, <2>2 DEF Init, TypeOK
<1>2. SocketOfThisLife /\ NothingBeforeServing /\ HandlerFits
  BY DEF Init, SocketOfThisLife, NothingBeforeServing, HandlerFits
<1>3. Running = {}
  BY <1>0 DEF Running
<1>4. WorkersSuffice
  <2>1. Cardinality(Running) = 0
    BY <1>3, FS_EmptySet
  <2> QED BY <2>1, ServerAssumption DEF WorkersSuffice
<1>5. BlockedByKept /\ PhasesAccounted /\ AnswerFits
  BY DEF Init, BlockedByKept, PhasesAccounted, AnswerFits
<1>6. \A c \in Conns : page[c] = <<>> /\ Len(page[c]) = 0 /\ DOMAIN page[c] = {}
  BY <1>0
<1>7. PageOfThePast /\ PageFits
  BY <1>6, SMT DEF PageOfThePast, PageFits, ReportOrder
<1> QED
  BY <1>1, <1>2, <1>4, <1>5, <1>7 DEF IInv

----------------------------------------------------------------------------
(* The steps                                                               *)

\* What a process that ends leaves is of the right type.
LEMMA ExitType ==
    ASSUME TypeOK, NEW why, Exit(why)
    PROVE  TypeOK'
<1>1. page' \in [Conns -> Seq(Nat)]
  BY DEF Exit
<1>2. count' \in [Phases -> Nat] /\ panicked' \in Nat
  BY DEF Exit
<1> QED
  BY <1>1, <1>2 DEF Exit, TypeOK, bounds

\* A record leaves numbers behind.
LEMMA RecordType ==
    ASSUME TypeOK, NEW ph \in Phases, Record(ph)
    PROVE  count' \in [Phases -> Nat]
<1>1. CASE enabled
  BY <1>1 DEF TypeOK, Record
<1>2. CASE ~ enabled
  BY <1>2 DEF TypeOK, Record
<1> QED BY <1>1, <1>2

\* Every step of main, of a handler and of the clients keeps the types.
LEMMA TypeStep == TypeOK /\ [Next]_vars => TypeOK'
<1> SUFFICES ASSUME TypeOK, [Next]_vars PROVE TypeOK'
  OBVIOUS
<1> USE DEF TypeOK
<1>1. CASE Launch
  BY <1>1 DEF Launch, conns, stats
<1>2. CASE Startup
  <2>1. CASE BindUdsFails \/ StartFails
    BY <2>1, ExitType DEF BindUdsFails, StartFails
  <2>2. CASE LoadAll
    BY <2>2 DEF LoadAll, conns, stats
  <2>3. CASE BindHealth \/ BindTcp
    BY <2>3 DEF BindHealth, BindTcp, conns, stats
  <2>4. CASE RemoveFile \/ RemoveFileFails
    BY <2>4 DEF RemoveFile, RemoveFileFails, conns, stats
  <2>5. CASE BindUds \/ SetPermissions
    BY <2>5 DEF BindUds, SetPermissions, conns, stats
  <2> QED BY <1>2, <2>1, <2>2, <2>3, <2>4, <2>5 DEF Startup
<1>3. CASE Killed \/ AcceptFails
  BY <1>3, ExitType DEF Killed, AcceptFails
<1>4. ASSUME NEW c \in Conns, Connect(c) \/ Accept(c) \/ PeerCloses(c)
      PROVE  TypeOK'
  <2>1. CASE Connect(c)
    BY <1>4, <2>1 DEF Connect, main, stats
  <2>2. CASE Accept(c)
    BY <1>4, <2>2 DEF Accept, main, stats
  <2>3. CASE PeerCloses(c) /\ task[c] = "idle"
    BY <1>4, <2>3 DEF PeerCloses, main, stats
  <2>4. CASE PeerCloses(c) /\ task[c] # "idle"
    BY <1>4, <2>4 DEF PeerCloses, main, stats
  <2> QED BY <1>4, <2>1, <2>2, <2>3, <2>4
<1>5. ASSUME NEW c \in Conns, NEW b \in Bodies, Send(c, b)
      PROVE  TypeOK'
  BY <1>5, ServerAssumption DEF Send, main, stats
<1>6. ASSUME NEW c \in Conns, Begin(c)
      PROVE  TypeOK'
  BY <1>6, ServerAssumption DEF Begin, Outcomes, main, stats
<1>7. ASSUME NEW c \in Conns, Handler(c)
      PROVE  TypeOK'
  <2> USE DEF Respond, main, stats
  <2>1. CASE Ready(c) \/ MetricsDisabled(c) \/ BadRequest(c)
    <3>1. /\ UNCHANGED <<main, found, page, stats>>
          /\ task' = [task EXCEPT ![c] = "idle"]
          /\ ask' = [ask EXCEPT ![c] = None]
          /\ (conn' = conn /\ conn[c] = "open") \/ conn' = [conn EXCEPT ![c] = "none"]
          /\ DOMAIN reply' = DOMAIN reply
      BY <2>1 DEF Ready, MetricsDisabled, BadRequest
    <3> QED BY <3>1
  <2>2. CASE ReportPhase(c)
    <3>1. Len(page[c]) + 1 \in 1 .. 4
      BY <2>2 DEF ReportPhase, ReportOrder
    <3>2. count[ReportOrder[Len(page[c]) + 1]] \in Nat
      BY <3>1 DEF ReportOrder, Phases
    <3>3. page' \in [Conns -> Seq(Nat)]
      BY <2>2, <3>2 DEF ReportPhase
    <3> QED BY <2>2, <3>3 DEF ReportPhase
  <2>3. CASE ReportDone(c)
    <3>1. page' \in [Conns -> Seq(Nat)]
      BY <2>3 DEF ReportDone
    <3> QED BY <2>3, <3>1 DEF ReportDone
  <2>4. CASE Parse(c)
    <3>1. count' \in [Phases -> Nat]
      BY <2>4, RecordType DEF Parse, Phases
    <3> QED BY <2>4, <3>1 DEF Parse
  <2>5. CASE Vectorize(c)
    <3>1. count' \in [Phases -> Nat]
      BY <2>5, RecordType DEF Vectorize, Phases
    <3> QED BY <2>5, <3>1 DEF Vectorize
  <2>6. CASE Search(c)
    <3>1. count' \in [Phases -> Nat]
      BY <2>6, RecordType DEF Search, Phases
    <3>2. Outcome[ask[c]].frauds \in 0 .. K
      BY <2>6, ServerAssumption DEF Search, Outcomes
    <3> QED BY <2>6, <3>1, <3>2 DEF Search
  <2>7. CASE SearchPanics(c)
    <3>1. panicked' \in Nat
      BY <2>7 DEF SearchPanics
    <3> QED BY <2>7, <3>1 DEF SearchPanics
  <2>8. CASE Total(c)
    <3>1. count' \in [Phases -> Nat]
      BY <2>8, RecordType DEF Total, Phases
    <3> QED BY <2>8, <3>1 DEF Total
  <2> QED BY <1>7, <2>1, <2>2, <2>3, <2>4, <2>5, <2>6, <2>7, <2>8 DEF Handler
<1>8. CASE UNCHANGED vars
  BY <1>8 DEF vars, main, conns, stats
<1> QED
  BY <1>1, <1>2, <1>3, <1>4, <1>5, <1>6, <1>7, <1>8 DEF Next

\* The steps of main that end nothing, and those of one connection.
StartStep ==
    \/ Launch \/ LoadAll \/ BindHealth \/ RemoveFile \/ RemoveFileFails
    \/ BindUds \/ SetPermissions \/ BindTcp
ConnectionStep(c) ==
    \/ Connect(c) \/ Accept(c) \/ PeerCloses(c) \/ Begin(c) \/ Handler(c)
    \/ \E b \in Bodies : Send(c, b)

\* A step is one of main's start, the end of a life, or one of a connection.
LEMMA NextCases ==
    ASSUME Next
    PROVE  \/ StartStep
           \/ \E why : Exit(why)
           \/ \E c \in Conns : ConnectionStep(c)
BY DEF Next, Startup, StartStep, ConnectionStep, BindUdsFails, StartFails, Killed, AcceptFails

\* Connections leave main alone, and main's start leaves the connections alone.
LEMMA Frames ==
    /\ \A c \in Conns : ConnectionStep(c) => UNCHANGED main
    /\ StartStep => UNCHANGED <<conns, stats>> /\ proc # "accept"
<1>1. ASSUME NEW c \in Conns, ConnectionStep(c)
      PROVE  UNCHANGED main
  BY <1>1 DEF ConnectionStep, Connect, Accept, PeerCloses, Begin, Handler, Send, Ready,
     MetricsDisabled, ReportPhase, ReportDone, BadRequest, Parse, Vectorize, Search,
     SearchPanics, Total
<1>2. ASSUME StartStep
      PROVE  UNCHANGED <<conns, stats>> /\ proc # "accept"
  BY <1>2 DEF StartStep, Launch, LoadAll, BindHealth, RemoveFile, RemoveFileFails, BindUds,
     SetPermissions, BindTcp
<1> QED BY <1>1, <1>2

\* Only the steps of the start and Exit touch the socket file.
LEMMA SocketStep ==
    TypeOK /\ SocketOfThisLife /\ [Next]_vars => SocketOfThisLife'
<1> SUFFICES ASSUME TypeOK, SocketOfThisLife, [Next]_vars PROVE SocketOfThisLife'
  OBVIOUS
<1> USE DEF SocketOfThisLife, TypeOK
<1>1. CASE StartStep
  <2>1. CASE Launch
    BY <2>1 DEF Launch
  <2>2. CASE LoadAll
    BY <2>2 DEF LoadAll
  <2>3. CASE BindHealth \/ BindTcp
    BY <2>3 DEF BindHealth, BindTcp
  <2>4. CASE RemoveFile \/ RemoveFileFails
    BY <2>4 DEF RemoveFile, RemoveFileFails
  <2>5. CASE BindUds \/ SetPermissions
    BY <2>5 DEF BindUds, SetPermissions
  <2> QED BY <1>1, <2>1, <2>2, <2>3, <2>4, <2>5 DEF StartStep
<1>2. ASSUME NEW why, Exit(why)
      PROVE  SocketOfThisLife'
  BY <1>2 DEF Exit
<1>3. ASSUME NEW c \in Conns, ConnectionStep(c)
      PROVE  SocketOfThisLife'
  BY <1>3, Frames DEF main
<1>4. CASE UNCHANGED vars
  BY <1>4 DEF vars, main
<1> QED BY <1>1, <1>2, <1>3, <1>4, NextCases

\* RemoveFile and BindUds are the steps at which a stale file could do harm.
LEMMA StaleStep ==
    SocketOfThisLife /\ BlockedByKept /\ [Next]_vars => BlockedByKept'
<1> SUFFICES ASSUME SocketOfThisLife, BlockedByKept, [Next]_vars PROVE BlockedByKept'
  OBVIOUS
<1> USE DEF BlockedByKept
<1>1. CASE StartStep
  BY <1>1 DEF StartStep, Launch, LoadAll, BindHealth, RemoveFile, RemoveFileFails, BindUds,
     SetPermissions, BindTcp
<1>2. CASE BindUdsFails
  BY <1>2 DEF BindUdsFails, Exit, SocketOfThisLife
<1>3. CASE StartFails \/ Killed \/ AcceptFails
  BY <1>3 DEF StartFails, Killed, AcceptFails, Exit
<1>4. ASSUME NEW c \in Conns, ConnectionStep(c)
      PROVE  BlockedByKept'
  BY <1>4, Frames DEF main
<1>5. CASE UNCHANGED vars
  BY <1>5 DEF vars, main
<1> QED
  BY <1>1, <1>2, <1>3, <1>4, <1>5 DEF Next, Startup, StartStep, ConnectionStep

\* Connections are accepted in the accept loop only, and Exit drops them all.
LEMMA ServingStep ==
    TypeOK /\ NothingBeforeServing /\ [Next]_vars => NothingBeforeServing'
<1> SUFFICES ASSUME TypeOK, NothingBeforeServing, [Next]_vars PROVE NothingBeforeServing'
  OBVIOUS
<1> USE DEF TypeOK, NothingBeforeServing
<1>1. CASE StartStep
  <2>1. UNCHANGED <<conn, count, panicked>> /\ proc # "accept"
    BY <1>1, Frames DEF conns, stats
  <2>2. proc' \in {"down", "load"} => proc = "down"
    BY <1>1 DEF StartStep, Launch, LoadAll, BindHealth, RemoveFile, RemoveFileFails, BindUds,
       SetPermissions, BindTcp
  <2> QED BY <2>1, <2>2
<1>2. ASSUME NEW why, Exit(why)
      PROVE  NothingBeforeServing'
  BY <1>2 DEF Exit
<1>3. ASSUME NEW c \in Conns, ConnectionStep(c)
      PROVE  NothingBeforeServing'
  <2>1. proc' = proc
    BY <1>3, Frames DEF main
  <2>2. CASE Connect(c) \/ Accept(c) \/ PeerCloses(c) \/ \E b \in Bodies : Send(c, b)
    BY <2>1, <2>2 DEF Connect, Accept, PeerCloses, Send, stats
  <2>3. CASE Begin(c) \/ Handler(c)
    <3>1. conn[c] \in {"open", "gone"}
      BY <2>3 DEF Begin, Handler, Ready, MetricsDisabled, ReportPhase, ReportDone, BadRequest,
         Parse, Vectorize, Search, SearchPanics, Total
    <3>2. proc' = "accept"
      BY <2>1, <3>1
    <3> QED BY <3>2
  <2> QED BY <1>3, <2>2, <2>3 DEF ConnectionStep
<1>4. CASE UNCHANGED vars
  BY <1>4 DEF vars, main, conns, stats
<1> QED BY <1>1, <1>2, <1>3, <1>4, NextCases

\* A handler moves from one step to the next along the kind of its request.
LEMMA HandlerStep ==
    TypeOK /\ HandlerFits /\ [Next]_vars => HandlerFits'
<1> SUFFICES ASSUME TypeOK, HandlerFits, [Next]_vars PROVE HandlerFits'
  OBVIOUS
<1>0. ASSUME found' = found,
             \A d \in Conns : task'[d] # "idle" => task'[d] = task[d] /\ ask'[d] = ask[d]
      PROVE  HandlerFits'
  BY <1>0 DEF HandlerFits
<1> USE DEF TypeOK, HandlerFits
<1>1. CASE StartStep
  BY <1>1, Frames DEF conns
<1>2. ASSUME NEW why, Exit(why)
      PROVE  HandlerFits'
  BY <1>2 DEF Exit
<1>3. ASSUME NEW c \in Conns, ConnectionStep(c)
      PROVE  HandlerFits'
  <2>1. CASE Connect(c) \/ Accept(c)
    BY <2>1 DEF Connect, Accept
  <2>2. CASE PeerCloses(c)
    <3>1. task' = task /\ found' = found
      BY <2>2 DEF PeerCloses
    <3>2. \A d \in Conns : task[d] # "idle" => ask'[d] = ask[d]
      BY <2>2 DEF PeerCloses
    <3> HIDE DEF HandlerFits, TypeOK
    <3> QED BY <1>0, <3>1, <3>2
  <2>3. ASSUME NEW b \in Bodies, Send(c, b)
        PROVE  HandlerFits'
    BY <2>3 DEF Send
  <2>4. CASE Begin(c)
    <3>1. Outcome[ask[c]].kind \in {"ready", "metrics", "malformed", "panic", "score"}
      BY <2>4, ServerAssumption DEF Begin, Outcomes
    <3> QED BY <2>4, <3>1 DEF Begin
  <2>5. CASE Ready(c) \/ MetricsDisabled(c) \/ BadRequest(c)
    <3>1. task' = [task EXCEPT ![c] = "idle"] /\ ask' = [ask EXCEPT ![c] = None] /\ found' = found
      BY <2>5 DEF Ready, MetricsDisabled, BadRequest, Respond
    <3> QED BY <3>1
  <2>6. CASE ReportPhase(c) \/ ReportDone(c)
    <3>1. found' = found
      BY <2>6 DEF ReportPhase, ReportDone
    <3>2. \A d \in Conns : task'[d] # "idle" => task'[d] = task[d] /\ ask'[d] = ask[d]
      BY <2>6 DEF ReportPhase, ReportDone, Respond
    <3> HIDE DEF HandlerFits, TypeOK
    <3> QED BY <1>0, <3>1, <3>2
  <2>7. CASE Parse(c) \/ Vectorize(c)
    BY <2>7 DEF Parse, Vectorize
  <2>8. CASE Search(c)
    BY <2>8 DEF Search
  <2>9. CASE SearchPanics(c)
    BY <2>9 DEF SearchPanics
  <2>10. CASE Total(c)
    BY <2>10 DEF Total, Respond
  <2> QED BY <1>3, <2>1, <2>2, <2>3, <2>4, <2>5, <2>6, <2>7, <2>8, <2>9, <2>10
          DEF ConnectionStep, Handler
<1>4. CASE UNCHANGED vars
  BY <1>4 DEF vars, conns
<1> QED BY <1>1, <1>2, <1>3, <1>4, NextCases

\* A handler starts only on a free worker thread.
LEMMA WorkersStep ==
    TypeOK /\ WorkersSuffice /\ [Next]_vars => WorkersSuffice'
<1> SUFFICES ASSUME TypeOK, WorkersSuffice, [Next]_vars PROVE WorkersSuffice'
  OBVIOUS
<1> USE DEF TypeOK, WorkersSuffice
<1>0. IsFiniteSet(Running) /\ Cardinality(Running) \in Nat
  BY ServerAssumption, FS_Subset, FS_CardinalityType DEF Running
<1>1. ASSUME Running' \subseteq Running
      PROVE  WorkersSuffice'
  <2>1. Cardinality(Running') \in Nat /\ Cardinality(Running') <= Cardinality(Running)
    BY <1>0, <1>1, FS_Subset, FS_CardinalityType
  <2> QED BY <1>0, <2>1, ServerAssumption
<1>2. CASE StartStep
  BY <1>1, <1>2, Frames DEF Running, conns
<1>3. ASSUME NEW why, Exit(why)
      PROVE  WorkersSuffice'
  <2>1. Running' \subseteq Running
    BY <1>3 DEF Running, Exit
  <2> QED BY <1>1, <2>1
<1>4. ASSUME NEW c \in Conns, ConnectionStep(c)
      PROVE  WorkersSuffice'
  <2>1. CASE Begin(c)
    <3>1. Running' = Running \cup {c} /\ c \notin Running
      BY <2>1 DEF Begin, Running
    <3>2. Cardinality(Running') = Cardinality(Running) + 1
      BY <1>0, <3>1, FS_AddElement
    <3> QED BY <1>0, <2>1, <3>2, ServerAssumption DEF Begin
  <2>2. CASE ~ Begin(c)
    <3>1. task' = task \/ (task[c] # "idle" /\ \E a : task' = [task EXCEPT ![c] = a])
      BY <1>4, <2>2 DEF ConnectionStep, Connect, Accept, PeerCloses, Send, Handler, Ready,
         MetricsDisabled, ReportPhase, ReportDone, BadRequest, Parse, Vectorize, Search,
         SearchPanics, Total, Respond
    <3>2. Running' \subseteq Running
      BY <3>1 DEF Running
    <3> QED BY <1>1, <3>2
  <2> QED BY <2>1, <2>2
<1>5. CASE UNCHANGED vars
  BY <1>1, <1>5 DEF Running, vars, conns
<1> QED BY <1>2, <1>3, <1>4, <1>5, NextCases

\* When one handler moves from a step to another, the counts of the two steps change
\* by one and the others stay.
LEMMA HandlerMoves ==
    ASSUME TypeOK, NEW c \in Conns, NEW a, a # task[c], task' = [task EXCEPT ![c] = a]
    PROVE  \A t : At(t)' = IF t = a THEN At(t) + 1
                           ELSE IF t = task[c] THEN At(t) - 1 ELSE At(t)
<1> DEFINE F(t) == {x \in Conns : task[x] = t}
           G(t) == {x \in Conns : task'[x] = t}
<1>1. \A t : IsFiniteSet(F(t)) /\ Cardinality(F(t)) \in Nat
  BY ServerAssumption, FS_Subset, FS_CardinalityType
<1>2. G(a) = F(a) \cup {c} /\ c \notin F(a)
  BY DEF TypeOK
<1>3. G(task[c]) = F(task[c]) \ {c} /\ c \in F(task[c])
  BY DEF TypeOK
<1>4. \A t : t # a /\ t # task[c] => G(t) = F(t)
  BY DEF TypeOK
<1>5. \A t : At(t) = Cardinality(F(t)) /\ At(t)' = Cardinality(G(t))
  BY DEF At
<1> HIDE DEF F, G
<1>6. Cardinality(G(a)) = Cardinality(F(a)) + 1
  BY <1>1, <1>2, FS_AddElement
<1>7. Cardinality(G(task[c])) = Cardinality(F(task[c])) - 1
  BY <1>1, <1>3, FS_RemoveElement
<1> QED
  BY <1>4, <1>5, <1>6, <1>7

\* A handler that moves on counts one phase and leaves the requests before it; a panic
\* before the last phase is counted apart.
LEMMA PhasesStep ==
    TypeOK /\ NothingBeforeServing /\ HandlerFits /\ PhasesAccounted /\ [Next]_vars
        => PhasesAccounted'
<1> SUFFICES ASSUME TypeOK, NothingBeforeServing, HandlerFits, PhasesAccounted, [Next]_vars
             PROVE  PhasesAccounted'
  OBVIOUS
<1> USE DEF PhasesAccounted
<1>0. /\ \A t : At(t) \in Nat
      /\ count \in [Phases -> Nat] /\ panicked \in Nat
  BY AtType DEF TypeOK
<1>1. ASSUME UNCHANGED <<task, count, panicked, enabled>>
      PROVE  PhasesAccounted'
  BY <1>1 DEF At
<1>2. ASSUME \A ph \in Phases : count'[ph] = 0, panicked' = 0,
             \A c \in Conns : task'[c] = "idle"
      PROVE  PhasesAccounted'
  <2>1. \A t \in {"vectorize", "search", "total"} : At(t)' = 0
    <3> TAKE t \in {"vectorize", "search", "total"}
    <3>1. {c \in Conns : task'[c] = t} = {}
      BY <1>2
    <3> QED BY <3>1, FS_EmptySet DEF At
  <2> QED BY <1>2, <2>1 DEF Phases
<1>3. CASE StartStep
  <2>1. UNCHANGED <<task, count, panicked>>
    BY <1>3, Frames DEF conns, stats
  <2>2. CASE LoadAll
    <3>1. \A c \in Conns : task[c] = "idle"
      BY <2>2 DEF LoadAll, NothingBeforeServing, TypeOK
    <3> QED BY <1>2, <2>1, <2>2, <3>1 DEF LoadAll, NothingBeforeServing
  <2>3. CASE ~ LoadAll
    BY <1>1, <1>3, <2>1, <2>3 DEF StartStep, Launch, BindHealth, RemoveFile, RemoveFileFails,
       BindUds, SetPermissions, BindTcp
  <2> QED BY <2>2, <2>3
<1>4. ASSUME NEW why, Exit(why)
      PROVE  PhasesAccounted'
  BY <1>2, <1>4 DEF Exit
<1>5. ASSUME NEW c \in Conns, ConnectionStep(c)
      PROVE  PhasesAccounted'
  <2>0. enabled' = enabled /\ enabled \in BOOLEAN
    BY <1>5, Frames DEF main, TypeOK
  <2>1. CASE Connect(c) \/ Accept(c) \/ PeerCloses(c) \/ ReportPhase(c) \/ \E b \in Bodies : Send(c, b)
    BY <1>1, <2>0, <2>1 DEF Connect, Accept, PeerCloses, Send, ReportPhase, stats
  <2>2. ASSUME NEW a \in {"idle", "ready", "metrics", "parse"},
               task[c] \in {"idle", "ready", "metrics", "parse"}, a # task[c],
               task' = [task EXCEPT ![c] = a], UNCHANGED stats
        PROVE  PhasesAccounted'
    <3>1. \A t \in {"vectorize", "search", "total"} : At(t)' = At(t)
      BY <2>2, HandlerMoves
    <3> QED BY <2>0, <2>2, <3>1 DEF stats
  <2>3. CASE Begin(c)
    <3>1. Outcome[ask[c]].kind \in {"ready", "metrics"} \/ Outcome[ask[c]].kind \notin {"ready", "metrics"}
      OBVIOUS
    <3> QED BY <2>2, <2>3 DEF Begin
  <2>4. CASE Ready(c) \/ MetricsDisabled(c) \/ ReportDone(c) \/ BadRequest(c)
    BY <2>2, <2>4 DEF Ready, MetricsDisabled, ReportDone, BadRequest, Respond
  <2>5. CASE Parse(c)
    <3>0. task[c] = "parse" /\ task' = [task EXCEPT ![c] = "vectorize"]
      BY <2>5 DEF Parse
    <3>1. \A t : At(t)' = IF t = task'[c] THEN At(t) + 1 ELSE IF t = task[c] THEN At(t) - 1 ELSE At(t)
      BY <3>0, HandlerMoves DEF TypeOK
    <3>2. At("vectorize")' = At("vectorize") + 1 /\ At("search")' = At("search") /\ At("total")' = At("total")
      BY <3>0, <3>1 DEF TypeOK
    <3> QED BY <1>0, <2>0, <2>5, <3>2 DEF Parse, Record, Phases
  <2>6. CASE Vectorize(c)
    <3>0. task[c] = "vectorize" /\ task' = [task EXCEPT ![c] = "search"]
      BY <2>6 DEF Vectorize
    <3>1. \A t : At(t)' = IF t = task'[c] THEN At(t) + 1 ELSE IF t = task[c] THEN At(t) - 1 ELSE At(t)
      BY <3>0, HandlerMoves DEF TypeOK
    <3>2. At("vectorize")' = At("vectorize") - 1 /\ At("search")' = At("search") + 1 /\ At("total")' = At("total")
      BY <3>0, <3>1 DEF TypeOK
    <3> QED BY <1>0, <2>0, <2>6, <3>2 DEF Vectorize, Record, Phases
  <2>7. CASE Search(c)
    <3>0. task[c] = "search" /\ task' = [task EXCEPT ![c] = "total"]
      BY <2>7 DEF Search
    <3>1. \A t : At(t)' = IF t = task'[c] THEN At(t) + 1 ELSE IF t = task[c] THEN At(t) - 1 ELSE At(t)
      BY <3>0, HandlerMoves DEF TypeOK
    <3>2. At("vectorize")' = At("vectorize") /\ At("search")' = At("search") - 1 /\ At("total")' = At("total") + 1
      BY <3>0, <3>1 DEF TypeOK
    <3> QED BY <1>0, <2>0, <2>7, <3>2 DEF Search, Record, Phases
  <2>8. CASE SearchPanics(c)
    <3>0. task[c] = "search" /\ task' = [task EXCEPT ![c] = "idle"]
      BY <2>8 DEF SearchPanics
    <3>1. \A t : At(t)' = IF t = task'[c] THEN At(t) + 1 ELSE IF t = task[c] THEN At(t) - 1 ELSE At(t)
      BY <3>0, HandlerMoves DEF TypeOK
    <3>2. At("vectorize")' = At("vectorize") /\ At("search")' = At("search") - 1 /\ At("total")' = At("total")
      BY <3>0, <3>1 DEF TypeOK
    <3> QED BY <1>0, <2>0, <2>8, <3>2 DEF SearchPanics, Phases
  <2>9. CASE Total(c)
    <3>0. task[c] = "total" /\ task' = [task EXCEPT ![c] = "idle"]
      BY <2>9 DEF Total, Respond
    <3>1. \A t : At(t)' = IF t = task'[c] THEN At(t) + 1 ELSE IF t = task[c] THEN At(t) - 1 ELSE At(t)
      BY <3>0, HandlerMoves DEF TypeOK
    <3>2. At("vectorize")' = At("vectorize") /\ At("search")' = At("search") /\ At("total")' = At("total") - 1
      BY <3>0, <3>1 DEF TypeOK
    <3> QED BY <1>0, <2>0, <2>9, <3>2 DEF Total, Record, Phases
  <2> QED BY <1>5, <2>1, <2>3, <2>4, <2>5, <2>6, <2>7, <2>8, <2>9 DEF ConnectionStep, Handler
<1>6. CASE UNCHANGED vars
  BY <1>1, <1>6 DEF vars, main, conns, stats
<1> QED BY <1>3, <1>4, <1>5, <1>6, NextCases

\* Beside a /metrics handler at most Workers - 1 others are between two records.
LEMMA OthersInFlight ==
    ASSUME TypeOK, WorkersSuffice, NEW c \in Conns, task[c] = "metrics"
    PROVE  At("vectorize") + At("search") + At("total") <= Workers - 1
<1> DEFINE V == {x \in Conns : task[x] = "vectorize"}
           S == {x \in Conns : task[x] = "search"}
           T == {x \in Conns : task[x] = "total"}
<1>1. /\ V \subseteq Running \ {c} /\ S \subseteq Running \ {c} /\ T \subseteq Running \ {c}
      /\ V \cap S = {} /\ (V \cup S) \cap T = {} /\ c \in Running
  BY DEF Running
<1>2. At("vectorize") = Cardinality(V) /\ At("search") = Cardinality(S) /\ At("total") = Cardinality(T)
  BY DEF At
<1>3. IsFiniteSet(Running)
  BY ServerAssumption, FS_Subset DEF Running
<1> HIDE DEF V, S, T
<1>4. /\ IsFiniteSet(Running \ {c})
      /\ Cardinality(Running \ {c}) = Cardinality(Running) - 1
  BY <1>1, <1>3, FS_RemoveElement
<1>5. IsFiniteSet(V) /\ IsFiniteSet(S) /\ IsFiniteSet(T)
  BY <1>1, <1>4, FS_Subset
<1>6. /\ IsFiniteSet(V \cup S)
      /\ Cardinality(V \cup S) = Cardinality(V) + Cardinality(S) - Cardinality(V \cap S)
  BY <1>5, FS_Union
<1>7. Cardinality((V \cup S) \cup T) =
         Cardinality(V \cup S) + Cardinality(T) - Cardinality((V \cup S) \cap T)
  BY <1>5, <1>6, FS_Union
<1>8. Cardinality((V \cup S) \cup T) <= Cardinality(Running \ {c})
  <2>1. (V \cup S) \cup T \in SUBSET (Running \ {c})
    BY <1>1
  <2> QED BY <1>4, <2>1, FS_Subset
<1>9. Cardinality(V \cap S) = 0 /\ Cardinality((V \cup S) \cap T) = 0
  BY <1>1, FS_EmptySet
<1>10. /\ Cardinality(V) \in Nat /\ Cardinality(S) \in Nat /\ Cardinality(T) \in Nat
       /\ Cardinality(Running) \in Nat
  BY <1>3, <1>5, FS_CardinalityType
<1> QED
  BY <1>2, <1>4, <1>6, <1>7, <1>8, <1>9, <1>10, ServerAssumption DEF WorkersSuffice

\* No count falls within a life, and the number of panics does not either.
LEMMA CountsGrow ==
    ASSUME TypeOK, NEW c \in Conns, ConnectionStep(c)
    PROVE  /\ \A ph \in Phases : count'[ph] >= count[ph]
           /\ panicked' >= panicked
<1>0. count \in [Phases -> Nat] /\ panicked \in Nat /\ enabled \in BOOLEAN
  BY DEF TypeOK
<1>1. ASSUME NEW ph \in Phases, Record(ph)
      PROVE  \A q \in Phases : count'[q] >= count[q]
  <2>1. CASE enabled
    BY <1>0, <1>1, <2>1 DEF Record
  <2>2. CASE ~ enabled
    BY <1>0, <1>1, <2>2 DEF Record
  <2> QED BY <2>1, <2>2
<1>2. CASE Parse(c) \/ Vectorize(c) \/ Search(c) \/ Total(c)
  <2>1. panicked' = panicked /\ \E ph \in Phases : Record(ph)
    BY <1>2 DEF Parse, Vectorize, Search, Total, Phases
  <2> QED BY <1>0, <1>1, <2>1
<1>3. CASE SearchPanics(c)
  BY <1>0, <1>3 DEF SearchPanics
<1>4. CASE ~ (Parse(c) \/ Vectorize(c) \/ Search(c) \/ Total(c) \/ SearchPanics(c))
  <2>1. UNCHANGED stats
    BY <1>4 DEF ConnectionStep, Connect, Accept, PeerCloses, Begin, Handler, Send, Ready,
       MetricsDisabled, ReportPhase, ReportDone, BadRequest, stats
  <2> QED BY <1>0, <2>1 DEF stats
<1> QED BY <1>2, <1>3, <1>4

\* A page changes only in its own handler.
LEMMA PageFrame ==
    ASSUME NEW c \in Conns, ConnectionStep(c), ~ ReportPhase(c), ~ ReportDone(c)
    PROVE  UNCHANGED page
BY DEF ConnectionStep, Connect, Accept, PeerCloses, Begin, Handler, Send, Ready,
   MetricsDisabled, BadRequest, Parse, Vectorize, Search, SearchPanics, Total, conns

\* The page after one more phase is the page before, and the count of now.
LEMMA PageAppends ==
    ASSUME TypeOK, PageOfThePast, NEW c \in Conns, ReportPhase(c)
    PROVE  LET n == Len(page[c]) + 1
           IN  /\ n \in 1 .. 4 /\ DOMAIN page[c] = 1 .. n - 1
               /\ Len(page'[c]) = n /\ DOMAIN page'[c] = 1 .. n
               /\ page'[c][n] = count[ReportOrder[n]]
               /\ \A i \in 1 .. n - 1 : page'[c][i] = page[c][i]
               /\ \A d \in Conns : d # c => page'[d] = page[d]
<1>1. page \in [Conns -> Seq(Nat)] /\ Len(page[c]) < 4 /\ Len(page[c]) \in Nat
  BY DEF TypeOK, ReportPhase, ReportOrder
<1>2. page' = [page EXCEPT ![c] = Append(page[c], count[ReportOrder[Len(page[c]) + 1]])]
  BY DEF ReportPhase
<1> QED BY <1>1, <1>2

\* Counters only grow, and a page is dropped with its connection.
LEMMA PastStep ==
    TypeOK /\ NothingBeforeServing /\ PageOfThePast /\ [Next]_vars => PageOfThePast'
<1> SUFFICES ASSUME TypeOK, NothingBeforeServing, PageOfThePast, [Next]_vars PROVE PageOfThePast'
  OBVIOUS
<1>0. /\ count \in [Phases -> Nat] /\ page \in [Conns -> Seq(Nat)]
      /\ \A c \in Conns : Len(page[c]) \in Nat /\ DOMAIN page[c] = 1 .. Len(page[c])
      /\ \A c \in Conns : \A i \in DOMAIN page[c] : page[c][i] \in Nat
      /\ Len(ReportOrder) = 4 /\ \A i \in 1 .. 4 : ReportOrder[i] \in Phases
  BY DEF TypeOK, ReportOrder, Phases
<1>1. ASSUME \A c \in Conns : page'[c] = <<>>
      PROVE  PageOfThePast'
  <2>1. \A c \in Conns : Len(page'[c]) = 0 /\ DOMAIN page'[c] = {}
    BY <1>1
  <2> QED BY <1>0, <1>1, <2>1 DEF PageOfThePast, ReportOrder
<1>2. CASE StartStep
  <2>1. UNCHANGED <<conn, task, page, count>> /\ proc # "accept"
    BY <1>2, Frames DEF conns, stats
  <2>2. \A c \in Conns : page[c] = <<>>
    BY <2>1 DEF PageOfThePast, NothingBeforeServing, TypeOK
  <2> QED BY <1>1, <2>1, <2>2
<1>3. ASSUME NEW why, Exit(why)
      PROVE  PageOfThePast'
  BY <1>1, <1>3 DEF Exit
<1>4. ASSUME NEW c \in Conns, ConnectionStep(c)
      PROVE  PageOfThePast'
  <2>0. enabled' = enabled
    BY <1>4, Frames DEF main
  <2>1. \A ph \in Phases : count'[ph] >= count[ph] /\ count'[ph] \in Nat
    BY <1>4, CountsGrow, TypeStep DEF TypeOK
  <2>2. \A d \in Conns : d # c => task'[d] = task[d]
    BY <1>4 DEF TypeOK, ConnectionStep, Connect, Accept, PeerCloses, Begin, Handler, Send, Ready,
       MetricsDisabled, ReportPhase, ReportDone, BadRequest, Parse, Vectorize, Search,
       SearchPanics, Total, Respond
  <2>3. CASE ReportPhase(c)
    <3> DEFINE n == Len(page[c]) + 1
    <3>1. /\ n \in 1 .. 4 /\ DOMAIN page[c] = 1 .. n - 1
          /\ Len(page'[c]) = n /\ DOMAIN page'[c] = 1 .. n
          /\ page'[c][n] = count[ReportOrder[n]]
          /\ \A i \in 1 .. n - 1 : page'[c][i] = page[c][i]
          /\ \A d \in Conns : d # c => page'[d] = page[d]
      BY <2>3, PageAppends
    <3>2. task' = task /\ count' = count /\ task[c] = "metrics" /\ enabled
      BY <2>3 DEF ReportPhase, stats
    <3> HIDE DEF n
    <3>3. \A i \in 1 .. n : page'[c][i] <= count'[ReportOrder[i]]
      <4> TAKE i \in 1 .. n
      <4>1. CASE i = n
        BY <1>0, <3>1, <3>2, <4>1
      <4>2. CASE i # n
        <5>1. i \in 1 .. n - 1
          BY <3>1, <4>2
        <5> QED BY <3>1, <3>2, <5>1 DEF PageOfThePast
      <4> QED BY <4>1, <4>2
    <3>4. Len(page'[c]) <= Len(ReportOrder')
      BY <1>0, <3>1 DEF ReportOrder
    <3> QED BY <2>0, <3>1, <3>2, <3>3, <3>4 DEF PageOfThePast, ReportOrder
  <2>4. CASE ReportDone(c)
    <3>1. page' = [page EXCEPT ![c] = <<>>] /\ count' = count
      BY <2>4 DEF ReportDone, stats
    <3>2. Len(page'[c]) = 0 /\ DOMAIN page'[c] = {} /\ page'[c] = <<>>
      BY <1>0, <3>1
    <3>3. \A d \in Conns : d # c => page'[d] = page[d]
      BY <1>0, <3>1
    <3> QED BY <1>0, <2>0, <2>2, <3>1, <3>2, <3>3 DEF PageOfThePast, ReportOrder
  <2>5. CASE ~ ReportPhase(c) /\ ~ ReportDone(c)
    <3>1. page' = page
      BY <1>4, <2>5, PageFrame
    <3>2. page[c] # <<>> => task'[c] = "metrics"
      <4>1. page[c] # <<>> => task[c] = "metrics" /\ enabled
        BY DEF PageOfThePast
      <4> QED BY <1>4, <2>5, <4>1 DEF ConnectionStep, Connect, Accept, PeerCloses, Begin, Handler,
              Send, Ready, MetricsDisabled, BadRequest, Parse, Vectorize, Search, SearchPanics, Total
    <3>3. ASSUME NEW d \in Conns, NEW i \in DOMAIN page[d]
          PROVE  page[d][i] <= count'[ReportOrder[i]]
      <4>0. page[d][i] <= count[ReportOrder[i]] /\ Len(page[d]) <= Len(ReportOrder)
        BY <3>3 DEF PageOfThePast
      <4>a. PICK s \in Seq(Nat) : s = page[d] /\ i \in DOMAIN s /\ Len(s) <= 4
        BY <1>0, <3>3, <4>0
      <4>b. i \in 1 .. 4
        BY <4>a
      <4>1. page[d][i] <= count[ReportOrder[i]] /\ i \in 1 .. 4
        BY <4>0, <4>b
      <4>2. count[ReportOrder[i]] \in Nat /\ page[d][i] \in Nat
        BY <1>0, <4>1
      <4> QED BY <1>0, <2>1, <4>1, <4>2
    <3> QED BY <2>0, <2>2, <3>1, <3>2, <3>3 DEF PageOfThePast, ReportOrder
  <2> QED BY <2>3, <2>4, <2>5
<1>5. CASE UNCHANGED vars
  BY <1>5 DEF PageOfThePast, ReportOrder, vars, main, conns, stats
<1> QED BY <1>2, <1>3, <1>4, <1>5, NextCases

\* While a page is read, no phase is ahead of a later one by more than the requests
\* in flight and those that panicked.
LEMMA PhasesClose ==
    ASSUME TypeOK, WorkersSuffice, PhasesAccounted, enabled,
           NEW c \in Conns, task[c] = "metrics",
           NEW i \in 1 .. 4, NEW j \in 1 .. 4, i < j
    PROVE  count[ReportOrder[i]] <= count[ReportOrder[j]] + (Workers - 1) + panicked
<1>1. At("vectorize") + At("search") + At("total") <= Workers - 1
  BY OthersInFlight
<1>2. /\ At("vectorize") \in Nat /\ At("search") \in Nat /\ At("total") \in Nat
      /\ panicked \in Nat /\ Workers \in Nat
  BY AtType, ServerAssumption DEF TypeOK
<1>3. /\ count["PARSE"] \in Nat /\ count["VECTORIZE"] \in Nat
      /\ count["SEARCH"] \in Nat /\ count["TOTAL"] \in Nat
  BY DEF TypeOK, Phases
<1>4. /\ count["PARSE"] = count["VECTORIZE"] + At("vectorize")
      /\ count["VECTORIZE"] = count["SEARCH"] + At("search") + panicked
      /\ count["SEARCH"] = count["TOTAL"] + At("total")
  BY DEF PhasesAccounted
<1>5. /\ ReportOrder[1] = "PARSE" /\ ReportOrder[2] = "VECTORIZE"
      /\ ReportOrder[3] = "SEARCH" /\ ReportOrder[4] = "TOTAL"
  BY DEF ReportOrder
<1>6. CASE i = 1
  BY <1>1, <1>2, <1>3, <1>4, <1>5, <1>6
<1>7. CASE i = 2
  BY <1>1, <1>2, <1>3, <1>4, <1>5, <1>7
<1>8. CASE i = 3
  BY <1>1, <1>2, <1>3, <1>4, <1>5, <1>8
<1> QED BY <1>6, <1>7, <1>8

\* A page read phase by phase: each count is bounded by that of the phase read before,
\* plus the handlers between the two.
LEMMA PageStep ==
    IInv /\ [Next]_vars => PageFits'
<1> SUFFICES ASSUME IInv, [Next]_vars PROVE PageFits'
  OBVIOUS
<1>0. /\ TypeOK /\ PageFits /\ PageOfThePast /\ NothingBeforeServing
      /\ WorkersSuffice /\ PhasesAccounted
  BY DEF IInv
<1>1. /\ Workers \in Nat /\ panicked \in Nat /\ page \in [Conns -> Seq(Nat)]
      /\ \A c \in Conns : DOMAIN page[c] = 1 .. Len(page[c]) /\ Len(page[c]) \in Nat
      /\ \A c \in Conns : \A i \in DOMAIN page[c] : page[c][i] \in Nat
      /\ \A c \in Conns : Len(page[c]) <= 4
      /\ count \in [Phases -> Nat] /\ \A i \in 1 .. 4 : ReportOrder[i] \in Phases
  BY <1>0, ServerAssumption DEF TypeOK, PageOfThePast, ReportOrder, Phases
<1>2. ASSUME NEW c \in Conns, page'[c] = page[c], panicked' \in Nat, panicked' >= panicked
      PROVE  \A i, j \in DOMAIN page'[c] : i < j => page'[c][i] - page'[c][j] <= Workers - 1 + panicked'
  <2> SUFFICES ASSUME NEW i \in DOMAIN page[c], NEW j \in DOMAIN page[c], i < j
               PROVE  page[c][i] - page[c][j] <= Workers - 1 + panicked'
    BY <1>2
  <2>1. page[c][i] - page[c][j] <= Workers - 1 + panicked
    BY <1>0 DEF PageFits
  <2>2. page[c][i] \in Nat /\ page[c][j] \in Nat
    BY <1>1
  <2> QED BY <1>1, <1>2, <2>1, <2>2
<1>3. CASE StartStep \/ UNCHANGED vars
  <2>1. page' = page /\ panicked' = panicked
    BY <1>3, Frames DEF vars, conns, stats
  <2> QED BY <1>0, <2>1 DEF PageFits
<1>4. ASSUME NEW why, Exit(why)
      PROVE  PageFits'
  <2>1. \A c \in Conns : DOMAIN page'[c] = {}
    BY <1>4 DEF Exit
  <2> QED BY <2>1 DEF PageFits
<1>5. ASSUME NEW c \in Conns, ConnectionStep(c)
      PROVE  PageFits'
  <2>1. panicked' \in Nat /\ panicked' >= panicked
    BY <1>0, <1>5, CountsGrow, TypeStep DEF TypeOK
  <2>2. CASE ReportPhase(c)
    <3> DEFINE n == Len(page[c]) + 1
    <3>1. /\ n \in 1 .. 4 /\ DOMAIN page[c] = 1 .. n - 1
          /\ DOMAIN page'[c] = 1 .. n
          /\ page'[c][n] = count[ReportOrder[n]]
          /\ \A i \in 1 .. n - 1 : page'[c][i] = page[c][i]
          /\ \A d \in Conns : d # c => page'[d] = page[d]
      BY <1>0, <2>2, PageAppends
    <3>2. panicked' = panicked /\ task[c] = "metrics" /\ enabled
      BY <2>2 DEF ReportPhase, stats
    <3> HIDE DEF n
    <3>3. ASSUME NEW i \in 1 .. n, NEW j \in 1 .. n, i < j
          PROVE  page'[c][i] - page'[c][j] <= Workers - 1 + panicked'
      <4>1. i \in 1 .. n - 1 /\ page'[c][i] = page[c][i] /\ i \in 1 .. 4
        BY <3>1, <3>3
      <4>2. CASE j = n
        <5>1. page[c][i] <= count[ReportOrder[i]]
          BY <1>0, <3>1, <4>1 DEF PageOfThePast
        <5>2. count[ReportOrder[i]] <= count[ReportOrder[n]] + (Workers - 1) + panicked
          BY <1>0, <3>1, <3>2, <3>3, <4>1, <4>2, PhasesClose
        <5>3. page[c][i] \in Nat /\ count[ReportOrder[i]] \in Nat /\ count[ReportOrder[n]] \in Nat
          BY <1>1, <3>1, <4>1
        <5>4. page'[c][i] = page[c][i] /\ page'[c][j] = count[ReportOrder[n]] /\ panicked' = panicked
          BY <3>1, <3>2, <4>1, <4>2
        <5>5. Workers \in Nat /\ panicked \in Nat
          BY <1>1
        <5>6. page[c][i] - count[ReportOrder[n]] <= Workers - 1 + panicked
          BY <5>1, <5>2, <5>3, <5>5
        <5> QED BY <5>4, <5>6
      <4>3. CASE j # n
        <5>1. j \in 1 .. n - 1 /\ page'[c][j] = page[c][j]
          BY <3>1, <3>3, <4>3
        <5> QED BY <1>0, <3>1, <3>2, <3>3, <4>1, <5>1 DEF PageFits
      <4> QED BY <4>2, <4>3
    <3>4. ASSUME NEW d \in Conns, d # c
          PROVE  \A i, j \in DOMAIN page'[d] : i < j => page'[d][i] - page'[d][j] <= Workers - 1 + panicked'
      BY <1>2, <2>1, <3>1, <3>4
    <3> QED BY <3>1, <3>3, <3>4 DEF PageFits
  <2>3. CASE ReportDone(c)
    <3>1. DOMAIN page'[c] = {} /\ \A d \in Conns : d # c => page'[d] = page[d]
      BY <1>1, <2>3 DEF ReportDone
    <3> QED BY <1>2, <2>1, <3>1 DEF PageFits
  <2>4. CASE ~ ReportPhase(c) /\ ~ ReportDone(c)
    <3>1. page' = page
      BY <1>5, <2>4, PageFrame
    <3> QED BY <1>2, <2>1, <3>1 DEF PageFits
  <2> QED BY <2>2, <2>3, <2>4
<1> QED BY <1>3, <1>4, <1>5, NextCases

\* Answers are given by the last step of a handler, from what it found for its request.
LEMMA AnswerStep ==
    TypeOK /\ HandlerFits /\ AnswerFits /\ [Next]_vars => AnswerFits'
<1> SUFFICES ASSUME TypeOK, HandlerFits, AnswerFits, [Next]_vars PROVE AnswerFits'
  OBVIOUS
<1>1. ASSUME UNCHANGED reply
      PROVE  AnswerFits'
  BY <1>1 DEF AnswerFits
<1>2. CASE StartStep \/ UNCHANGED vars
  BY <1>1, <1>2, Frames DEF vars, conns
<1>3. ASSUME NEW why, Exit(why)
      PROVE  AnswerFits'
  BY <1>1, <1>3 DEF Exit
<1>4. ASSUME NEW c \in Conns, ConnectionStep(c)
      PROVE  AnswerFits'
  <2> DEFINE Right(b, r) ==
        LET o == Outcome[b]
        IN  /\ o.kind # "panic"
            /\ o.kind = "ready" => r = "200"
            /\ o.kind = "metrics" => r \in {"disabled", "page"}
            /\ o.kind = "malformed" => r = "400"
            /\ o.kind = "score" => /\ r.fraud_score * K = 10 * o.frauds
                                   /\ r.approved <=> r.fraud_score < 6
  <2>1. ASSUME NEW r, Respond(c, r), Right(ask[c], r)
        PROVE  AnswerFits'
    <3>1. CASE conn[c] = "open"
      <4>1. reply' = [reply EXCEPT ![c] = [to |-> ask[c], is |-> r]]
        BY <2>1, <3>1 DEF Respond
      <4>2. \A d \in Conns : reply'[d] = reply[d] \/ reply'[d] = [to |-> ask[c], is |-> r]
        BY <4>1
      <4>3. ASSUME NEW d \in Conns, reply'[d] # None
            PROVE  Right(reply'[d].to, reply'[d].is)
        <5>1. CASE reply'[d] = reply[d]
          BY <4>3, <5>1 DEF AnswerFits
        <5>2. CASE reply'[d] = [to |-> ask[c], is |-> r]
          BY <2>1, <5>2
        <5> QED BY <4>2, <4>3, <5>1, <5>2
      <4> QED BY <4>3 DEF AnswerFits
    <3>2. CASE conn[c] # "open"
      BY <1>1, <2>1, <3>2 DEF Respond
    <3> QED BY <3>1, <3>2
  <2>2. CASE Connect(c)
    <3>1. \A d \in Conns : reply'[d] = reply[d] \/ reply'[d] = None
      BY <2>2 DEF Connect
    <3> QED BY <3>1 DEF AnswerFits
  <2>3. CASE Ready(c)
    <3>1. Outcome[ask[c]].kind = "ready"
      BY <2>3 DEF Ready, HandlerFits
    <3> QED BY <2>1, <2>3, <3>1 DEF Ready
  <2>4. CASE MetricsDisabled(c)
    <3>1. Outcome[ask[c]].kind = "metrics"
      BY <2>4 DEF MetricsDisabled, HandlerFits
    <3> QED BY <2>1, <2>4, <3>1 DEF MetricsDisabled
  <2>5. CASE ReportDone(c)
    <3>1. Outcome[ask[c]].kind = "metrics"
      BY <2>5 DEF ReportDone, HandlerFits
    <3> QED BY <2>1, <2>5, <3>1 DEF ReportDone
  <2>6. CASE BadRequest(c)
    <3>1. Outcome[ask[c]].kind = "malformed"
      BY <2>6 DEF BadRequest
    <3> QED BY <2>1, <2>6, <3>1 DEF BadRequest
  <2>7. CASE Total(c)
    <3>1. Outcome[ask[c]].kind = "score" /\ found[c] = Outcome[ask[c]].frauds /\ found[c] \in 0 .. 5
      BY <2>7 DEF Total, HandlerFits, TypeOK, K
    <3>2. /\ RESPONSES(found[c]).fraud_score = 2 * found[c]
          /\ RESPONSES(found[c]).approved <=> found[c] \in {0, 1, 2}
      BY DEF RESPONSES, Approved
    <3>3. Right(ask[c], RESPONSES(found[c]))
      BY <3>1, <3>2 DEF K
    <3> QED BY <2>1, <2>7, <3>3 DEF Total
  <2>8. CASE ~ (Connect(c) \/ Ready(c) \/ MetricsDisabled(c) \/ ReportDone(c) \/ BadRequest(c) \/ Total(c))
    BY <1>1, <1>4, <2>8 DEF ConnectionStep, Handler, Accept, PeerCloses, Begin, Send, ReportPhase,
       Parse, Vectorize, Search, SearchPanics
  <2> QED BY <2>2, <2>3, <2>4, <2>5, <2>6, <2>7, <2>8
<1> QED BY <1>2, <1>3, <1>4, NextCases

----------------------------------------------------------------------------
(* The theorems                                                            *)

\* In every state of every life of the process IInv holds.
THEOREM Invariance == Spec => []IInv
<1>1. IInv /\ [Next]_vars => IInv'
  BY TypeStep, SocketStep, StaleStep, ServingStep, HandlerStep, WorkersStep, PhasesStep,
     PastStep, PageStep, AnswerStep DEF IInv
<1> QED BY <1>1, InitEstablishes, PTL DEF Spec

\* Types, and: a connection that is not accepted has no handler, a handler has a request.
THEOREM TypeCorrect == Spec => []TypeOK
<1>1. IInv => TypeOK
  BY DEF IInv
<1> QED BY <1>1, Invariance, PTL

\* A socket file left by a life before is in the way of bind only if it could not be
\* removed (main.rs ignores that error), and the socket peers can reach is that of the
\* life past its bind, however many lives there have been.
THEOREM StaleSocketIsHarmless == Spec => []StaleSocketHarmless
<1>1. IInv => StaleSocketHarmless
  <2> SUFFICES ASSUME IInv PROVE StaleSocketHarmless
    OBVIOUS
  <2>1. uds \in BOOLEAN /\ SocketOfThisLife /\ BlockedByKept
    BY DEF IInv, TypeOK
  <2> QED BY <2>1 DEF SocketOfThisLife, BlockedByKept, StaleSocketHarmless
<1> QED BY <1>1, Invariance, PTL

\* The four phase counters differ by the handlers between two records and the panics,
\* for any number of connections and worker threads.
THEOREM PhasesAlwaysAccounted == Spec => []PhasesAccounted
<1>1. IInv => PhasesAccounted
  BY DEF IInv
<1> QED BY <1>1, Invariance, PTL

\* The lines of a /metrics page that is read while requests go on fit together.
THEOREM PagesFit == Spec => []PageFits
<1>1. IInv => PageFits
  BY DEF IInv
<1> QED BY <1>1, Invariance, PTL

\* Every answer is the one of the request it follows on its connection.
THEOREM AnswersFit == Spec => []AnswerFits
<1>1. IInv => AnswerFits
  BY DEF IInv
<1> QED BY <1>1, Invariance, PTL

\* No request disappears from a connection that stays open, for any interleaving of
\* peers, handlers, panics and deaths of the process.
THEOREM RequestsAnsweredOrClosed == Spec => AnsweredOrClosed
<1> DEFINE Ends(c) ==
      (ask[c] # None /\ ask'[c] = None) =>
          \/ conn'[c] = "open" /\ reply'[c] # None /\ reply'[c].to = ask[c]
          \/ conn'[c] = "none"
<1>1. ASSUME IInv, [Next]_vars
      PROVE  [\A c \in Conns : Ends(c)]_vars
  <2> SUFFICES ASSUME Next PROVE \A c \in Conns : Ends(c)
    BY <1>1
  <2>0. TypeOK /\ HandlerFits
    BY <1>1 DEF IInv
  <2>1. CASE StartStep
    BY <2>1, Frames DEF conns
  <2>2. ASSUME NEW why, Exit(why)
        PROVE  \A c \in Conns : Ends(c)
    BY <2>2 DEF Exit
  <2>3. ASSUME NEW c \in Conns, ConnectionStep(c)
        PROVE  \A d \in Conns : Ends(d)
    <3>1. \A d \in Conns : d # c => ask'[d] = ask[d]
      BY <2>0, <2>3 DEF TypeOK, ConnectionStep, Connect, Accept, PeerCloses, Begin, Handler, Send, Ready,
         MetricsDisabled, ReportPhase, ReportDone, BadRequest, Parse, Vectorize, Search,
         SearchPanics, Total, Respond
    <3>2. ASSUME NEW r, Respond(c, r), ask[c] # None => [to |-> ask[c], is |-> r] # None
          PROVE  Ends(c)
      <4>1. CASE conn[c] = "open"
        BY <2>0, <3>2, <4>1 DEF Respond, TypeOK
      <4>2. CASE conn[c] # "open"
        BY <2>0, <3>2, <4>2 DEF Respond, TypeOK
      <4> QED BY <4>1, <4>2
    <3>3. ask[c] # None =>
             /\ \A r \in {"200", "400", "disabled", "page"} : [to |-> ask[c], is |-> r] # None
             /\ \A n \in 0 .. K : [to |-> ask[c], is |-> RESPONSES(n)] # None
      BY <2>0, ServerAssumption DEF TypeOK, NoneIsNoAnswer
    <3> SUFFICES Ends(c)
      BY <3>1
    <3>4. CASE Ready(c) \/ MetricsDisabled(c) \/ ReportDone(c) \/ BadRequest(c)
      <4>1. \E r \in {"200", "400", "disabled", "page"} : Respond(c, r)
        BY <3>4 DEF Ready, MetricsDisabled, ReportDone, BadRequest
      <4>2. PICK r \in {"200", "400", "disabled", "page"} : Respond(c, r)
        BY <4>1
      <4>3. ask[c] # None => [to |-> ask[c], is |-> r] # None
        BY <3>3
      <4> QED BY <3>2, <4>2, <4>3
    <3>5. CASE Total(c)
      <4>1. found[c] \in 0 .. K
        BY <2>0 DEF TypeOK
      <4>2. Respond(c, RESPONSES(found[c]))
        BY <3>5 DEF Total
      <4>3. ask[c] # None => [to |-> ask[c], is |-> RESPONSES(found[c])] # None
        BY <3>3, <4>1
      <4> QED BY <3>2, <4>2, <4>3
    <3>6. CASE SearchPanics(c) \/ PeerCloses(c)
      BY <2>0, <3>6 DEF SearchPanics, PeerCloses, TypeOK
    <3>7. CASE ~ (Ready(c) \/ MetricsDisabled(c) \/ ReportDone(c) \/ BadRequest(c) \/ Total(c)
                  \/ SearchPanics(c) \/ PeerCloses(c))
      BY <2>0, <2>3, <3>7 DEF TypeOK, ConnectionStep, Handler, Connect, Accept, Begin, Send, ReportPhase,
         Parse, Vectorize, Search
    <3> QED BY <3>4, <3>5, <3>6, <3>7
  <2> QED BY <2>1, <2>2, <2>3, NextCases
<1> QED BY <1>1, Invariance, PTL DEF Spec, AnsweredOrClosed

\* The process with all its steps implements the abstract one: every step of main is a
\* stage of ApiProcess or a stutter, and connections do not show.
THEOREM Refinement == Spec => RefinesApiProcess
<1>1. Init => Process!Init
  BY DEF Init, Process!Init, Stage
<1>2. ASSUME IInv, [Next]_vars
      PROVE  [Process!Next]_Stage
  <2>0. TypeOK /\ SocketOfThisLife
    BY <1>2 DEF IInv
  <2> USE DEF Stage, Process!Next, Process!Lives, Process!Advance, Process!Die
  <2>1. CASE StartStep
    <3>1. CASE Launch
      BY <3>1 DEF Launch
    <3>2. CASE LoadAll
      BY <2>0, <3>2 DEF LoadAll, TypeOK
    <3>3. CASE BindHealth \/ RemoveFile \/ RemoveFileFails
      BY <3>3 DEF BindHealth, RemoveFile, RemoveFileFails
    <3>4. CASE BindUds \/ BindTcp
      BY <2>0, <3>4 DEF BindUds, BindTcp, SocketOfThisLife
    <3>5. CASE SetPermissions
      BY <3>5 DEF SetPermissions
    <3> QED BY <2>1, <3>1, <3>2, <3>3, <3>4, <3>5 DEF StartStep
  <2>2. ASSUME NEW why, Exit(why)
        PROVE  [Process!Next]_Stage
    BY <2>0, <2>2 DEF Exit, TypeOK
  <2>3. ASSUME NEW c \in Conns, ConnectionStep(c)
        PROVE  [Process!Next]_Stage
    BY <2>3, Frames DEF main
  <2>4. CASE UNCHANGED vars
    BY <2>4 DEF vars, main
  <2> QED BY <1>2, <2>1, <2>2, <2>3, <2>4, NextCases
<1> QED BY <1>1, <1>2, Invariance, PTL DEF Spec, RefinesApiProcess, Process!Spec

----------------------------------------------------------------------------
(* The deployment                                                          *)

\* Deployment composes processes that behave as ApiProcess, which Refinement has just
\* shown of ApiServer, with HAProxy and clients.
Places == {"idle", "picked", "sent", "200", "502", "503"}

\* A request that is somewhere on its way has a server.
SiteTypeOK ==
    /\ life \in [Procs -> Api!Lives]
    /\ health \in [Procs -> 0 .. (Rise + Fall - 1)]
    /\ idle \in [Procs -> {"none", "usable", "closed"}]
    /\ req \in [Requests -> [at : Places, server : Procs \cup {NoServer}, tries : 0 .. Retries]]
    /\ \A r \in Requests : req[r].at \in {"picked", "sent"} => req[r].server \in Procs
    /\ passed \in [Procs -> 0 .. Rise]
    /\ missed \in [Procs -> Nat]
    /\ deaths \in 0 .. MaxDeaths /\ slow \in 0 .. MaxSlow

\* The counter HAProxy keeps is at least what the checks of this life have earned: one
\* for each check passed in a row and, from Rise on, the full credit but for one for
\* each check that timed out since.
CreditEarned ==
    \A s \in Procs : life[s] = "serving" =>
        /\ health[s] >= passed[s]
        /\ passed[s] = Rise => missed[s] < Fall /\ health[s] >= Rise + Fall - 1 - missed[s]

\* Nothing is earned before the process serves.
NothingEarned == \A s \in Procs : life[s] # "serving" => passed[s] = 0 /\ missed[s] = 0

SiteInv == SiteTypeOK /\ CreditEarned /\ NothingEarned

----------------------------------------------------------------------------
\* The counter stays in its range.
LEMMA CounterType ==
    ASSUME NEW h \in 0 .. (Rise + Fall - 1)
    PROVE  /\ AfterSuccess(h) \in 0 .. (Rise + Fall - 1)
           /\ AfterFailure(h) \in 0 .. (Rise + Fall - 1)
BY DeploymentAssumption DEF AfterSuccess, AfterFailure

\* No process serves, so no check has earned anything.
LEMMA SiteInitInv ==
    SiteInit => SiteInv
<1> SUFFICES ASSUME SiteInit PROVE SiteInv
  OBVIOUS
<1>1. SiteTypeOK
  <2>1. Idle \in [at : Places, server : Procs \cup {NoServer}, tries : 0 .. Retries] /\ Idle.at = "idle"
    BY DeploymentAssumption DEF Idle, Places
  <2>2. Rise \in 0 .. (Rise + Fall - 1) /\ 0 \in 0 .. Rise /\ 0 \in 0 .. MaxDeaths /\ 0 \in 0 .. MaxSlow
    BY DeploymentAssumption
  <2> QED BY <2>1, <2>2 DEF SiteInit, SiteTypeOK, Api!Lives
<1>2. CreditEarned /\ NothingEarned
  BY DEF SiteInit, CreditEarned, NothingEarned
<1> QED BY <1>1, <1>2 DEF SiteInv

\* A step of the requests leaves the processes and the counters alone.
LEMMA RequestFrame ==
    ASSUME NEW r \in Requests, Pick(r) \/ HAProxyStep(r)
    PROVE  UNCHANGED <<life, health, passed, missed, deaths, slow>>
BY DEF Pick, HAProxyStep, Deliver, ReuseFails, ConnectFails, Answered, Returns, history

\* What HAProxy does with a request keeps the type of requests and kept connections.
LEMMA RequestsType ==
    ASSUME SiteTypeOK, NEW r \in Requests, Pick(r) \/ HAProxyStep(r)
    PROVE  /\ idle' \in [Procs -> {"none", "usable", "closed"}]
           /\ req' \in [Requests -> [at : Places, server : Procs \cup {NoServer}, tries : 0 .. Retries]]
           /\ \A q \in Requests : req'[q].at \in {"picked", "sent"} => req'[q].server \in Procs
<1> USE DEF Places
<1>1. /\ idle \in [Procs -> {"none", "usable", "closed"}]
      /\ req \in [Requests -> [at : Places, server : Procs \cup {NoServer}, tries : 0 .. Retries]]
      /\ \A q \in Requests : req[q].at \in {"picked", "sent"} => req[q].server \in Procs
  BY DEF SiteTypeOK
<1>2. CASE Pick(r)
  <2>1. 0 \in 0 .. Retries
    BY DeploymentAssumption
  <2> QED BY <1>1, <1>2, <2>1 DEF Pick, Moved
<1>3. CASE Deliver(r)
  BY <1>1, <1>3 DEF Deliver, Moved
<1>4. CASE ReuseFails(r)
  BY <1>1, <1>4 DEF ReuseFails, Moved
<1>5. CASE ConnectFails(r)
  <2>1. CASE req[r].tries < Retries
    <3>1. req' = [req EXCEPT ![r].tries = @ + 1] /\ idle' = idle
      BY <1>5, <2>1 DEF ConnectFails
    <3>2. req[r].tries + 1 \in 0 .. Retries
      BY <1>1, <2>1, DeploymentAssumption
    <3> QED BY <1>1, <3>1, <3>2
  <2>2. CASE ~ (req[r].tries < Retries)
    BY <1>1, <1>5, <2>2 DEF ConnectFails, Moved
  <2> QED BY <2>1, <2>2
<1>6. CASE Answered(r)
  BY <1>1, <1>6 DEF Answered, Moved
<1>7. CASE Returns(r)
  <2>1. Idle \in [at : Places, server : Procs \cup {NoServer}, tries : 0 .. Retries] /\ Idle.at = "idle"
    BY DeploymentAssumption DEF Idle
  <2> QED BY <1>1, <1>7, <2>1 DEF Returns
<1> QED BY <1>2, <1>3, <1>4, <1>5, <1>6, <1>7 DEF HAProxyStep

\* Every step of the processes, the checks, HAProxy and the clients keeps the types.
LEMMA SiteTypeStep ==
    SiteTypeOK /\ [SiteNext]_site => SiteTypeOK'
<1> SUFFICES ASSUME SiteTypeOK, [SiteNext]_site PROVE SiteTypeOK'
  OBVIOUS
<1>1. ASSUME NEW r \in Requests, Pick(r) \/ HAProxyStep(r)
      PROVE  SiteTypeOK'
  BY <1>1, RequestFrame, RequestsType DEF SiteTypeOK
<1>2. ASSUME NEW s \in Procs, Advances(s)
      PROVE  SiteTypeOK'
  BY <1>2 DEF Advances, SiteTypeOK, haproxy, history
<1>3. ASSUME NEW s \in Procs, Dies(s)
      PROVE  SiteTypeOK'
  <2>1. PICK b \in Api!Lives : life' = [life EXCEPT ![s] = b]
    BY <1>3 DEF Dies
  <2>2. /\ req' \in [Requests -> [at : Places, server : Procs \cup {NoServer}, tries : 0 .. Retries]]
        /\ \A r \in Requests : req'[r].at \in {"picked", "sent"} => req'[r].server \in Procs
    BY <1>3 DEF Dies, LoseSent, SiteTypeOK, Places
  <2>3. deaths' \in 0 .. MaxDeaths
    BY <1>3, DeploymentAssumption DEF Dies, SiteTypeOK
  <2>4. idle' \in [Procs -> {"none", "usable", "closed"}]
    BY <1>3 DEF Dies, SiteTypeOK
  <2>5. passed' \in [Procs -> 0 .. Rise] /\ missed' \in [Procs -> Nat]
    BY <1>3, DeploymentAssumption DEF Dies, SiteTypeOK
  <2>6. health' = health /\ slow' = slow
    BY <1>3 DEF Dies
  <2> QED BY <2>1, <2>2, <2>3, <2>4, <2>5, <2>6 DEF SiteTypeOK
<1>4. ASSUME NEW s \in Procs, CheckPasses(s) \/ CheckRefused(s) \/ CheckTimesOut(s)
      PROVE  SiteTypeOK'
  <2>1. health' \in [Procs -> 0 .. (Rise + Fall - 1)]
    BY <1>4, CounterType DEF CheckPasses, CheckRefused, CheckTimesOut, SiteTypeOK
  <2>2. passed' \in [Procs -> 0 .. Rise] /\ missed' \in [Procs -> Nat]
    BY <1>4, DeploymentAssumption DEF CheckPasses, CheckRefused, CheckTimesOut, SiteTypeOK, history
  <2>3. slow' \in 0 .. MaxSlow
    BY <1>4, DeploymentAssumption DEF CheckPasses, CheckRefused, CheckTimesOut, SiteTypeOK
  <2>4. UNCHANGED <<life, idle, req, deaths>>
    BY <1>4 DEF CheckPasses, CheckRefused, CheckTimesOut
  <2> QED BY <2>1, <2>2, <2>3, <2>4 DEF SiteTypeOK
<1>5. ASSUME NEW s \in Procs, SeesClose(s)
      PROVE  SiteTypeOK'
  BY <1>5 DEF SeesClose, SiteTypeOK, history
<1>6. CASE UNCHANGED site
  BY <1>6 DEF site, haproxy, history, SiteTypeOK
<1> QED BY <1>1, <1>2, <1>3, <1>4, <1>5, <1>6 DEF SiteNext

\* The history of checks is emptied when a process dies and grows only while it serves.
LEMMA NothingStep ==
    SiteTypeOK /\ NothingEarned /\ [SiteNext]_site => NothingEarned'
<1> SUFFICES ASSUME SiteTypeOK, NothingEarned, [SiteNext]_site PROVE NothingEarned'
  OBVIOUS
<1> USE DEF NothingEarned
<1>1. ASSUME NEW r \in Requests, Pick(r) \/ HAProxyStep(r)
      PROVE  NothingEarned'
  BY <1>1, RequestFrame
<1>2. ASSUME NEW s \in Procs, Advances(s) \/ SeesClose(s)
      PROVE  NothingEarned'
  <2>1. UNCHANGED history
    BY <1>2 DEF Advances, SeesClose
  <2>2. \A q \in Procs : life'[q] # "serving" => life[q] # "serving"
    BY <1>2 DEF Advances, SeesClose, SiteTypeOK, Api!Advance
  <2> QED BY <2>1, <2>2 DEF history
<1>3. ASSUME NEW s \in Procs, Dies(s)
      PROVE  NothingEarned'
  BY <1>3 DEF Dies, SiteTypeOK
<1>4. ASSUME NEW s \in Procs, CheckPasses(s) \/ CheckRefused(s) \/ CheckTimesOut(s)
      PROVE  NothingEarned'
  BY <1>4 DEF CheckPasses, CheckRefused, CheckTimesOut, SiteTypeOK, history
<1>5. CASE UNCHANGED site
  BY <1>5 DEF site, history
<1> QED BY <1>1, <1>2, <1>3, <1>4, <1>5 DEF SiteNext

\* A passed check adds to the counter or fills it, a timed-out one takes one away, and
\* nothing else touches the counter of a serving process.
LEMMA CreditStep ==
    SiteInv /\ [SiteNext]_site => CreditEarned'
<1> SUFFICES ASSUME SiteTypeOK, NothingEarned, CreditEarned, [SiteNext]_site PROVE CreditEarned'
  BY DEF SiteInv
<1>1. ASSUME NEW r \in Requests, Pick(r) \/ HAProxyStep(r)
      PROVE  CreditEarned'
  BY <1>1, RequestFrame DEF CreditEarned
<1>2. ASSUME NEW s \in Procs, Advances(s)
      PROVE  CreditEarned'
  <2>1. UNCHANGED <<health, passed, missed>>
    BY <1>2 DEF Advances, haproxy, history
  <2>2. \A q \in Procs : life'[q] = "serving" => life[q] = "serving" \/ passed[q] = 0
    BY <1>2 DEF Advances, SiteTypeOK, NothingEarned
  <2>3. \A q \in Procs : health[q] >= 0
    BY DeploymentAssumption DEF SiteTypeOK
  <2> QED BY <2>1, <2>2, <2>3, DeploymentAssumption DEF CreditEarned
<1>3. ASSUME NEW s \in Procs, Dies(s)
      PROVE  CreditEarned'
  <2>1. health' = health /\ life'[s] = "down"
    BY <1>3 DEF Dies, SiteTypeOK, Api!Die
  <2>2. \A q \in Procs : q # s => UNCHANGED <<life[q], passed[q], missed[q]>>
    BY <1>3 DEF Dies, SiteTypeOK
  <2> QED BY <2>1, <2>2 DEF CreditEarned
<1>4. ASSUME NEW s \in Procs, CheckPasses(s) \/ CheckRefused(s) \/ CheckTimesOut(s)
      PROVE  CreditEarned'
  <2>0. life' = life
    BY <1>4 DEF CheckPasses, CheckRefused, CheckTimesOut
  <2>1. \A q \in Procs : q # s => UNCHANGED <<health[q], passed[q], missed[q]>>
    BY <1>4 DEF CheckPasses, CheckRefused, CheckTimesOut, SiteTypeOK, history
  <2>2. /\ health[s] \in 0 .. (Rise + Fall - 1) /\ passed[s] \in 0 .. Rise /\ missed[s] \in Nat
        /\ Rise \in Nat \ {0} /\ Fall \in Nat \ {0}
    BY DeploymentAssumption DEF SiteTypeOK
  <2> SUFFICES ASSUME life[s] = "serving"
               PROVE  /\ health'[s] >= passed'[s]
                      /\ passed'[s] = Rise =>
                            missed'[s] < Fall /\ health'[s] >= Rise + Fall - 1 - missed'[s]
    BY <2>0, <2>1 DEF CreditEarned
  <2>3. /\ health[s] >= passed[s]
        /\ passed[s] = Rise => missed[s] < Fall /\ health[s] >= Rise + Fall - 1 - missed[s]
    BY DEF CreditEarned
  <2>4. CASE CheckPasses(s)
    <3>1. /\ health'[s] = AfterSuccess(health[s])
          /\ passed'[s] = IF passed[s] < Rise THEN passed[s] + 1 ELSE passed[s]
          /\ missed'[s] = 0
      BY <2>4 DEF CheckPasses, SiteTypeOK
    <3> QED BY <2>2, <2>3, <3>1 DEF AfterSuccess
  <2>5. CASE CheckRefused(s)
    BY <2>5 DEF CheckRefused
  <2>6. CASE CheckTimesOut(s)
    <3>1. /\ health'[s] = AfterFailure(health[s])
          /\ missed'[s] = missed[s] + 1
          /\ passed'[s] = IF passed[s] = Rise /\ missed'[s] < Fall THEN passed[s] ELSE 0
      BY <2>6 DEF CheckTimesOut, SiteTypeOK
    <3> QED BY <2>2, <2>3, <3>1 DEF AfterFailure
  <2> QED BY <1>4, <2>4, <2>5, <2>6
<1>5. ASSUME NEW s \in Procs, SeesClose(s)
      PROVE  CreditEarned'
  BY <1>5 DEF SeesClose, history, CreditEarned
<1>6. CASE UNCHANGED site
  BY <1>6 DEF site, haproxy, history, CreditEarned
<1> QED BY <1>1, <1>2, <1>3, <1>4, <1>5, <1>6 DEF SiteNext

\* The types and what the checks have earned are an invariant of the deployment.
THEOREM SiteInvariance ==
    SiteSpec => []SiteInv
<1>1. SiteInit => SiteInv
  BY SiteInitInv
<1>2. SiteInv /\ [SiteNext]_site => SiteInv'
  BY SiteTypeStep, NothingStep, CreditStep DEF SiteInv
<1> QED BY <1>1, <1>2, PTL DEF SiteSpec

\* For every rise and fall: a server that has passed Rise checks in a row since it
\* serves is in rotation as long as fewer than Fall checks in a row time out on it.
THEOREM SlowChecksForgiven ==
    SiteSpec => []SlowCheckForgiven
<1>1. SiteInv => SlowCheckForgiven
  BY DeploymentAssumption DEF SiteInv, SiteTypeOK, CreditEarned, SlowCheckForgiven, Up
<1>2. SiteSpec => []SiteInv
  BY SiteInvariance
<1> QED BY <1>1, <1>2, PTL

----------------------------------------------------------------------------
(* calibrate_probes                                                        *)

Searched == DOMAIN entries \cap 1 .. (e - 1)

CalTypeOK ==
    /\ pc \in {"vectorize", "load", "search", "panicked"}
    /\ entries \in TestData
    /\ p \in Nat \ {0}
    /\ e \in 1 .. (Len(entries) + 1)
    /\ mismatches \in Nat /\ false_positives \in Nat /\ false_negatives \in Nat
    /\ printed \in Seq([success : BOOLEAN, mismatches : Nat, fp : Nat, fn : Nat])

\* One line per probe value that is done.
LinesOfThePast == Len(printed) = p - 1 /\ (pc = "search" => p <= Len(ProbeValues))

\* Inside the loop over the queries the counters are those of the queries before e.
CountersFit ==
    pc = "search" =>
        /\ false_positives = Cardinality(WrongAmong(Searched, ProbeValues[p], TRUE))
        /\ false_negatives = Cardinality(WrongAmong(Searched, ProbeValues[p], FALSE))
        /\ mismatches = false_positives + false_negatives

CalInv == CalTypeOK /\ LinesOfThePast /\ CountersFit /\ PrintedIsWhatIsServed

----------------------------------------------------------------------------
\* The threshold of the tool and the table of the service agree on every count of frauds.
LEMMA SameThreshold ==
    \A n \in 0 .. K : approved(n) <=> RESPONSES(n).approved
<1> SUFFICES ASSUME NEW n \in 0 .. K PROVE approved(n) <=> RESPONSES(n).approved
  OBVIOUS
<1>1. RESPONSES(n).approved = Approved(n)
  BY Zenon DEF RESPONSES
<1>2. approved(n) <=> Approved(n)
  BY DEF K, approved, Approved
<1> QED BY <1>1, <1>2

\* What the assumption on the test data says of an entry.
LEMMA EntryType ==
    ASSUME entries \in TestData,
           NEW k \in DOMAIN entries, NEW n \in DOMAIN ProbeValues
    PROVE  /\ entries[k].expected_approved \in BOOLEAN
           /\ entries[k].frauds[ProbeValues[n]] \in 0 .. K
<1> DEFINE Entry == [expected_approved : BOOLEAN, parses : BOOLEAN,
               frauds : [{ProbeValues[q] : q \in DOMAIN ProbeValues} -> 0 .. K]]
<1>1. entries \in Seq(Entry)
  BY CalibrateAssumption
<1> HIDE DEF Entry
<1>2. entries[k] \in Entry
  BY <1>1
<1> QED BY <1>2 DEF Entry

\* The test data is a sequence.
LEMMA EntriesSeq ==
    entries \in TestData => Len(entries) \in Nat /\ DOMAIN entries = 1 .. Len(entries)
BY CalibrateAssumption

\* The set of wrong answers among finitely many entries is finite.
LEMMA WrongFinite ==
    ASSUME entries \in TestData,
           NEW n, NEW expected, NEW S, S \subseteq DOMAIN entries
    PROVE  IsFiniteSet(WrongAmong(S, n, expected))
<1>1. IsFiniteSet(DOMAIN entries)
  BY EntriesSeq, FS_Interval
<1>2. WrongAmong(S, n, expected) \subseteq DOMAIN entries
  BY DEF WrongAmong
<1> QED BY <1>1, <1>2, FS_Subset

\* Nothing is printed or counted before the requests are parsed.
LEMMA CalInit ==
    CalibrateInit => CalInv
<1> SUFFICES ASSUME CalibrateInit PROVE CalInv
  OBVIOUS
<1>1. CalTypeOK
  BY EntriesSeq DEF CalibrateInit, CalTypeOK
<1>2. LinesOfThePast /\ CountersFit
  BY DEF CalibrateInit, LinesOfThePast, CountersFit
<1>3. PrintedIsWhatIsServed
  BY DEF CalibrateInit, PrintedIsWhatIsServed
<1> QED BY <1>1, <1>2, <1>3 DEF CalInv

\* Parsing, loading, searching and printing keep the types.
LEMMA CalTypeStep ==
    CalTypeOK /\ [CalibrateNext]_calibration => CalTypeOK'
<1> SUFFICES ASSUME CalTypeOK, [CalibrateNext]_calibration PROVE CalTypeOK'
  OBVIOUS
<1>0. Len(entries) \in Nat
  BY EntriesSeq DEF CalTypeOK
<1> USE DEF CalTypeOK, counters
<1>1. CASE PreVectorize \/ FileMissing
  BY <1>1 DEF PreVectorize, FileMissing
<1>2. CASE LoadIndex
  BY <1>0, <1>2 DEF LoadIndex, Reset
<1>3. CASE SearchEntry
  BY <1>0, <1>3 DEF SearchEntry
<1>4. CASE PrintResult
  BY <1>4 DEF PrintResult
<1>5. CASE UNCHANGED calibration
  BY <1>5 DEF calibration
<1> QED BY <1>1, <1>2, <1>3, <1>4, <1>5 DEF CalibrateNext

\* A line is printed exactly when the loop goes on to the next probe value.
LEMMA LinesStep ==
    CalTypeOK /\ LinesOfThePast /\ [CalibrateNext]_calibration => LinesOfThePast'
<1> SUFFICES ASSUME CalTypeOK, LinesOfThePast, [CalibrateNext]_calibration PROVE LinesOfThePast'
  OBVIOUS
<1> USE DEF CalTypeOK, LinesOfThePast
<1>1. CASE PreVectorize \/ FileMissing \/ LoadIndex \/ SearchEntry
  BY <1>1 DEF PreVectorize, FileMissing, LoadIndex, SearchEntry
<1>2. CASE PrintResult
  BY <1>2 DEF PrintResult
<1>3. CASE UNCHANGED calibration
  BY <1>3 DEF calibration
<1> QED BY <1>1, <1>2, <1>3 DEF CalibrateNext

\* One more query: the set of wrong ones grows by it or not at all.
LEMMA OneMore ==
    ASSUME CalTypeOK, e <= Len(entries), NEW n, NEW expected \in BOOLEAN
    PROVE  LET before == WrongAmong(Searched, n, expected)
               after  == WrongAmong(DOMAIN entries \cap 1 .. e, n, expected)
           IN  Cardinality(after) = Cardinality(before) +
                  IF entries[e].expected_approved = expected /\ Served(e, n) # expected THEN 1 ELSE 0
<1> DEFINE before == WrongAmong(Searched, n, expected)
           after  == WrongAmong(DOMAIN entries \cap 1 .. e, n, expected)
           isWrong == entries[e].expected_approved = expected /\ Served(e, n) # expected
<1>0. e \in Nat /\ e >= 1 /\ entries \in TestData /\ e \in DOMAIN entries
  BY EntriesSeq DEF CalTypeOK
<1>1. IsFiniteSet(before) /\ e \notin before
  <2>1. Searched \subseteq DOMAIN entries /\ e \notin Searched
    BY <1>0 DEF Searched
  <2>2. IsFiniteSet(before)
    BY <1>0, <2>1, WrongFinite
  <2>3. e \notin before
    BY <2>1 DEF WrongAmong
  <2> QED BY <2>2, <2>3
<1>2. 1 .. e = (1 .. (e - 1)) \cup {e}
  BY <1>0
<1>3. after = IF isWrong THEN before \cup {e} ELSE before
  BY <1>0, <1>2 DEF WrongAmong, Searched
<1>4. Cardinality(before) \in Nat
  BY <1>1, FS_CardinalityType
<1> HIDE DEF before, after, isWrong
<1>5. Cardinality(after) = Cardinality(before) + IF isWrong THEN 1 ELSE 0
  <2>1. CASE isWrong
    BY <1>1, <1>3, <2>1, FS_AddElement
  <2>2. CASE ~ isWrong
    BY <1>3, <1>4, <2>2
  <2> QED BY <2>1, <2>2
<1> QED BY <1>5 DEF before, after, isWrong

\* A query adds one to the counter of its kind of error, or to none; loading the index
\* for the next value starts them from 0.
LEMMA CountersStep ==
    CalTypeOK /\ LinesOfThePast /\ CountersFit /\ [CalibrateNext]_calibration => CountersFit'
<1> SUFFICES ASSUME CalTypeOK, LinesOfThePast, CountersFit, [CalibrateNext]_calibration PROVE CountersFit'
  OBVIOUS
<1>1. CASE PreVectorize \/ FileMissing \/ PrintResult
  BY <1>1 DEF PreVectorize, FileMissing, PrintResult, CountersFit
<1>2. CASE LoadIndex
  <2>1. e' = 1 /\ mismatches' = 0 /\ false_positives' = 0 /\ false_negatives' = 0
    BY <1>2 DEF LoadIndex, Reset
  <2>2. Searched' = {}
    BY <2>1 DEF Searched
  <2>3. /\ WrongAmong(Searched, ProbeValues[p], TRUE)' = {}
        /\ WrongAmong(Searched, ProbeValues[p], FALSE)' = {}
    BY <2>2 DEF WrongAmong
  <2>4. /\ Cardinality(WrongAmong(Searched, ProbeValues[p], TRUE))' = 0
        /\ Cardinality(WrongAmong(Searched, ProbeValues[p], FALSE))' = 0
    BY <2>3, FS_EmptySet
  <2>5. mismatches' = false_positives' + false_negatives'
    BY <2>1
  <2> QED BY <2>1, <2>4, <2>5 DEF CountersFit
<1>3. CASE SearchEntry
  <2> DEFINE probes == ProbeValues[p]
  <2>1. /\ pc = "search" /\ e <= Len(entries)
        /\ e' = e + 1 /\ entries' = entries /\ p' = p
    BY <1>3 DEF SearchEntry
  <2>2. e \in DOMAIN entries /\ p \in DOMAIN ProbeValues /\ e \in Nat /\ entries \in TestData
    BY <2>1, EntriesSeq, CalibrateAssumption DEF CalTypeOK, LinesOfThePast
  <2>3. entries[e].expected_approved \in BOOLEAN /\ entries[e].frauds[probes] \in 0 .. K
    BY <2>2, EntryType
  <2>4. approved(entries[e].frauds[probes]) <=> Served(e, probes)
    BY <2>3, SameThreshold DEF Served
  <2>5. Served(e, probes) \in BOOLEAN /\ approved(entries[e].frauds[probes]) \in BOOLEAN
    BY DEF Served, RESPONSES, Approved, approved
  <2>6. Searched' = DOMAIN entries \cap 1 .. e
    BY <2>1, <2>2 DEF Searched
  <2>7. \A expected : WrongAmong(Searched, probes, expected)'
                         = WrongAmong(DOMAIN entries \cap 1 .. e, probes, expected)
    BY <2>1, <2>6 DEF WrongAmong, Served
  <2>8. \A expected \in BOOLEAN :
           Cardinality(WrongAmong(Searched, probes, expected))'
             = Cardinality(WrongAmong(Searched, probes, expected)) +
                  IF entries[e].expected_approved = expected /\ Served(e, probes) # expected
                  THEN 1 ELSE 0
    BY <2>1, <2>7, OneMore
  <2>9. /\ false_positives' = false_positives +
              IF entries[e].expected_approved = TRUE /\ Served(e, probes) # TRUE THEN 1 ELSE 0
        /\ false_negatives' = false_negatives +
              IF entries[e].expected_approved = FALSE /\ Served(e, probes) # FALSE THEN 1 ELSE 0
        /\ mismatches' = mismatches +
              IF Served(e, probes) # entries[e].expected_approved THEN 1 ELSE 0
    BY <1>3, <2>3, <2>4, <2>5 DEF SearchEntry
  <2>10. mismatches' = false_positives' + false_negatives'
    <3>0. /\ mismatches = false_positives + false_negatives
          /\ false_positives \in Nat /\ false_negatives \in Nat
      BY <2>1 DEF CountersFit, CalTypeOK
    <3>1. CASE Served(e, probes) = entries[e].expected_approved
      <4>1. /\ false_positives' = false_positives + 0 /\ false_negatives' = false_negatives + 0
            /\ mismatches' = mismatches + 0
        BY <2>3, <2>5, <2>9, <3>1, Zenon
      <4> QED BY <3>0, <4>1
    <3>2. CASE Served(e, probes) # entries[e].expected_approved /\ entries[e].expected_approved = TRUE
      <4>1. /\ false_positives' = false_positives + 1 /\ false_negatives' = false_negatives + 0
            /\ mismatches' = mismatches + 1
        BY <2>9, <3>2, Zenon
      <4> QED BY <3>0, <4>1
    <3>3. CASE Served(e, probes) # entries[e].expected_approved /\ entries[e].expected_approved = FALSE
      <4>1. /\ false_positives' = false_positives + 0 /\ false_negatives' = false_negatives + 1
            /\ mismatches' = mismatches + 1
        BY <2>9, <3>3, Zenon
      <4> QED BY <3>0, <4>1
    <3> QED BY <2>3, <3>1, <3>2, <3>3
  <2> QED BY <2>1, <2>8, <2>9, <2>10 DEF CountersFit
<1>4. CASE UNCHANGED calibration
  BY <1>4 DEF calibration, counters, CountersFit, WrongAmong, Searched, Served
<1> QED BY <1>1, <1>2, <1>3, <1>4 DEF CalibrateNext

\* What is printed at the end of a loop are the errors among all entries.
LEMMA PrintedStep ==
    CalTypeOK /\ LinesOfThePast /\ CountersFit /\ PrintedIsWhatIsServed /\ [CalibrateNext]_calibration
               => PrintedIsWhatIsServed'
<1> SUFFICES ASSUME CalTypeOK, LinesOfThePast, CountersFit, PrintedIsWhatIsServed, [CalibrateNext]_calibration
             PROVE  PrintedIsWhatIsServed'
  OBVIOUS
<1>0. entries' = entries
  BY DEF CalibrateNext, calibration, PreVectorize, FileMissing, LoadIndex, SearchEntry, PrintResult
<1>1. \A S, n, expected : WrongAmong(S, n, expected)' = WrongAmong(S, n, expected)
  BY <1>0 DEF WrongAmong, Served
<1>2. CASE printed' = printed
  BY <1>0, <1>2 DEF PrintedIsWhatIsServed, WrongAmong, Served
<1>3. CASE PrintResult
  <2> DEFINE denied == WrongAmong(DOMAIN entries, ProbeValues[p], TRUE)
             let_through == WrongAmong(DOMAIN entries, ProbeValues[p], FALSE)
             line == [success |-> mismatches = 0, mismatches |-> mismatches,
                      fp |-> false_positives, fn |-> false_negatives]
  <2>1. pc = "search" /\ e > Len(entries) /\ printed' = Append(printed, line)
    BY <1>3 DEF PrintResult
  <2>2. Searched = DOMAIN entries
    BY <2>1, EntriesSeq DEF Searched, CalTypeOK
  <2>3. /\ false_positives = Cardinality(denied)
        /\ false_negatives = Cardinality(let_through)
        /\ mismatches = Cardinality(denied) + Cardinality(let_through)
    BY <2>1, <2>2 DEF CountersFit
  <2>4. IsFiniteSet(denied) /\ IsFiniteSet(let_through)
    BY WrongFinite DEF CalTypeOK
  <2> HIDE DEF denied, let_through
  <2>5. /\ Cardinality(denied) \in Nat /\ (Cardinality(denied) = 0 <=> denied = {})
        /\ Cardinality(let_through) \in Nat /\ (Cardinality(let_through) = 0 <=> let_through = {})
    BY <2>4, FS_CardinalityType, FS_EmptySet
  <2>6. mismatches = 0 <=> denied \cup let_through = {}
    <3>1. mismatches = 0 <=> Cardinality(denied) = 0 /\ Cardinality(let_through) = 0
      BY <2>3, <2>5
    <3> QED BY <2>5, <3>1
  <2>7. Len(printed) = p - 1 /\ p \in Nat \ {0}
    BY DEF LinesOfThePast, CalTypeOK
  <2>8. /\ DOMAIN printed' = 1 .. p /\ printed'[p] = line
        /\ \A n \in 1 .. (p - 1) : n \in DOMAIN printed /\ printed'[n] = printed[n]
    BY <2>1, <2>7 DEF CalTypeOK
  <2>9. /\ line.success <=> denied \cup let_through = {}
        /\ line.fp = Cardinality(denied)
        /\ line.fn = Cardinality(let_through)
        /\ line.mismatches = line.fp + line.fn
    BY <2>3, <2>6
  <2> HIDE DEF line
  <2>10. \A n \in DOMAIN printed' : n = p \/ n \in 1 .. (p - 1)
    BY <2>7, <2>8
  <2> DEFINE Line(l, D, P) ==
        /\ l.success <=> D \cup P = {}
        /\ l.fp = Cardinality(D)
        /\ l.fn = Cardinality(P)
        /\ l.mismatches = l.fp + l.fn
      Denied(n) == WrongAmong(DOMAIN entries, ProbeValues[n], TRUE)
      Passed(n) == WrongAmong(DOMAIN entries, ProbeValues[n], FALSE)
  <2>11. Line(printed'[p], Denied(p), Passed(p))
    BY <2>8, <2>9 DEF denied, let_through
  <2>12. \A n \in DOMAIN printed : Line(printed[n], Denied(n), Passed(n))
    BY DEF PrintedIsWhatIsServed
  <2> HIDE DEF Line
  <2>13. \A n \in DOMAIN printed' : Line(printed'[n], Denied(n), Passed(n))
    BY <2>8, <2>10, <2>11, <2>12
  <2>14. \A n : Denied(n)' = Denied(n) /\ Passed(n)' = Passed(n)
    BY <1>0 DEF WrongAmong, Served
  <2>15. \A n \in DOMAIN printed' : Line(printed'[n], Denied(n)', Passed(n)')
    BY <2>13, <2>14
  <2> QED BY <2>15 DEF PrintedIsWhatIsServed, Line
<1> QED BY <1>2, <1>3 DEF CalibrateNext, calibration, PreVectorize, FileMissing, LoadIndex, SearchEntry

\* The types, the lines printed so far and the counters of the loop under way together
\* are an invariant of calibrate_probes.
THEOREM CalInvariance ==
    CalibrateSpec => []CalInv
<1>1. CalibrateInit => CalInv
  BY CalInit
<1>2. CalInv /\ [CalibrateNext]_calibration => CalInv'
  BY CalTypeStep, LinesStep, CountersStep, PrintedStep DEF CalInv
<1> QED BY <1>1, <1>2, PTL DEF CalibrateSpec

\* For every list of probe counts and all test data: what calibrate_probes prints for a
\* probe count is what the service would answer when deployed with it.
THEOREM PrintedAlwaysServed ==
    CalibrateSpec => []PrintedIsWhatIsServed
<1>1. CalInv => PrintedIsWhatIsServed
  BY DEF CalInv
<1>2. CalibrateSpec => []CalInv
  BY CalInvariance
<1> QED BY <1>1, <1>2, PTL
=============================================================================
