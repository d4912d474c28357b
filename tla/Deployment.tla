----------------------------- MODULE Deployment -----------------------------
(***************************************************************************)
(* The deployed service: HAProxy, as haproxy.cfg sets it up, in front of   *)
(* API processes, which start and die as ApiProcess lets them.  The        *)
(* configuration asks for no redispatch and leaves the default of retrying *)
(* only what never left HAProxy.  A process that is not "serving" refuses  *)
(* HAProxy, which has another uid: no socket, or one it may not open yet.  *)
(***************************************************************************)
EXTENDS Integers, FiniteSets

CONSTANTS
    Procs,      \* the `server` lines: api1, api2
    Requests,   \* clients, one request at a time each
    Rise, Fall, \* rise 1, fall 2
    Retries,    \* retries of a connect, 3 by default
    NoServer,
    MaxDeaths,  \* bound: processes that die
    MaxSlow     \* bound: checks that time out on a process that serves

ASSUME DeploymentAssumption ==
    /\ Rise \in Nat \ {0} /\ Fall \in Nat \ {0} /\ Retries \in Nat
    /\ NoServer \notin Procs
    /\ MaxDeaths \in Nat /\ MaxSlow \in Nat

VARIABLES
    life,    \* the stage of each process
    health,  \* HAProxy's counter of each server; up from Rise on
    idle,    \* the kept connections to a server: none, usable, or closed by the other side
    req,     \* where each client's request is
    passed,  \* history: checks passed in a row since the process serves, up to Rise, and
             \* not taken back by fewer than Fall timeouts in a row
    missed,  \* history: checks in a row that timed out on the process
    deaths, slow

haproxy == <<health, idle, req>>
history == <<passed, missed>>
site == <<life, haproxy, history, deaths, slow>>

Api == INSTANCE ApiProcess

Up(p) == health[p] >= Rise
Idle == [at |-> "idle", server |-> NoServer, tries |-> 0]
Moved(r, where) == [req EXCEPT ![r].at = where]

\* The containers start together; a server counts as up until its first check.
SiteInit ==
    /\ life = [p \in Procs |-> "down"]
    /\ health = [p \in Procs |-> Rise]
    /\ idle = [p \in Procs |-> "none"]
    /\ req = [r \in Requests |-> Idle]
    /\ passed = [p \in Procs |-> 0] /\ missed = [p \in Procs |-> 0]
    /\ deaths = 0 /\ slow = 0

----------------------------------------------------------------------------
(* The processes                                                           *)

Advances(p) ==
    /\ \E b \in Api!Lives : Api!Advance(life[p], b) /\ life' = [life EXCEPT ![p] = b]
    /\ UNCHANGED <<haproxy, history, deaths, slow>>

\* What a process had been sent is lost, and not sent again.
LoseSent(p) == [r \in Requests |->
    IF req[r].at = "sent" /\ req[r].server = p THEN [req[r] EXCEPT !.at = "502"] ELSE req[r]]

Dies(p) ==
    /\ deaths < MaxDeaths
    /\ \E b \in Api!Lives : Api!Die(life[p], b) /\ life' = [life EXCEPT ![p] = b]
    /\ req' = LoseSent(p)
    /\ idle' = [idle EXCEPT ![p] = IF @ = "usable" THEN "closed" ELSE @]
    /\ passed' = [passed EXCEPT ![p] = 0] /\ missed' = [missed EXCEPT ![p] = 0]
    /\ deaths' = deaths + 1
    /\ UNCHANGED <<health, slow>>

----------------------------------------------------------------------------
(* option httpchk GET /ready, http-check expect status 200                 *)

OneUp(h) == IF h < Rise + Fall - 1 THEN h + 1 ELSE h
\* With enough successes a server comes up, and with the full credit.
AfterSuccess(h) == IF h + 1 >= Rise THEN Rise + Fall - 1 ELSE h + 1
AfterFailure(h) == IF h > Rise THEN h - 1 ELSE 0

PassesWhileUp(p) ==
    /\ life[p] = "serving" /\ Up(p)
    /\ health' = [health EXCEPT ![p] = AfterSuccess(@)]
    /\ passed' = [passed EXCEPT ![p] = IF @ < Rise THEN @ + 1 ELSE @]
    /\ missed' = [missed EXCEPT ![p] = 0]
    /\ UNCHANGED <<life, idle, req, deaths, slow>>
\* The handler of /ready answers at once, so the check is about the connection.
CheckPasses(p) ==
    /\ life[p] = "serving"
    /\ health' = [health EXCEPT ![p] = AfterSuccess(@)]
    /\ passed' = [passed EXCEPT ![p] = IF @ < Rise THEN @ + 1 ELSE @]
    /\ missed' = [missed EXCEPT ![p] = 0]
    /\ UNCHANGED <<life, idle, req, deaths, slow>>

\* No socket, or one that only its owner may open.
CheckRefused(p) ==
    /\ life[p] # "serving"
    /\ health' = [health EXCEPT ![p] = AfterFailure(@)]
    /\ UNCHANGED <<life, idle, req, history, deaths, slow>>

\* No answer within the interval: the CPU quota is used up.
CheckTimesOut(p) ==
    /\ life[p] = "serving"
    /\ slow < MaxSlow
    /\ health' = [health EXCEPT ![p] = AfterFailure(@)]
    /\ missed' = [missed EXCEPT ![p] = @ + 1]
    /\ passed' = [passed EXCEPT ![p] = IF @ = Rise /\ missed'[p] < Fall THEN @ ELSE 0]
    /\ slow' = slow + 1
    /\ UNCHANGED <<life, idle, req, deaths>>

Check(p) == CheckPasses(p) \/ CheckRefused(p)

----------------------------------------------------------------------------
(* A request                                                               *)

\* balance roundrobin over the servers that are up; with none, 503 at once.
Pick(r) ==
    /\ req[r].at = "idle"
    /\ \/ \E p \in Procs : Up(p) /\ req' = [req EXCEPT ![r] = [at |-> "picked", server |-> p, tries |-> 0]]
       \/ (\A p \in Procs : ~ Up(p)) /\ req' = Moved(r, "503")
    /\ UNCHANGED <<life, health, idle, history, deaths, slow>>

\* Over a kept connection or a new one.
Deliver(r) ==
    /\ req[r].at = "picked"
    /\ life[req[r].server] = "serving" /\ idle[req[r].server] # "closed"
    /\ req' = Moved(r, "sent")
    /\ UNCHANGED <<life, health, idle, history, deaths, slow>>

\* http-reuse always: the kept connection has been closed, which HAProxy has yet to see.
ReuseFails(r) ==
    /\ req[r].at = "picked"
    /\ idle[req[r].server] = "closed"
    /\ req' = Moved(r, "502")
    /\ idle' = [idle EXCEPT ![req[r].server] = "none"]
    /\ UNCHANGED <<life, health, history, deaths, slow>>

\* The same server is tried again; then 503.
ConnectFails(r) ==
    /\ req[r].at = "picked"
    /\ life[req[r].server] # "serving" /\ idle[req[r].server] # "closed"
    /\ req' = IF req[r].tries < Retries THEN [req EXCEPT ![r].tries = @ + 1] ELSE Moved(r, "503")
    /\ UNCHANGED <<life, health, idle, history, deaths, slow>>

\* HAProxy sees the close and drops the connection.
SeesClose(p) ==
    /\ idle[p] = "closed"
    /\ idle' = [idle EXCEPT ![p] = "none"]
    /\ UNCHANGED <<life, health, req, history, deaths, slow>>

Answered(r) ==
    /\ req[r].at = "sent"
    /\ req' = Moved(r, "200")
    /\ idle' = [idle EXCEPT ![req[r].server] = "usable"]
    /\ UNCHANGED <<life, health, history, deaths, slow>>

\* The client has its answer and may ask again.
Returns(r) ==
    /\ req[r].at \in {"200", "502", "503"}
    /\ req' = [req EXCEPT ![r] = Idle]
    /\ UNCHANGED <<life, health, idle, history, deaths, slow>>

HAProxyStep(r) == Deliver(r) \/ ReuseFails(r) \/ ConnectFails(r) \/ Answered(r) \/ Returns(r)

SiteNext ==
    \/ \E p \in Procs :
          \/ Advances(p) \/ Dies(p)
          \/ CheckPasses(p) \/ CheckRefused(p) \/ CheckTimesOut(p)
          \/ SeesClose(p)
    \/ \E r \in Requests : Pick(r) \/ HAProxyStep(r)

SiteSpec == SiteInit /\ [][SiteNext]_site

\* HAProxy checks every server every 2 s and gets on with what it has accepted; a
\* handler ends (ApiServer).  Nothing makes a process start, advance or die.
Fairness ==
    /\ \A p \in Procs : WF_site(Check(p)) /\ WF_site(SeesClose(p))
    /\ \A r \in Requests : WF_site(HAProxyStep(r))

FairSiteSpec == SiteSpec /\ Fairness

----------------------------------------------------------------------------
(* Properties                                                              *)

\* A process that has passed Rise checks in a row since it serves is in rotation, though
\* up to Fall - 1 checks in a row have timed out on it since, however often that happens.
SlowCheckForgiven ==
    \A p \in Procs : life[p] = "serving" /\ passed[p] = Rise => Up(p)

Forever(p) == <>[](life[p] = "serving") \/ <>[](life[p] # "serving")

\* However the start-ups and the checks interleave (the check before the chmod fails):
\* once every process has settled and one of them serves, requests stop failing.
ServiceRecovers ==
    (\A p \in Procs : Forever(p)) /\ (\E p \in Procs : <>[](life[p] = "serving"))
        => <>[](\A r \in Requests : req[r].at \notin {"502", "503"})
=============================================================================
