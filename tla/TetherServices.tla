--------------------------- MODULE TetherServices ---------------------------
(***************************************************************************)
(* The tether half of ZeroTierOneService: startTetherServices,             *)
(* startProxies, stopProxies, stopTetherServices, and the state listener   *)
(* the service adds to the bridge, composed with TetherBridge.  The        *)
(* listener runs on whichever bridge thread changed the state, so          *)
(* startProxies and stopProxies run on several threads at once and only    *)
(* share the service's fields, which no lock protects.                     *)
(*                                                                         *)
(* A proxy field is None (null), New (an object that has not been started) *)
(* or the address a running proxy is bound to.  A running proxy whose      *)
(* field is overwritten is remembered in "leaked": nothing can stop it.    *)
(***************************************************************************)
EXTENDS TetherBridge, Naturals, Sequences

CONSTANTS
    Kinds,  \* the enabled proxies, in the order startProxies starts them
    New     \* a proxy object before start()

ASSUME KindsAssumption == Kinds \in Seq(STRING) /\ Len(Kinds) >= 1

VARIABLES
    listening,  \* addStateListener has been called
    bridge,     \* tetherBridge # null
    field,      \* dnsProxy, socksProxy, httpProxy
    leaked,     \* running proxies that no field refers to
    lpc,        \* where each thread is in the service's own code
    k,          \* the proxy that startProxies or stopProxies is at
    bindAddr,   \* startProxies' argument
    quiet,      \* no handler was in flight when stop() shut its thread out
    overlapped, \* history: two threads have been among the proxies at once
    stale,      \* history: ACTIVE was assigned after the upstream had been lost
    unheard     \* history: ACTIVE was told to no listener, or to one that saw no interface

history == <<quiet, overlapped, stale, unheard>>
svcVars == <<listening, bridge, field, leaked, lpc, k, bindAddr, history>>
allVars == <<vars, svcVars>>

Kind == {Kinds[i] : i \in 1..Len(Kinds)}
Addr == {i.addr : i \in Iface}
Running(f) == f \notin {None, New}

SvcInit ==
    /\ Init
    /\ listening = FALSE
    /\ bridge = TRUE
    /\ field = [x \in Kind |-> None]
    /\ leaked = {}
    /\ lpc = [t \in Thread |-> "out"]
    /\ k = [t \in Thread |-> 1]
    /\ bindAddr = [t \in Thread |-> None]
    /\ quiet = TRUE
    /\ overlapped = FALSE /\ stale = FALSE /\ unheard = FALSE

\* Thread t is in startProxies or stopProxies.
AmongProxies(t) == lpc[t] \in {"start", "create", "launch", "stop", "halt", "forget"}

Enter(t, label) ==
    /\ lpc' = [lpc EXCEPT ![t] = label]
    /\ k' = [k EXCEPT ![t] = 1]

\* Thread t goes on with the next proxy, or returns after the last.
NextKind(t, label) ==
    /\ lpc' = [lpc EXCEPT ![t] = IF k[t] = Len(Kinds) THEN "done" ELSE label]
    /\ k' = [k EXCEPT ![t] = IF k[t] = Len(Kinds) THEN 1 ELSE k[t] + 1]

GoTo(t, label) ==
    /\ lpc' = [lpc EXCEPT ![t] = label]
    /\ UNCHANGED k

\* A NullPointerException.  startProxies and the bridge's setState catch it;
\* nothing in stopTetherServices does.
Throw(t) == Enter(t, IF t = "ctl" /\ pc[t] = "started" THEN "aborted" ELSE "done")

-----------------------------------------------------------------------------
(* The state listener, called by setState on thread t.                     *)

\* Mutant: the IDLE branch is missing.
ListenerIgnoresIdle(t) ==
    /\ pc[t] = "notify"
    /\ lpc[t] = "out"
    /\ \/ /\ listening /\ target[t] = "ACTIVE"
          /\ \E i \in active : bindAddr' = [bindAddr EXCEPT ![t] = i.addr]
          /\ Enter(t, "start")
       \/ /\ listening /\ target[t] = "DETECTING"
          /\ Enter(t, "stop")
          /\ UNCHANGED bindAddr
       \/ /\ \/ ~listening
             \/ target[t] \in {"ERROR", "IDLE"}
             \/ target[t] = "ACTIVE" /\ active = {}
          /\ Enter(t, "done")
          /\ UNCHANGED bindAddr
    /\ overlapped' = (overlapped \/ (AmongProxies(t)' /\ \E u \in Thread : AmongProxies(u)))
    /\ unheard' = (unheard \/ (target[t] = "ACTIVE" /\ (~listening \/ active = {})))
    /\ UNCHANGED <<vars, listening, bridge, field, leaked, quiet, stale>>

Listener(t) ==
    /\ pc[t] = "notify"
    /\ lpc[t] = "out"
    /\ \/ /\ listening /\ target[t] = "ACTIVE"
          /\ \E i \in active : bindAddr' = [bindAddr EXCEPT ![t] = i.addr]
          /\ Enter(t, "start")
       \/ /\ listening /\ target[t] \in {"IDLE", "DETECTING"}
          /\ Enter(t, "stop")
          /\ UNCHANGED bindAddr
       \/ /\ ~listening \/ target[t] = "ERROR" \/ (target[t] = "ACTIVE" /\ active = {})
          /\ Enter(t, "done")
          /\ UNCHANGED bindAddr
    /\ overlapped' = (overlapped \/ (AmongProxies(t)' /\ \E u \in Thread : AmongProxies(u)))
    /\ unheard' = (unheard \/ (target[t] = "ACTIVE" /\ (~listening \/ active = {})))
    /\ UNCHANGED <<vars, listening, bridge, field, leaked, quiet, stale>>

-----------------------------------------------------------------------------
(* startProxies.                                                           *)

\* Mutant: isRunning() is not asked.
StartProxiesTestNot(t) ==
    /\ lpc[t] = "start"
    /\ GoTo(t, "create")
    /\ UNCHANGED <<vars, listening, bridge, field, leaked, bindAddr, history>>

StartProxiesTest(t) ==
    /\ lpc[t] = "start"
    /\ IF Running(field[Kinds[k[t]]]) THEN NextKind(t, "start") ELSE GoTo(t, "create")
    /\ UNCHANGED <<vars, listening, bridge, field, leaked, bindAddr, history>>

\* The DNS proxy's configuration asks tetherBridge for its socket mode.
StartProxiesCreate(t) ==
    LET x == Kinds[k[t]] IN
    /\ lpc[t] = "create"
    /\ field' = [field EXCEPT ![x] = New]
    /\ leaked' = leaked \cup (IF Running(field[x]) THEN {<<x, field[x]>>} ELSE {})
    /\ IF x = "dns" /\ ~bridge THEN Throw(t) ELSE GoTo(t, "launch")
    /\ UNCHANGED <<vars, listening, bridge, bindAddr, history>>

\* start(bindAddr) on the object the field refers to now, if it still does.
StartProxiesLaunch(t) ==
    LET x == Kinds[k[t]] IN
    /\ lpc[t] = "launch"
    /\ \/ /\ field[x] = None
          /\ Throw(t)
          /\ UNCHANGED field
       \/ /\ field[x] # None
          /\ field' = [field EXCEPT ![x] = IF @ = New THEN bindAddr[t] ELSE @]
          /\ NextKind(t, "start")
    /\ UNCHANGED <<vars, listening, bridge, leaked, bindAddr, history>>

-----------------------------------------------------------------------------
(* stopProxies.                                                            *)

StopProxiesTest(t) ==
    /\ lpc[t] = "stop"
    /\ IF field[Kinds[k[t]]] = None THEN NextKind(t, "stop") ELSE GoTo(t, "halt")
    /\ UNCHANGED <<vars, listening, bridge, field, leaked, bindAddr, history>>

\* stop() on the object the field refers to now: it is no longer running.
StopProxiesHalt(t) ==
    LET x == Kinds[k[t]] IN
    /\ lpc[t] = "halt"
    /\ \/ /\ field[x] = None
          /\ Throw(t)
          /\ UNCHANGED field
       \/ /\ field[x] # None
          /\ field' = [field EXCEPT ![x] = New]
          /\ GoTo(t, "forget")
    /\ UNCHANGED <<vars, listening, bridge, leaked, bindAddr, history>>

StopProxiesForget(t) ==
    LET x == Kinds[k[t]] IN
    /\ lpc[t] = "forget"
    /\ field' = [field EXCEPT ![x] = None]
    /\ leaked' = leaked \cup (IF Running(field[x]) THEN {<<x, field[x]>>} ELSE {})
    /\ NextKind(t, "stop")
    /\ UNCHANGED <<vars, listening, bridge, bindAddr, history>>

Proxies(t) ==
    \/ Listener(t)
    \/ StartProxiesTest(t) \/ StartProxiesCreate(t) \/ StartProxiesLaunch(t)
    \/ StopProxiesTest(t) \/ StopProxiesHalt(t) \/ StopProxiesForget(t)

-----------------------------------------------------------------------------
(* startTetherServices after start(), and stopTetherServices.              *)

AddStateListener ==
    /\ pc["ctl"] = "started"
    /\ ~listening
    /\ listening' = TRUE
    /\ UNCHANGED <<vars, bridge, field, leaked, lpc, k, bindAddr, history>>

StopTetherServices ==
    /\ pc["ctl"] = "started"
    /\ listening
    /\ lpc["ctl"] = "out"
    /\ Enter("ctl", "stop")
    /\ overlapped' = (overlapped \/ \E t \in Thread : AmongProxies(t))
    /\ UNCHANGED <<vars, listening, bridge, field, leaked, bindAddr, quiet, stale, unheard>>

ForgetBridge ==
    /\ pc["ctl"] = "stopped"
    /\ bridge
    /\ bridge' = FALSE
    /\ UNCHANGED <<vars, listening, field, leaked, lpc, k, bindAddr, history>>

-----------------------------------------------------------------------------
(* The bridge's own steps, tied to the service's.                          *)

ListenerReturn(t) ==
    /\ lpc[t] = "done"
    /\ SetStateNotify(t)
    /\ Enter(t, "out")
    /\ bindAddr' = [bindAddr EXCEPT ![t] = None]
    /\ UNCHANGED <<listening, bridge, field, leaked, history>>

BridgeStop ==
    /\ lpc["ctl"] = "done"
    /\ StopDetector
    /\ Enter("ctl", "out")
    /\ quiet' = (pc["poll"] \in {"loop", "ended"})
    /\ UNCHANGED <<listening, bridge, field, leaked, bindAddr, overlapped, stale, unheard>>

BridgeUnregister ==
    /\ StopUpstream
    /\ quiet' = (quiet /\ pc["cb"] = "idle")
    /\ UNCHANGED <<listening, bridge, field, leaked, lpc, k, bindAddr, overlapped, stale, unheard>>

BridgeAssign(t) ==
    /\ SetStateAssign(t)
    /\ stale' = (target[t] = "ACTIVE" /\ net = None)
    /\ UNCHANGED <<listening, bridge, field, leaked, lpc, k, bindAddr, quiet, overlapped, unheard>>

BridgeOther ==
    /\ \/ \E t \in Thread : SetStateCompare(t)
       \/ StartCellularPreferred \/ Start \/ StartDetector \/ StartUpstream
       \/ StopDetectorClear \/ StopUpstreamClear
       \/ Poll \/ Callback \/ EnvInterfaces
    /\ UNCHANGED svcVars

SvcNext ==
    \/ \E t \in Thread : Proxies(t) \/ ListenerReturn(t) \/ BridgeAssign(t)
    \/ AddStateListener \/ StopTetherServices \/ ForgetBridge
    \/ BridgeStop \/ BridgeUnregister \/ BridgeOther

SvcSpec == SvcInit /\ [][SvcNext]_allVars

\* Threads that have work to do are scheduled: the caller of
\* startTetherServices up to addStateListener, the poll loop, and a network
\* callback that has begun.  Nothing is assumed of the system (interfaces,
\* networks) or of when the service is stopped.
Fairness ==
    /\ WF_allVars((Start \/ StartDetector \/ StartUpstream) /\ UNCHANGED svcVars)
    /\ WF_allVars(AddStateListener)
    /\ WF_allVars(Poll /\ UNCHANGED svcVars)
    /\ WF_allVars((OnUpstreamChanged \/ OnUpstreamLost) /\ UNCHANGED svcVars)
    /\ \A t \in Thread :
          WF_allVars(\/ SetStateCompare(t) /\ UNCHANGED svcVars
                     \/ BridgeAssign(t) \/ Proxies(t) \/ ListenerReturn(t))

SvcFairSpec == SvcSpec /\ Fairness

-----------------------------------------------------------------------------
(* Properties.                                                             *)

\* stopTetherServices leaves no proxy field set if no handler of the bridge
\* was in flight when stop() shut its thread out.  The first stopProxies is not
\* enough: the polling thread or a callback may start the proxies again before
\* the bridge stops, and it is the listener's IDLE branch that stops those.
QuietStopClearsProxies ==
    pc["ctl"] = "stopped" /\ quiet => \A x \in Kind : field[x] = None

\* The fields are tested and used without a lock.  A running proxy is lost from its
\* field, or the NullPointerException leaves stopTetherServices before the bridge
\* is stopped, only once two threads have been in startProxies or stopProxies at
\* the same time.
AloneIsSafe == ~overlapped => leaked = {} /\ lpc["ctl"] # "aborted"

\* "If we have upstream, go active; otherwise wait" (onTetherInterfacesChanged): a
\* settled bridge is ACTIVE without an upstream only if hasUpstream() was stale, the
\* loss having been handled before the state was assigned.
ActiveHasUpstreamUnlessStale ==
    Settled /\ state = "ACTIVE" /\ net = None => stale

\* "Start proxy services when tether interfaces are detected" (startTetherServices):
\* if from some time on a tether interface is up, the bridge has an upstream, and
\* nobody stops the tether services, the proxies are started.  There are two
\* exceptions.  The bridge became ACTIVE before the listener was added, or while the
\* polling thread had emptied the list of interfaces that the listener asks for; and
\* two handlers were among the proxies at once.
ProxiesEventuallyStart ==
    <>[](/\ present # {} /\ net # None
         /\ pc["ctl"] = "started" /\ lpc["ctl"] = "out")
        => <>((\A x \in Kind : Running(field[x])) \/ unheard \/ overlapped)
=============================================================================
