---------------------------- MODULE TetherBridge ----------------------------
(***************************************************************************)
(* One TetherBridge object with the TetherDetector and UpstreamSelector it *)
(* owns (tether/TetherBridge.java, TetherDetector.java,                    *)
(* UpstreamSelector.java).  Nothing in these classes is synchronized, so   *)
(* three threads interleave between any two accesses to shared fields:     *)
(*                                                                         *)
(*   "ctl"   the service thread that creates, starts and stops the bridge  *)
(*   "poll"  the detector's polling thread                                 *)
(*   "cb"    the ConnectivityManager thread that runs network callbacks    *)
(*                                                                         *)
(* Each thread has a program counter; a step is one read or one write of   *)
(* a volatile field or of a copy-on-write list.                            *)
(***************************************************************************)
CONSTANTS
    Iface,    \* the tether interfaces that can exist: records with a name
    Network,  \* the upstream networks the system can offer
    None      \* Java's null

ASSUME NoneAssumption == None \notin Network

VARIABLES
    state,       \* TetherBridge.state
    running,     \* TetherDetector.running
    active,      \* TetherDetector.activeInterfaces
    net,         \* UpstreamSelector.currentNetwork
    registered,  \* UpstreamSelector.networkCallback # null
    pc,          \* where each thread is
    target,      \* the argument of the setState call each thread is in
    det,         \* pollLoop's local variable "detected"
    present,     \* the tether interfaces that are up now (the system's)
    assigned     \* the network that satisfies the request now (the system's)

objVars == <<state, running, active, net, registered>>
envVars == <<present, assigned>>
vars == <<state, running, active, net, registered, pc, target, det, present, assigned>>

Thread == {"ctl", "poll", "cb"}
State == {"IDLE", "DETECTING", "ACTIVE", "ERROR"}

\* TetherInterface.equals compares names only, so two lists of interfaces are
\* equal when their names are.
NamesOf(S) == {i.name : i \in S}

\* No two interfaces that are up share a name.
Worlds == {S \in SUBSET Iface : \A i, j \in S : i.name = j.name => i = j}

Init ==
    /\ state = "IDLE"
    /\ running = FALSE
    /\ active = {}
    /\ net = None
    /\ registered = FALSE
    /\ pc = [t \in Thread |-> CASE t = "ctl" -> "new"
                                [] t = "poll" -> "none"
                                [] t = "cb" -> "idle"]
    /\ target = [t \in Thread |-> "IDLE"]
    /\ det = {}
    /\ present \in Worlds
    /\ assigned = None

Goto(t, label) == pc' = [pc EXCEPT ![t] = label]

\* Thread t calls setState(s).
Call(t, s) ==
    /\ Goto(t, "compare")
    /\ target' = [target EXCEPT ![t] = s]

\* Where thread t goes on when its setState call returns.
Return(t) ==
    CASE t = "poll" -> "loop"
      [] t = "cb" -> "idle"
      [] t = "ctl" /\ target[t] = "DETECTING" -> "startDetector"
      [] OTHER -> "stopped"

\* setState returns.  A local variable that is dead is reset, here and below,
\* so that states that differ only in it are the same.
Leave(t) ==
    /\ Goto(t, Return(t))
    /\ target' = [target EXCEPT ![t] = "IDLE"]

-----------------------------------------------------------------------------
(* setState: compare, assign, call the listeners.                          *)

SetStateCompare(t) ==
    /\ pc[t] = "compare"
    /\ \/ /\ state = target[t]
          /\ Leave(t)
       \/ /\ state # target[t]
          /\ Goto(t, "assign")
          /\ UNCHANGED target
    /\ UNCHANGED <<objVars, det, envVars>>

SetStateAssign(t) ==
    /\ pc[t] = "assign"
    /\ state' = target[t]
    /\ Goto(t, "notify")
    /\ UNCHANGED <<running, active, net, registered, target, det, envVars>>

\* What the listeners do is TetherServices' business; here they only return.
SetStateNotify(t) ==
    /\ pc[t] = "notify"
    /\ Leave(t)
    /\ UNCHANGED <<objVars, det, envVars>>

-----------------------------------------------------------------------------
(* The service thread.                                                     *)

\* UpstreamSelector.startCellularPreferred, called before start() when the
\* configuration asks for it.
StartCellularPreferred ==
    /\ pc["ctl"] = "new"
    /\ ~registered
    /\ registered' = TRUE
    /\ UNCHANGED <<state, running, active, net, pc, target, det, envVars>>

Start ==
    /\ pc["ctl"] = "new"
    /\ state = "IDLE"
    /\ Call("ctl", "DETECTING")
    /\ UNCHANGED <<objVars, det, envVars>>

StartDetector ==
    /\ pc["ctl"] = "startDetector"
    /\ running' = TRUE
    /\ pc' = [pc EXCEPT !["ctl"] = "startUpstream", !["poll"] = "loop"]
    /\ UNCHANGED <<state, active, net, registered, target, det, envVars>>

StartUpstream ==
    /\ pc["ctl"] = "startUpstream"
    /\ registered' = TRUE
    /\ Goto("ctl", "started")
    /\ UNCHANGED <<state, running, active, net, target, det, envVars>>

StopDetector ==
    /\ pc["ctl"] = "started"
    /\ running' = FALSE
    /\ Goto("ctl", "clearDetector")
    /\ UNCHANGED <<state, active, net, registered, target, det, envVars>>

StopDetectorClear ==
    /\ pc["ctl"] = "clearDetector"
    /\ active' = {}
    /\ Goto("ctl", "stopUpstream")
    /\ UNCHANGED <<state, running, net, registered, target, det, envVars>>

\* After unregisterNetworkCallback no callback starts; one that is running
\* goes on.
StopUpstream ==
    /\ pc["ctl"] = "stopUpstream"
    /\ registered' = FALSE
    /\ assigned' = None
    /\ Goto("ctl", "clearUpstream")
    /\ UNCHANGED <<state, running, active, net, target, det, present>>

StopUpstreamClear ==
    /\ pc["ctl"] = "clearUpstream"
    /\ net' = None
    /\ Call("ctl", "IDLE")
    /\ UNCHANGED <<state, running, active, registered, det, envVars>>

Ctl ==
    \/ StartCellularPreferred \/ Start \/ StartDetector \/ StartUpstream
    \/ StopDetector \/ StopDetectorClear \/ StopUpstream \/ StopUpstreamClear

-----------------------------------------------------------------------------
(* The polling thread: TetherDetector.pollLoop.                            *)

PollDetect ==
    /\ pc["poll"] = "loop"
    /\ running
    /\ det' = present
    /\ Goto("poll", "detected")
    /\ UNCHANGED <<objVars, target, envVars>>

PollExit ==
    /\ pc["poll"] = "loop"
    /\ ~running
    /\ Goto("poll", "ended")
    /\ UNCHANGED <<objVars, target, det, envVars>>

PollCompare ==
    /\ pc["poll"] = "detected"
    /\ \/ /\ NamesOf(det) = NamesOf(active)
          /\ Goto("poll", "loop")
          /\ det' = {}
       \/ /\ NamesOf(det) # NamesOf(active)
          /\ Goto("poll", "changed")
          /\ UNCHANGED det
    /\ UNCHANGED <<objVars, target, envVars>>

PollClear ==
    /\ pc["poll"] = "changed"
    /\ active' = {}
    /\ Goto("poll", "cleared")
    /\ UNCHANGED <<state, running, net, registered, target, det, envVars>>

PollAddAll ==
    /\ pc["poll"] = "cleared"
    /\ active' = det
    /\ Goto("poll", "tell")
    /\ UNCHANGED <<state, running, net, registered, target, det, envVars>>

\* Mutant: going active is left to the network callback.
OnTetherInterfacesChangedWaits ==
    /\ pc["poll"] = "tell"
    /\ \/ /\ det = {}
          /\ state = "ACTIVE"
          /\ Call("poll", "DETECTING")
       \/ /\ det # {} \/ state # "ACTIVE"
          /\ Goto("poll", "loop")
          /\ UNCHANGED target
    /\ det' = {}
    /\ UNCHANGED <<objVars, envVars>>

\* TetherBridge.onTetherInterfacesChanged(detected), up to its setState call.
OnTetherInterfacesChanged ==
    /\ pc["poll"] = "tell"
    /\ \/ /\ det = {}
          /\ state = "ACTIVE"
          /\ Call("poll", "DETECTING")
       \/ /\ det # {}
          /\ net # None
          /\ Call("poll", "ACTIVE")
       \/ /\ IF det = {} THEN state # "ACTIVE" ELSE net = None
          /\ Goto("poll", "loop")
          /\ UNCHANGED target
    /\ det' = {}
    /\ UNCHANGED <<objVars, envVars>>

Poll ==
    \/ PollDetect \/ PollExit \/ PollCompare \/ PollClear \/ PollAddAll
    \/ OnTetherInterfacesChanged

-----------------------------------------------------------------------------
(* The network callbacks.  The system delivers them one at a time, and     *)
(* only for the request that is registered.                                *)

OnAvailable(n) ==
    /\ pc["cb"] = "idle"
    /\ registered
    /\ assigned # n
    /\ assigned' = n
    /\ net' = n
    /\ Goto("cb", "available")
    /\ UNCHANGED <<state, running, active, registered, target, det, present>>

\* Mutant: only a DETECTING bridge is activated, not one in ERROR.
OnUpstreamChangedNotFromError ==
    /\ pc["cb"] = "available"
    /\ \/ /\ active # {} /\ state = "DETECTING"
          /\ Call("cb", "ACTIVE")
       \/ /\ active = {} \/ state # "DETECTING"
          /\ Goto("cb", "idle")
          /\ UNCHANGED target
    /\ UNCHANGED <<objVars, det, envVars>>

OnUpstreamChanged ==
    /\ pc["cb"] = "available"
    /\ \/ /\ active # {}
          /\ Call("cb", "ACTIVE")
       \/ /\ active = {}
          /\ Goto("cb", "idle")
          /\ UNCHANGED target
    /\ UNCHANGED <<objVars, det, envVars>>

OnCapabilitiesChanged ==
    /\ pc["cb"] = "idle"
    /\ registered
    /\ assigned # None
    /\ net' = assigned
    /\ UNCHANGED <<state, running, active, registered, pc, target, det, envVars>>

\* A network that has already been superseded may be reported lost too.
OnLost(n) ==
    /\ pc["cb"] = "idle"
    /\ registered
    /\ assigned # None
    /\ assigned' = IF n = assigned THEN None ELSE assigned
    /\ \/ /\ net = n
          /\ net' = None
          /\ Goto("cb", "lost")
       \/ /\ net # n
          /\ UNCHANGED <<net, pc>>
    /\ UNCHANGED <<state, running, active, registered, target, det, present>>

\* Mutant: only a bridge that waits for an upstream goes to ERROR.
OnUpstreamLostWaiting ==
    /\ pc["cb"] = "lost"
    /\ \/ /\ state = "DETECTING"
          /\ Call("cb", "ERROR")
       \/ /\ state # "DETECTING"
          /\ Goto("cb", "idle")
          /\ UNCHANGED target
    /\ UNCHANGED <<objVars, det, envVars>>

OnUpstreamLost ==
    /\ pc["cb"] = "lost"
    /\ \/ /\ state = "ACTIVE"
          /\ Call("cb", "ERROR")
       \/ /\ state # "ACTIVE"
          /\ Goto("cb", "idle")
          /\ UNCHANGED target
    /\ UNCHANGED <<objVars, det, envVars>>

Callback ==
    \/ \E n \in Network : OnAvailable(n) \/ OnLost(n)
    \/ OnUpstreamChanged \/ OnCapabilitiesChanged \/ OnUpstreamLost

-----------------------------------------------------------------------------
\* The user plugs, unplugs or renumbers a tether interface; an error while the
\* interfaces are enumerated looks the same to the detector.
EnvInterfaces ==
    /\ present' \in Worlds \ {present}
    /\ UNCHANGED <<objVars, pc, target, det, assigned>>

SetState(t) == SetStateCompare(t) \/ SetStateAssign(t) \/ SetStateNotify(t)

Next ==
    \/ \E t \in Thread : SetState(t)
    \/ Ctl \/ Poll \/ Callback \/ EnvInterfaces

Spec == Init /\ [][Next]_vars

-----------------------------------------------------------------------------
(* Properties.                                                             *)

SetStateLabel == {"compare", "assign", "notify"}
CtlLabel ==
    {"new", "startDetector", "startUpstream", "started", "clearDetector",
     "stopUpstream", "clearUpstream", "stopped"} \cup SetStateLabel
PollLabel ==
    {"none", "loop", "detected", "changed", "cleared", "tell", "ended"} \cup SetStateLabel
CbLabel == {"idle", "available", "lost"} \cup SetStateLabel

\* Every field holds a value of its type, and every thread is at a label of
\* its own code.
TypeOK ==
    /\ state \in State
    /\ running \in BOOLEAN
    /\ active \in SUBSET Iface
    /\ net \in Network \cup {None}
    /\ registered \in BOOLEAN
    /\ pc \in [Thread -> CtlLabel \cup PollLabel \cup CbLabel]
    /\ pc["ctl"] \in CtlLabel
    /\ pc["poll"] \in PollLabel
    /\ pc["cb"] \in CbLabel
    /\ target \in [Thread -> State]
    /\ det \in SUBSET Iface
    /\ present \in SUBSET Iface
    /\ assigned \in Network \cup {None}

\* The bridge has been started, is not being stopped, and neither of its
\* other threads is inside a handler.
Settled == pc["ctl"] = "started" /\ pc["poll"] = "loop" /\ pc["cb"] = "idle"

\* No wake-up is lost between the polling thread and the network callback:
\* whenever the bridge has settled with a tether interface and an upstream
\* network, it is ACTIVE, whichever of the two came first and however
\* onTetherInterfacesChanged and onUpstreamChanged overlapped.
NoLostActivation ==
    Settled /\ active # {} /\ net # None => state = "ACTIVE"

\* The bridge is new, being started or running: stop() has not been called.
PreStop ==
    \/ pc["ctl"] \in {"new", "startDetector", "startUpstream", "started"}
    \/ pc["ctl"] \in SetStateLabel /\ target["ctl"] = "DETECTING"

\* A thread that is about to make the bridge ACTIVE, or to find out whether to.
Activating ==
    \/ pc["poll"] = "tell"
    \/ pc["poll"] \in {"compare", "assign"} /\ target["poll"] = "ACTIVE"
    \/ pc["cb"] = "available"
    \/ pc["cb"] \in {"compare", "assign"} /\ target["cb"] = "ACTIVE"

\* Why no activation is lost, as an inductive invariant: until stop(), a bridge
\* with an interface and an upstream is ACTIVE or one of its threads is about
\* to make it so.  Each thread publishes its own field before it reads the
\* other's, and a thread that is about to leave ACTIVE has just emptied its
\* field.
ActivationPending ==
    PreStop =>
        /\ net = assigned
        /\ pc["ctl"] \notin {"startUpstream", "started"} =>
               active = {} /\ pc["poll"] = "none"
        /\ pc["poll"] = "tell" => active = det
        /\ pc["poll"] \in SetStateLabel =>
               \/ target["poll"] = "ACTIVE"
               \/ target["poll"] = "DETECTING" /\ active = {}
        /\ pc["cb"] = "lost" => net = None
        /\ pc["cb"] \in SetStateLabel =>
               \/ target["cb"] = "ACTIVE"
               \/ target["cb"] = "ERROR" /\ net = None
        /\ active # {} /\ net # None => state = "ACTIVE" \/ Activating
=============================================================================
