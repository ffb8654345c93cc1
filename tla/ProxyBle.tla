------------------------------ MODULE ProxyBle ------------------------------
(***************************************************************************)
(* The two clients of the proxy that look for their device by name, the    *)
(* shore-power client (hughes_wd_client.c) and the solar client            *)
(* (renogy_solar_client.c), over the scan arbiter they share (BleScan).    *)
(* Callbacks of the Bluetooth stack run one at a time in its own task; the *)
(* solar client also has a task of its own, whose steps interleave with    *)
(* them.  The stack and the devices are the environment:                   *)
(*   link[c]   "opening", then the GATT procedure outstanding on the open  *)
(*             link ("mtu", "search", "register"), "stalled" when one has  *)
(*             failed and nothing is outstanding, "idle" when subscribed,  *)
(*             "closing" after the client asked to close it.               *)
(***************************************************************************)
EXTENDS BleScan

CONSTANTS
    StallTicks,   \* ticks of the solar task mid-connect before it starts over
    MaxLinkFaults, \* how often the devices and the stack misbehave
    QueueMax      \* the stack is fewer commands behind when a window, which
                  \* lasts many seconds, ends and when the task ticks

ASSUME BleAssumption ==
    /\ Clients = {"shore", "solar"}
    /\ StallTicks \in Nat \ {0} /\ MaxLinkFaults \in Nat /\ QueueMax \in Nat \ {0}

VARIABLES
    host, radio,  \* the arbiter, and whether the controller scans
    fixed,        \* the solar client has a configured address and never scans
    connId,       \* s_conn_id of the solar client
    state, link, valid,          \* per client; "valid" is s_status_valid / s_reading_valid
    taskPc, stalled,             \* the solar task, and its count of ticks mid-connect
    linkFaults, refused          \* faults so far; the stack has refused a scan

scanVars == <<host, radio, refused>>
linkVars == <<state, link, valid>>
taskVars == <<taskPc, stalled>>
solarVars == <<fixed, connId>>
bleVars == <<host, radio, solarVars, state, link, valid, taskPc, stalled, linkFaults, refused>>

States == {"IDLE", "SCANNING", "CONNECTING", "DISCOVERING", "READY"}
Links  == {"down", "opening", "mtu", "search", "register", "stalled", "idle", "closing"}
Open   == Links \ {"down", "opening"}

(* The ids the stack gives connections, of which the first is 0. *)
ConnIds == 0..1

BleTypeOK ==
    /\ host \in HostType /\ radio \in BOOLEAN /\ fixed \in BOOLEAN /\ connId \in ConnIds
    /\ state \in [Clients -> States] /\ link \in [Clients -> Links]
    /\ valid \in [Clients -> BOOLEAN]
    /\ taskPc \in {"boot", "wait", "want", "pend", "ensure"}
    /\ stalled \in 0..StallTicks
    /\ linkFaults \in 0..MaxLinkFaults /\ refused \in BOOLEAN

BleInit ==
    /\ host = HostInit /\ radio = FALSE /\ refused = FALSE
    /\ fixed \in BOOLEAN /\ connId = 0
    /\ state = [c \in Clients |-> "IDLE"]
    /\ link = [c \in Clients |-> "down"]
    /\ valid = [c \in Clients |-> FALSE]
    /\ taskPc = "boot" /\ stalled = 0
    /\ linkFaults = 0

Scans(c) == c = "shore" \/ ~fixed

Fault(happened) == linkFaults' = linkFaults + (IF happened THEN 1 ELSE 0) /\ linkFaults' <= MaxLinkFaults

---------------------------------------------------------------------------
(* Clients: what each does when it must look for its device again.         *)

(* start_scan() of the shore client. *)
ShoreRestart(h) == Want(h, "shore")

(* restart_discovery() of the solar client: with a configured address it   *)
(* opens that, which is no business of the arbiter.                        *)
SolarRestart(h) == IF fixed THEN h ELSE Want(h, "solar")

RestartHost(h, S) ==
    LET h1 == IF "shore" \in S THEN ShoreRestart(h) ELSE h
    IN  IF "solar" \in S THEN SolarRestart(h1) ELSE h1

(* try_connect() of the solar client; "opened": the stack takes the open.  *)
RestartState(c, opened) ==
    IF Scans(c) THEN "SCANNING" ELSE IF opened THEN "CONNECTING" ELSE "IDLE"

OpenLink(c, l, opened) == IF ~Scans(c) /\ opened /\ l = "down" THEN "opening" ELSE l

(* Name filters: only a client that is SCANNING takes its device. *)
ShoreMatches == state["shore"] = "SCANNING"
SolarMatches == state["solar"] = "SCANNING"
Matches(c) == IF c = "shore" THEN ShoreMatches ELSE SolarMatches

(* What an open from found() leaves: refused, the shore client scans       *)
(* again, the solar client waits for its tick.                             *)
ShoreFound(opened) == IF opened THEN "CONNECTING" ELSE "SCANNING"
SolarFound(opened) == IF opened THEN "CONNECTING" ELSE "IDLE"

(* The found() callbacks of the clients whose device was matched, then the *)
(* restart check: the connections are opened, or refused by the stack.     *)
Deliver(h) ==
    \E opened \in SUBSET Clients :
       LET found  == {c \in Clients : h.pending[c] /\ Matches(c)}
           failed == found \ opened
           over   == ScanOver(h)
       IN  /\ opened \subseteq found
           /\ Fault(failed # {})
           /\ state' = [c \in Clients |->
                           IF c \notin found THEN state[c]
                           ELSE IF c = "shore" THEN ShoreFound(c \in opened)
                           ELSE SolarFound(c \in opened)]
           /\ link' = [c \in Clients |->
                           IF c \in opened /\ link[c] = "down" THEN "opening" ELSE link[c]]
           /\ host' = Ensure(IF "shore" \in failed THEN ShoreRestart(over) ELSE over)

---------------------------------------------------------------------------
(* The scan: commands the stack executes, each ending in one event.        *)

Popped == [host EXCEPT !.cmds = Tail(@)]

ParamsDone ==
    /\ host.cmds # <<>> /\ Head(host.cmds) = "params"
    /\ \E ok \in BOOLEAN :
          /\ Fault(~ok)
          /\ host' = ParamsSet(Popped, ok)
          /\ refused' = (refused \/ ~ok)
    /\ UNCHANGED <<radio, solarVars, linkVars, taskVars>>

StartDone ==
    /\ host.cmds # <<>> /\ Head(host.cmds) = "start"
    /\ \E ok \in BOOLEAN :
          /\ Fault(~ok /\ ~radio)    \* a second start may be refused with nothing wrong
          /\ host' = StartComplete(Popped, ok)
          /\ radio' = (radio \/ ok)
          /\ refused' = (refused \/ (~ok /\ ~radio))
    /\ UNCHANGED <<solarVars, linkVars, taskVars>>

StopDone ==
    /\ host.cmds # <<>> /\ Head(host.cmds) = "stop"
    /\ Deliver(Popped)
    /\ radio' = FALSE
    /\ UNCHANGED <<refused, solarVars, valid, taskVars>>

WindowEnds ==
    /\ radio /\ Len(host.cmds) < QueueMax
    /\ Deliver(host)
    /\ radio' = FALSE
    /\ UNCHANGED <<refused, solarVars, valid, taskVars>>

(* The device of client c, which has no link open, advertises; both name   *)
(* filters accept only while the client is SCANNING.                       *)
Advertise(c) ==
    /\ radio /\ link[c] \notin Open
    /\ host.want[c] /\ Matches(c)
    /\ host' = Hit(host, {c})
    /\ UNCHANGED <<radio, refused, solarVars, linkVars, taskVars, linkFaults>>

---------------------------------------------------------------------------
(* GATT events of a client.  A procedure that was outstanding on the link  *)
(* ends well, as "to", or in one of the ways of "failures".                *)

Proc(c, from, to, failures) ==
    /\ link[c] = from
    /\ \E l \in {to} \cup failures :
          /\ Fault(l # to)
          /\ link' = [link EXCEPT ![c] = l]
          /\ state' = [state EXCEPT ![c] = IF l = "idle" THEN "READY" ELSE @]
    /\ UNCHANGED <<scanVars, solarVars, valid, taskVars>>

OpenFails(c) ==
    /\ link[c] = "opening"
    /\ Fault(TRUE)
    /\ \E opened \in BOOLEAN :
          /\ state' = [state EXCEPT ![c] = RestartState(c, opened)]
          /\ link' = [link EXCEPT ![c] = OpenLink(c, "down", opened)]
    /\ UNCHANGED <<radio, refused, solarVars, valid, taskVars>>

LinkUp(c, s) ==
    /\ link[c] = "opening"
    /\ link' = [link EXCEPT ![c] = "mtu"]
    /\ state' = [state EXCEPT ![c] = s]
    /\ UNCHANGED <<scanVars, fixed, valid, taskVars, linkFaults>>

Reading(c) ==
    /\ link[c] = "idle"
    /\ valid' = [valid EXCEPT ![c] = TRUE]
    /\ UNCHANGED <<scanVars, solarVars, state, link, taskVars, linkFaults>>

(* OPEN with a failure. *)
ShoreOpenFailed == OpenFails("shore") /\ host' = ShoreRestart(host)
SolarOpenFailed == OpenFails("solar") /\ host' = SolarRestart(host)

(* CONNECT.  The shore client stays CONNECTING. *)
ShoreConnected == LinkUp("shore", state["shore"]) /\ UNCHANGED connId
SolarConnected == LinkUp("solar", "DISCOVERING") /\ connId' \in ConnIds

(* DIS_SRVC_CMPL: a failure is logged and nothing more is asked for. *)
ShoreServices == Proc("shore", "mtu", "search", {"stalled"})
SolarServices == Proc("solar", "mtu", "search", {"stalled"})

(* SEARCH_CMPL: a failure, or a missing service, closes the link. *)
ShoreSearched == Proc("shore", "search", "register", {"closing"})
SolarSearched == Proc("solar", "search", "register", {"closing"})

(* REG_FOR_NOTIFY: subscribed; or failed and left so; or no CCCD, closed. *)
ShoreSubscribed == Proc("shore", "register", "idle", {"stalled", "closing"})
SolarSubscribed == Proc("solar", "register", "idle", {"stalled", "closing"})

(* A reading is stored (MCStreams has how one is put together). *)
ShoreNotified == Reading("shore")
SolarNotified == Reading("solar")

(* Connection events reach every client; each compares the address. *)
Mine(c, peer) == c = peer

(* Mutation of Forget: the reading survives the link. *)
Forget_Kept(lost) == valid

Forget(lost) == [c \in Clients |-> valid[c] /\ c \notin lost]

(* DISCONNECT of a peer: of one of the two, or of a battery pack. *)
Disconnected(peer) ==
    LET lost == {c \in Clients : Mine(c, peer)} IN
    /\ peer \in Clients => link[peer] \in Open
    /\ Fault(peer \notin Clients \/ link[peer] # "closing")
    /\ \E opened \in BOOLEAN :
          /\ state' = [c \in Clients |-> IF c \in lost THEN RestartState(c, opened) ELSE state[c]]
          /\ link' = [c \in Clients |-> IF c = peer THEN OpenLink(c, "down", opened) ELSE link[c]]
    /\ valid' = Forget(lost)
    /\ host' = RestartHost(host, lost)
    /\ UNCHANGED <<radio, refused, solarVars, taskPc, stalled>>

---------------------------------------------------------------------------
(* The applications' own tasks.                                            *)

(* hughes_wd_client_start(), from app_main: the first scan. *)
ShoreStart ==
    /\ state["shore"] = "IDLE"
    /\ state' = [state EXCEPT !["shore"] = "SCANNING"]
    /\ host' = Want(host, "shore")
    /\ UNCHANGED <<radio, refused, solarVars, link, valid, taskVars, linkFaults>>

(* restart_discovery() in the solar task, after closing the link or not:  *)
(* with an address it opens; without, the three statements of             *)
(* ble_host_scan_want() follow, and events may come between them.  "slow": *)
(* a connection given up while it was still progressing is a fault.        *)
TaskRestart(l, slow) ==
    /\ \E opened \in BOOLEAN :
          /\ state' = [state EXCEPT !["solar"] = RestartState("solar", opened)]
          /\ link' = [link EXCEPT !["solar"] = OpenLink("solar", l, opened)]
          /\ Fault(slow \/ (fixed /\ ~opened))
    /\ taskPc' = IF fixed THEN "wait" ELSE "want"

TaskBoots ==
    /\ taskPc = "boot"
    /\ TaskRestart(link["solar"], FALSE)
    /\ UNCHANGED <<scanVars, solarVars, valid, stalled>>

TaskWants ==
    /\ taskPc = "want"
    /\ taskPc' = "pend"
    /\ host' = [host EXCEPT !.want["solar"] = TRUE]
    /\ UNCHANGED <<radio, refused, solarVars, linkVars, stalled, linkFaults>>

TaskClearsPending ==
    /\ taskPc = "pend"
    /\ taskPc' = "ensure"
    /\ host' = [host EXCEPT !.pending["solar"] = FALSE]
    /\ UNCHANGED <<radio, refused, solarVars, linkVars, stalled, linkFaults>>

TaskEnsures ==
    /\ taskPc = "ensure"
    /\ taskPc' = "wait"
    /\ host' = Ensure(host)
    /\ UNCHANGED <<radio, refused, solarVars, linkVars, stalled, linkFaults>>

(* Mutation of Stuck: only CONNECTING can stall. *)
Stuck_Connecting == state["solar"] = "CONNECTING"

(* The tick counts a stall unless READY, IDLE or SCANNING. *)
Stuck == state["solar"] \in {"CONNECTING", "DISCOVERING"}

(* What starting over does to the link: one that is open is closed, but    *)
(* for the connection whose id is 0, which the task takes for none.        *)
CloseStalled(l) == IF l \in Open /\ connId # 0 THEN "closing" ELSE l

(* A tick of solar_task while the client is not READY. *)
TickDown ==
    /\ taskPc = "wait" /\ state["solar"] # "READY" /\ Len(host.cmds) < QueueMax
    /\ \/ /\ state["solar"] = "IDLE"
          /\ stalled' = 0
          /\ TaskRestart(link["solar"], FALSE)
       \/ /\ Stuck /\ stalled + 1 >= StallTicks
          /\ stalled' = 0
          /\ TaskRestart(CloseStalled(link["solar"]), link["solar"] # "stalled")
       \/ /\ Stuck /\ stalled + 1 < StallTicks
          /\ stalled' = stalled + 1
          /\ UNCHANGED <<state, link, taskPc, linkFaults>>
       \/ /\ state["solar"] # "IDLE" /\ ~Stuck
          /\ UNCHANGED <<state, link, taskPc, stalled, linkFaults>>
    /\ UNCHANGED <<scanVars, solarVars, valid>>

(* A tick while READY, of which only the reset of the stall count concerns *)
(* the connection (SolarPoll models the poll it sends).                    *)
TickReady ==
    /\ taskPc = "wait" /\ state["solar"] = "READY"
    /\ stalled' = 0
    /\ UNCHANGED <<scanVars, solarVars, linkVars, taskPc, linkFaults>>

Peers == Clients \cup {"battery"}

ScanStep  == ParamsDone \/ StartDone \/ StopDone \/ WindowEnds
ShoreGatt == ShoreConnected \/ ShoreServices \/ ShoreSearched \/ ShoreSubscribed
SolarGatt == SolarConnected \/ SolarServices \/ SolarSearched \/ SolarSubscribed
SolarLinkTask == \/ TaskBoots \/ TaskWants \/ TaskClearsPending \/ TaskEnsures
                 \/ TickDown \/ TickReady

BleNext ==
    \/ ScanStep \/ ShoreStart \/ SolarLinkTask
    \/ ShoreGatt \/ ShoreOpenFailed \/ ShoreNotified
    \/ SolarGatt \/ SolarOpenFailed \/ SolarNotified
    \/ \E c \in Clients : Advertise(c)
    \/ \E p \in Peers : Disconnected(p)

(* The stack executes what it is asked and ends what it began; devices in  *)
(* range advertise in every window long enough; the task keeps ticking.     *)
(* Faults happen at will but finitely often.                               *)
BleFair ==
    /\ WF_bleVars(ParamsDone) /\ WF_bleVars(StartDone) /\ WF_bleVars(StopDone) /\ SF_bleVars(WindowEnds)
    /\ WF_bleVars(ShoreStart) /\ SF_bleVars(SolarLinkTask) /\ WF_bleVars(ShoreGatt) /\ WF_bleVars(SolarGatt)
    /\ \A c \in Clients :
          /\ SF_bleVars(Advertise(c))
          /\ WF_bleVars(link[c] = "closing" /\ Disconnected(c))

BleSpec == BleInit /\ [][BleNext]_bleVars /\ BleFair

---------------------------------------------------------------------------
(* Properties.                                                             *)

(* A reading never outlives the link it came over: what is handed out is   *)
(* from a device that is still connected, or one being closed.             *)
ReadingHasLink == \A c \in Clients : valid[c] => link[c] \in {"idle", "closing"}

(* Whenever a client waits for a scan, one runs or a call to the stack     *)
(* that leads to one is outstanding, unless the stack has refused one or   *)
(* the solar task is between the statements of its request; and while the  *)
(* shore client is scanning, its matcher is wanted or its device has been  *)
(* matched and will be delivered.                                          *)
WantedScanRuns ==
    /\ AnyoneWants(host) => radio \/ host.cmds # <<>> \/ refused \/ taskPc \in {"pend", "ensure"}
    /\ state["shore"] = "SCANNING" => host.want["shore"] \/ host.pending["shore"]

(* The solar client has lost its place in the scan: it waits for a match   *)
(* and its matcher is neither wanted nor hit.                              *)
Forgotten == state["solar"] = "SCANNING" /\ ~host.want["solar"] /\ ~host.pending["solar"]
             /\ taskPc = "wait"

(* The shore client always comes back, unless a GATT procedure failed on   *)
(* an open link, or the stack refused a scan: neither is retried.          *)
ShoreRecovers ==
    state["shore"] # "READY" ~> (state["shore"] = "READY" \/ link["shore"] = "stalled" \/ refused)

(* The solar client has given up a link that the task did not close, as    *)
(* its id is 0: the device is connected and does not advertise, nor does   *)
(* opening it again bring a new connection.                                *)
Held == link["solar"] = "stalled" /\ connId = 0

(* "CONNECTING/DISCOVERING can stall outright if an expected GATTC event    *)
(* never arrives -- either way the task is the only thing still running,   *)
(* so it owns the retry": a solar client that looks for its device by name *)
(* gets over every stall, if the stack does not refuse the scan it needs   *)
(* and the race for the match is not lost.                                 *)
StallIsRetried ==
    ~fixed /\ state["solar"] \in {"CONNECTING", "DISCOVERING"} ~>
        (state["solar"] = "READY" \/ refused \/ Forgotten)

(* The solar client always comes back, but from a link it holds: the stall *)
(* timer also covers what strands the shore client.  Without a configured  *)
(* address it still needs a scan, which the stack may have refused or the  *)
(* race have lost.                                                         *)
SolarRecovers ==
    state["solar"] # "READY" ~>
        (state["solar"] = "READY" \/ Held \/ (~fixed /\ (refused \/ Forgotten)))

(* What solar_task relies on when it leaves SCANNING alone, because        *)
(* "ble_host retries that on its own": a client that scans gets out of it. *)
ScanningIsRetried == state["solar"] = "SCANNING" ~> state["solar"] # "SCANNING"
=============================================================================
