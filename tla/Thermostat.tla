----------------------------- MODULE Thermostat -----------------------------
(***************************************************************************)
(* The thermostat client, components/easytouch/easytouch_client.c.  It     *)
(* holds no connection: at every poll it connects, authenticates, writes   *)
(* the changes the users have submitted, reads the status and lets go.     *)
(* Three threads meet here: the client's task, which starts cycles and     *)
(* cuts off those that hang; the callbacks of the Bluetooth stack, which   *)
(* carry a cycle from step to step; and whoever submits a change.          *)
(*                                                                         *)
(* The unit of time is the period of the client's task.  The stack, the    *)
(* scan that ble_host runs and the thermostat itself are external.  What a *)
(* status says is left out.                                                *)
(***************************************************************************)
EXTENDS Integers

CONSTANTS
  ZONE_COUNT,      \* EASYTOUCH_MAX_ZONES
  FIELDS,          \* the fields of a change (mode, set points, fans)
  VALUES,          \* their values
  NoValue,         \* a field that a change leaves alone
  CHANGES,         \* the changes that are submitted
  POLL_INTERVAL,   \* CONFIG_FIREFLY_EASYTOUCH_POLL_INTERVAL_MS
  CONNECT_TIMEOUT, \* ET_CONNECT_TIMEOUT_MS
  RETRY,           \* ET_RETRY_MS
  AUTH_BACKOFF,    \* the wait after a refused password
  SOON,            \* a change pulls the next poll this near
  RESCAN_AFTER,    \* ET_RESCAN_AFTER_FAILS
  OVERTAKING,      \* FALSE: nobody submits a change of a zone being written
  FAULTS,          \* what may go wrong
  MAX_FAULTS       \* bound: how often

Content == [FIELDS -> VALUES \cup {NoValue}]
Empty   == [f \in FIELDS |-> NoValue]

ASSUME ThermostatAssumption ==
  /\ NoValue \notin VALUES
  /\ ZONE_COUNT \in Nat \ {0}
  /\ CHANGES \subseteq [zone : 0 .. ZONE_COUNT - 1, content : Content \ {Empty}]
  /\ POLL_INTERVAL \in Nat \ {0}
  /\ CONNECT_TIMEOUT \in Nat \ {0}
  /\ RETRY \in Nat \ {0}
  /\ AUTH_BACKOFF \in Nat \ {0}
  /\ SOON \in Nat \ {0}
  /\ RESCAN_AFTER \in Nat \ {0}
  /\ OVERTAKING \in BOOLEAN
  /\ FAULTS \subseteq
       {"refused",      \* the call that opens a link returns an error
        "unreachable",  \* an attempt fails
        "slow",         \* an attempt takes its time
        "dropped",      \* a link is lost
        "rejected",     \* a request fails, or the service is not there
        "silent",       \* a request is never answered
        "mismatch"}     \* the password is refused
  /\ MAX_FAULTS \in Nat

Zones == 0 .. ZONE_COUNT - 1

VARIABLES
  state,        \* s_state
  addrKnown,    \* s_bda_valid
  fails,        \* s_connect_fails, up to RESCAN_AFTER
  scan,         \* s_scan_pending, and what ble_host makes of it
  nextPoll,     \* periods until s_next_poll_tick, 0 when it has come
  deadline,     \* periods until s_connect_deadline, 0 when it has come
  pending,      \* s_pending
  flag,         \* s_pending_flag
  cmdZone,      \* s_cmd_zone
  pc            \* what the client's task is about to do

\* The stack and the thermostat.
VARIABLES
  attempt,      \* the connection attempt the stack is at
  link,         \* the link
  request,      \* the request on it that is not answered
  payload,      \* the change in that request, for a zone
  told,         \* for each zone, the last values the thermostat was told
  faults        \* how often something went wrong

\* For the properties: no code reads it.
VARIABLE
  wanted        \* for each zone, the last values that were submitted

cycleVars  == <<state, addrKnown, fails, scan, nextPoll, deadline, cmdZone>>
changeVars == <<pending, flag, wanted>>
stackVars  == <<attempt, link, request, payload, told>>
vars == <<cycleVars, changeVars, pc, stackVars, faults>>

States   == {"idle", "connecting", "discovering", "auth_write", "auth_read",
             "cmd_write", "status_write", "status_read"}
Requests == {"none", "discover", "auth_write", "auth_read", "cmd_write",
             "cmd_taken", "status_write", "status_read"}
PCs      == {"sleep", "decide", "connect", "scan", "timeout", "stall"}

NoPayload == [zone |-> 0, content |-> Empty]

Fault(kind) ==
  /\ kind \in FAULTS /\ faults < MAX_FAULTS
  /\ faults' = faults + 1

NoFault == faults' = faults

-----------------------------------------------------------------------------
(* Changes *)

\* Field by field, what the newer one sets replaces the older one's value.
Merge(old, new) ==
  [f \in FIELDS |-> IF new[f] = NoValue THEN old[f] ELSE new[f]]

BeingWritten(z) == state = "cmd_write" /\ cmdZone = z

\* Mutation of Submit: a later change replaces the one that is pending.
SubmitReplaces(change) ==
  LET z == change.zone
  IN /\ OVERTAKING \/ ~ BeingWritten(z)
     /\ pending' = [pending EXCEPT ![z] = change.content]
     /\ flag' = [flag EXCEPT ![z] = TRUE]
     /\ wanted' = [wanted EXCEPT ![z] = Merge(@, change.content)]
     /\ nextPoll' = IF SOON < nextPoll THEN SOON ELSE nextPoll
     /\ UNCHANGED <<state, addrKnown, fails, scan, deadline, cmdZone, pc, stackVars,
                    faults>>

\* easytouch_client_submit_change: merge with what is pending for the zone and
\* pull the next poll near.
Submit(change) ==
  LET z == change.zone
  IN /\ OVERTAKING \/ ~ BeingWritten(z)
     /\ pending' = [pending EXCEPT ![z] = IF flag[z] THEN Merge(@, change.content)
                                          ELSE change.content]
     /\ flag' = [flag EXCEPT ![z] = TRUE]
     /\ wanted' = [wanted EXCEPT ![z] = Merge(@, change.content)]
     /\ nextPoll' = IF SOON < nextPoll THEN SOON ELSE nextPoll
     /\ UNCHANGED <<state, addrKnown, fails, scan, deadline, cmdZone, pc, stackVars,
                    faults>>

-----------------------------------------------------------------------------
(* Steps the handlers are made of *)

\* go_idle_retry
GoIdle(wait) ==
  /\ state' = "idle"
  /\ nextPoll' = wait

\* s_connect_fails++; what matters is whether it has reached RESCAN_AFTER.
OneMoreFail == IF fails < RESCAN_AFTER THEN fails + 1 ELSE fails

\* esp_ble_gattc_close: nothing to close unless there is a link; in particular
\* it does not end an attempt.
CloseConn == link' = IF link = "up" THEN "closing" ELSE link

Send(what, change) == request' = what /\ payload' = change
NoRequest == Send("none", NoPayload)

\* Mutation of DrainChangesFrom: it starts one zone late.
DrainChangesAfter(from, fl) ==
  LET left == {z \in Zones : z > from /\ fl[z]}
  IN \/ \E next \in left :
          /\ \A z \in left : next <= z
          /\ state' = "cmd_write"
          /\ cmdZone' = next
          /\ Send("cmd_write", [zone |-> next, content |-> pending[next]])
     \/ /\ left = {}
        /\ state' = "status_write"
        /\ Send("status_write", NoPayload)
        /\ UNCHANGED cmdZone

\* drain_changes_from: write the next pending change, or ask for the status.
\* The flags it looks at are fl, since its caller may just have cleared one.
DrainChangesFrom(from, fl) ==
  LET left == {z \in Zones : z >= from /\ fl[z]}
  IN \/ \E next \in left :
          /\ \A z \in left : next <= z
          /\ state' = "cmd_write"
          /\ cmdZone' = next
          /\ Send("cmd_write", [zone |-> next, content |-> pending[next]])
     \/ /\ left = {}
        /\ state' = "status_write"
        /\ Send("status_write", NoPayload)
        /\ UNCHANGED cmdZone

\* try_connect, when the stack takes the call; an attempt that is still on stays.
TryConnect ==
  /\ state' = "connecting"
  /\ deadline' = CONNECT_TIMEOUT
  /\ \/ attempt' = (IF attempt = "none" THEN "prompt" ELSE attempt) /\ NoFault
     \/ attempt' = "slow" /\ Fault("slow")
  /\ UNCHANGED nextPoll

\* try_connect, when the call fails.
TryConnectRefused ==
  /\ Fault("refused")
  /\ deadline' = CONNECT_TIMEOUT
  /\ GoIdle(RETRY)
  /\ UNCHANGED attempt

-----------------------------------------------------------------------------
(* easytouch_task *)

\* What the task finds to do, from one look at s_state.
Due ==
  IF state = "idle" THEN
    IF nextPoll > 0 THEN "sleep"
    ELSE IF addrKnown /\ fails < RESCAN_AFTER THEN "connect"
    ELSE IF scan = "off" THEN "scan" ELSE "sleep"
  ELSE IF deadline > 0 THEN "sleep"
  ELSE IF state = "connecting" THEN "timeout" ELSE "stall"

Decide ==
  /\ pc = "decide"
  /\ pc' = Due
  /\ UNCHANGED <<cycleVars, changeVars, stackVars, faults>>

Connect ==
  /\ pc = "connect"
  /\ pc' = "sleep"
  /\ \/ TryConnect /\ UNCHANGED fails
     \/ TryConnectRefused /\ fails' = OneMoreFail
  /\ UNCHANGED <<addrKnown, scan, cmdZone, changeVars, link, request, payload, told>>

\* The address is forgotten and ble_host is asked for a scan.
StartScan ==
  /\ pc = "scan"
  /\ pc' = "sleep"
  /\ addrKnown' = FALSE
  /\ scan' = "on"
  /\ UNCHANGED <<state, fails, nextPoll, deadline, cmdZone, changeVars, stackVars,
                 faults>>

\* Mutation of GiveUp: only an attempt is given up.
GiveUpAttempt ==
  /\ pc \in {"timeout", "stall"}
  /\ pc' = "sleep"
  /\ IF pc = "timeout"
     THEN CloseConn /\ fails' = OneMoreFail /\ GoIdle(RETRY)
     ELSE UNCHANGED <<link, fails, state, nextPoll>>
  /\ UNCHANGED <<addrKnown, scan, deadline, cmdZone, changeVars, attempt, request,
                 payload, told, faults>>

\* The attempt, or the rest of a cycle, has taken too long.
GiveUp ==
  /\ pc \in {"timeout", "stall"}
  /\ pc' = "sleep"
  /\ CloseConn
  /\ fails' = IF pc = "timeout" THEN OneMoreFail ELSE fails
  /\ GoIdle(RETRY)
  /\ UNCHANGED <<addrKnown, scan, deadline, cmdZone, changeVars, attempt, request,
                 payload, told, faults>>

-----------------------------------------------------------------------------
(* The scan that ble_host runs for this client *)

\* scan_match: an advertisement counts only while the client is idle.  A
\* thermostat that is connected does not advertise.
ScanMatch ==
  /\ scan = "on" /\ state = "idle" /\ link = "down"
  /\ scan' = "matched"
  /\ UNCHANGED <<state, addrKnown, fails, nextPoll, deadline, cmdZone, changeVars, pc,
                 stackVars, faults>>

\* scan_found, once the scan has stopped: connect, whatever goes on meanwhile.
ScanFound ==
  /\ scan = "matched"
  /\ scan' = "off"
  /\ addrKnown' = TRUE
  /\ \/ TryConnect /\ fails' = 0
     \/ TryConnectRefused /\ fails' = 1
  /\ UNCHANGED <<cmdZone, changeVars, pc, link, request, payload, told>>

-----------------------------------------------------------------------------
(* Links: on_gattc_event *)

\* ESP_GATTC_OPEN_EVT with an error.
OpenFailed ==
  /\ attempt # "none" /\ link # "up"
  /\ Fault("unreachable")
  /\ attempt' = "none"
  /\ fails' = OneMoreFail
  /\ GoIdle(RETRY)
  /\ UNCHANGED <<addrKnown, scan, deadline, cmdZone, changeVars, pc, link, request,
                 payload, told>>

\* ESP_GATTC_OPEN_EVT for a link that is up already: nothing but that event.
OpenedAgain ==
  /\ attempt # "none" /\ link = "up"
  /\ attempt' = "none"
  /\ UNCHANGED <<cycleVars, changeVars, pc, link, request, payload, told, faults>>

\* ESP_GATTC_CONNECT_EVT: whatever the client has come to meanwhile.
Connected ==
  /\ attempt # "none" /\ link = "down"
  /\ attempt' = "none"
  /\ link' = "up"
  /\ state' = "discovering"
  /\ Send("discover", NoPayload)
  /\ UNCHANGED <<addrKnown, fails, scan, nextPoll, deadline, cmdZone, changeVars, pc,
                 told, faults>>

\* ESP_GATTC_DISCONNECT_EVT: a clean release, or the end of a cycle.
Disconnected ==
  /\ \/ link = "closing" /\ NoFault
     \/ link = "up" /\ Fault("dropped")
  /\ link' = "down"
  /\ NoRequest
  /\ IF state = "idle"
     THEN UNCHANGED <<state, nextPoll, fails>>
     ELSE GoIdle(RETRY) /\ fails' = OneMoreFail
  /\ UNCHANGED <<addrKnown, scan, deadline, cmdZone, changeVars, pc, attempt, told>>

-----------------------------------------------------------------------------
(* Requests: on_gattc_event.  A reply that the state does not wait for is    *)
(* dropped.                                                                  *)

unaskedVars == <<addrKnown, scan, deadline, pc, attempt>>

\* A request fails: the cycle is over, whichever request it was.
Rejected ==
  /\ request # "none"
  /\ Fault("rejected")
  /\ NoRequest
  /\ CloseConn
  /\ GoIdle(RETRY)
  /\ UNCHANGED <<unaskedVars, fails, cmdZone, changeVars, told>>

\* A request, or the answer to it, gets lost; the task will notice.
Unanswered ==
  /\ request # "none"
  /\ Fault("silent")
  /\ NoRequest
  /\ UNCHANGED <<cycleVars, changeVars, pc, attempt, link, told>>

\* ESP_GATTC_SEARCH_CMPL_EVT: write the password, whatever the state is.
Discovered ==
  /\ request = "discover"
  /\ state' = "auth_write"
  /\ Send("auth_write", NoPayload)
  /\ UNCHANGED <<unaskedVars, fails, nextPoll, cmdZone, changeVars, link, told, faults>>

\* ESP_GATTC_WRITE_CHAR_EVT of the password: read it back.
PasswordWritten ==
  /\ request = "auth_write"
  /\ IF state = "auth_write"
     THEN state' = "auth_read" /\ Send("auth_read", NoPayload)
     ELSE NoRequest /\ UNCHANGED state
  /\ UNCHANGED <<unaskedVars, fails, nextPoll, cmdZone, changeVars, link, told, faults>>

\* ESP_GATTC_READ_CHAR_EVT of the password: it matched.
PasswordMatched ==
  /\ request = "auth_read"
  /\ IF state = "auth_read"
     THEN fails' = 0 /\ DrainChangesFrom(0, flag)
     ELSE NoRequest /\ UNCHANGED <<state, fails, cmdZone>>
  /\ UNCHANGED <<unaskedVars, nextPoll, changeVars, link, told, faults>>

\* The same event, and it did not match: back off.
PasswordRefused ==
  /\ request = "auth_read" /\ state = "auth_read"
  /\ Fault("mismatch")
  /\ NoRequest
  /\ CloseConn
  /\ GoIdle(AUTH_BACKOFF)
  /\ UNCHANGED <<addrKnown, fails, scan, deadline, cmdZone, changeVars, pc, attempt,
                 told>>

\* The thermostat carries out the change; its answer is on the way.
ChangeTaken ==
  /\ request = "cmd_write"
  /\ told' = [told EXCEPT ![payload.zone] = Merge(@, payload.content)]
  /\ Send("cmd_taken", payload)
  /\ UNCHANGED <<cycleVars, changeVars, pc, attempt, link, faults>>

\* ESP_GATTC_WRITE_CHAR_EVT of a change: it is no longer pending; on to the next.
ChangeWritten ==
  /\ request = "cmd_taken"
  /\ IF state = "cmd_write"
     THEN /\ flag' = [flag EXCEPT ![cmdZone] = FALSE]
          /\ DrainChangesFrom(cmdZone + 1, flag')
     ELSE NoRequest /\ UNCHANGED <<state, cmdZone, flag>>
  /\ UNCHANGED <<unaskedVars, fails, nextPoll, pending, wanted, link, told, faults>>

\* ESP_GATTC_WRITE_CHAR_EVT of the status request: read the status.
StatusRequested ==
  /\ request = "status_write"
  /\ IF state = "status_write"
     THEN state' = "status_read" /\ Send("status_read", NoPayload)
     ELSE NoRequest /\ UNCHANGED state
  /\ UNCHANGED <<unaskedVars, fails, nextPoll, cmdZone, changeVars, link, told, faults>>

\* Mutation of StatusRead: the link is kept.
StatusReadKeepsLink ==
  /\ request = "status_read"
  /\ NoRequest
  /\ IF state = "status_read"
     THEN GoIdle(POLL_INTERVAL)
     ELSE UNCHANGED <<state, nextPoll>>
  /\ UNCHANGED <<unaskedVars, fails, cmdZone, changeVars, link, told, faults>>

\* ESP_GATTC_READ_CHAR_EVT of the status: release the link until the next poll.
StatusRead ==
  /\ request = "status_read"
  /\ NoRequest
  /\ IF state = "status_read"
     THEN GoIdle(POLL_INTERVAL) /\ CloseConn
     ELSE UNCHANGED <<state, nextPoll, link>>
  /\ UNCHANGED <<unaskedVars, fails, cmdZone, changeVars, told, faults>>

-----------------------------------------------------------------------------
(* Time and the specification *)

Less(n) == IF n = 0 THEN 0 ELSE n - 1

\* A period goes by.  Requests are answered and attempts succeed well within a
\* timeout unless a fault is to blame.
Tick ==
  /\ pc = "sleep"
  /\ request = "none" /\ attempt # "prompt"
  /\ pc' = "decide"
  /\ nextPoll' = Less(nextPoll)
  /\ deadline' = Less(deadline)
  /\ UNCHANGED <<state, addrKnown, fails, scan, cmdZone, changeVars, stackVars, faults>>

Init ==
  /\ state = "idle" /\ addrKnown = FALSE /\ fails = 0 /\ scan = "off"
  /\ nextPoll = 0 /\ deadline = 0 /\ cmdZone = 0
  /\ pending = [z \in Zones |-> Empty]
  /\ flag = [z \in Zones |-> FALSE]
  /\ wanted = [z \in Zones |-> Empty]
  /\ pc = "sleep"
  /\ attempt = "none" /\ link = "down"
  /\ request = "none" /\ payload = NoPayload
  /\ told = [z \in Zones |-> Empty]
  /\ faults = 0

Task    == Decide \/ Connect \/ StartScan \/ GiveUp
Scanner == ScanMatch \/ ScanFound
Links   == OpenFailed \/ OpenedAgain \/ Connected \/ Disconnected
Replies ==
  \/ Discovered
  \/ PasswordWritten
  \/ PasswordMatched
  \/ ChangeTaken
  \/ ChangeWritten
  \/ StatusRequested
  \/ StatusRead

Next ==
  \/ \E change \in CHANGES : Submit(change)
  \/ Task
  \/ Scanner
  \/ Links
  \/ Replies
  \/ Rejected
  \/ Unanswered
  \/ PasswordRefused
  \/ Tick

Spec == Init /\ [][Next]_vars

\* The task runs and time passes; ble_host finds the thermostat when it
\* advertises; the stack brings every attempt to an end, answers requests and
\* closes links.  Changes and faults are up to the environment.
Fairness ==
  /\ WF_vars(Task)
  /\ WF_vars(Tick)
  /\ WF_vars(ScanFound)
  /\ WF_vars(ScanMatch)
  /\ WF_vars(OpenedAgain \/ Connected)
  /\ WF_vars(link = "closing" /\ Disconnected)
  /\ WF_vars(Replies)

FairSpec == Spec /\ Fairness

-----------------------------------------------------------------------------
(* Properties *)

ThermostatTypeOK ==
  /\ state \in States
  /\ addrKnown \in BOOLEAN
  /\ fails \in 0 .. RESCAN_AFTER
  /\ scan \in {"off", "on", "matched"}
  /\ nextPoll \in Nat
  /\ deadline \in 0 .. CONNECT_TIMEOUT
  /\ cmdZone \in Zones
  /\ pending \in [Zones -> Content]
  /\ flag \in [Zones -> BOOLEAN]
  /\ wanted \in [Zones -> Content]
  /\ pc \in PCs
  /\ attempt \in {"none", "prompt", "slow"}
  /\ link \in {"down", "up", "closing"}
  /\ request \in Requests
  /\ payload \in [zone : Zones, content : Content]
  /\ told \in [Zones -> Content]
  /\ faults \in 0 .. MAX_FAULTS

\* "Collapses to one write with the final values": the last value submitted for
\* each field of each zone is what the thermostat was last told, or is still to be
\* written, whatever fails in between and however changes and cycles interleave.
NothingLost ==
  \A z \in Zones, f \in FIELDS :
    wanted[z][f] # NoValue =>
      \/ told[z][f] = wanted[z][f]
      \/ flag[z] /\ pending[z][f] = wanted[z][f]

\* The calls of try_connect.
Opens ==
  \/ pc = "connect" /\ pc' = "sleep"
  \/ scan = "matched" /\ scan' = "off"

\* "Does not hold the link between polls, so the phone app stays usable": however a
\* cycle ends, the link it had is being closed or gone.  An attempt that is refused
\* is excepted: it may overrun a cycle that a late attempt of before has started.
CycleEndsReleased ==
  [][ state # "idle" /\ state' = "idle" => link' # "up" \/ Opens ]_vars

\* What that exception can come to: the client looks out for a thermostat that
\* does not advertise, because the client itself is still connected to it.
Marooned == state = "idle" /\ link = "up" /\ scan = "on"

\* A change arrives: a value that is not replaced is in the end what the
\* thermostat was told last, after any finite number of failed cycles.
ChangesArrive ==
  \A z \in Zones, f \in FIELDS, v \in VALUES :
    <>[](wanted[z][f] = v) => <>[](told[z][f] = v) \/ <>[]Marooned

\* The client never gets stuck: the status is read again and again.
StatusKeepsComing == []<>(request = "status_read" \/ Marooned)

=============================================================================
