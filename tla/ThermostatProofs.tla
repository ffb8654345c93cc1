-------------------------- MODULE ThermostatProofs --------------------------
(***************************************************************************)
(* Theorems about Thermostat, for any number of zones, any fields and      *)
(* values, any changes, any times and every fault, however often.          *)
(***************************************************************************)
EXTENDS Thermostat, TLAPS

-----------------------------------------------------------------------------
(* Merging *)

\* A merge is a content, and each field is the newer one's where that sets it.
LEMMA MergeFields ==
  ASSUME NEW old \in Content, NEW new \in Content
  PROVE  /\ Merge(old, new) \in Content
         /\ \A f \in FIELDS : new[f] = NoValue => Merge(old, new)[f] = old[f]
         /\ \A f \in FIELDS : new[f] # NoValue => Merge(old, new)[f] = new[f]
BY DEF Merge, Content

\* What is submitted is a zone and a content.
LEMMA ChangeParts ==
  ASSUME NEW change \in CHANGES
  PROVE  change.zone \in Zones /\ change.content \in Content
BY ThermostatAssumption DEF Zones

\* The empty content, and the payload of a request that carries no change.
LEMMA EmptyParts == Empty \in Content /\ NoPayload \in [zone : Zones, content : Content]
<1>1. Empty \in Content
  BY DEF Empty, Content
<1>2. 0 \in Zones
  BY ThermostatAssumption DEF Zones
<1>3. QED
  BY <1>1, <1>2 DEF NoPayload

-----------------------------------------------------------------------------
(* Types *)

\* The types of what a cycle works with.
CycleTypes ==
  /\ state \in States
  /\ addrKnown \in BOOLEAN
  /\ fails \in 0 .. RESCAN_AFTER
  /\ scan \in {"off", "on", "matched"}
  /\ nextPoll \in Nat
  /\ deadline \in 0 .. CONNECT_TIMEOUT
  /\ cmdZone \in Zones
  /\ pc \in PCs
  /\ attempt \in {"none", "prompt", "slow"}
  /\ link \in {"down", "up", "closing"}
  /\ faults \in 0 .. MAX_FAULTS

\* The types of the changes, on their way to the thermostat.
ChangeTypes ==
  /\ pending \in [Zones -> Content]
  /\ flag \in [Zones -> BOOLEAN]
  /\ wanted \in [Zones -> Content]
  /\ request \in Requests
  /\ payload \in [zone : Zones, content : Content]
  /\ told \in [Zones -> Content]

\* Draining sends the pending change of a flagged zone, or asks for the status.
LEMMA Draining ==
  ASSUME ChangeTypes, NEW from, NEW fl, DrainChangesFrom(from, fl)
  PROVE  \/ /\ state' = "cmd_write" /\ cmdZone' \in Zones /\ fl[cmdZone']
            /\ request' = "cmd_write"
            /\ payload' = [zone |-> cmdZone', content |-> pending[cmdZone']]
            /\ payload' \in [zone : Zones, content : Content]
         \/ /\ state' = "status_write" /\ cmdZone' = cmdZone
            /\ request' = "status_write"
            /\ payload' \in [zone : Zones, content : Content]
<1>1. CASE \E next \in Zones : /\ fl[next]
                               /\ state' = "cmd_write" /\ cmdZone' = next
                               /\ Send("cmd_write",
                                       [zone |-> next, content |-> pending[next]])
  <2>1. PICK next \in Zones : /\ fl[next]
                              /\ state' = "cmd_write" /\ cmdZone' = next
                              /\ Send("cmd_write",
                                      [zone |-> next, content |-> pending[next]])
    BY <1>1
  <2>2. pending[next] \in Content
    BY DEF ChangeTypes
  <2>3. QED
    BY <2>1, <2>2 DEF Send
<1>2. CASE /\ state' = "status_write" /\ cmdZone' = cmdZone
           /\ Send("status_write", NoPayload)
  BY <1>2, EmptyParts DEF Send
<1>3. QED
  BY <1>1, <1>2 DEF DrainChangesFrom

\* The type invariant is inductive.
THEOREM ThermostatTypeCorrect == Spec => []ThermostatTypeOK
<1>0. ThermostatTypeOK <=> CycleTypes /\ ChangeTypes
  BY DEF ThermostatTypeOK, CycleTypes, ChangeTypes
<1>1. ASSUME Init PROVE ThermostatTypeOK
  <2>0. /\ 0 \in Zones /\ 0 \in 0 .. RESCAN_AFTER /\ 0 \in 0 .. CONNECT_TIMEOUT
        /\ 0 \in 0 .. MAX_FAULTS
        /\ "idle" \in States /\ "sleep" \in PCs
    BY ThermostatAssumption DEF States, PCs, Zones
  <2>1. CycleTypes
    BY <1>1, <2>0 DEF Init, CycleTypes
  <2>2. ChangeTypes
    BY <1>1, EmptyParts DEF Init, ChangeTypes, Requests
  <2>3. QED
    BY <1>0, <2>1, <2>2
<1>2. ASSUME CycleTypes, ChangeTypes, [Next]_vars PROVE CycleTypes' /\ ChangeTypes'
  <2>0. /\ {"idle", "connecting", "discovering", "auth_write", "auth_read",
            "cmd_write", "status_write", "status_read"} \subseteq States
        /\ {"none", "discover", "auth_write", "auth_read", "cmd_write",
            "cmd_taken", "status_write", "status_read"} \subseteq Requests
        /\ {"sleep", "decide", "connect", "scan", "timeout", "stall"} \subseteq PCs
        /\ {POLL_INTERVAL, RETRY, AUTH_BACKOFF, SOON} \subseteq Nat
        /\ CONNECT_TIMEOUT \in Nat /\ RESCAN_AFTER \in Nat \ {0} /\ MAX_FAULTS \in Nat
    BY ThermostatAssumption DEF States, Requests, PCs
  <2>1. OneMoreFail \in 0 .. RESCAN_AFTER /\ 0 \in 0 .. RESCAN_AFTER
        /\ 1 \in 0 .. RESCAN_AFTER
    BY <1>2, <2>0 DEF CycleTypes, OneMoreFail
  <2>2. CONNECT_TIMEOUT \in 0 .. CONNECT_TIMEOUT
    BY <2>0
  <2>3. ASSUME NEW kind, Fault(kind) PROVE faults' \in 0 .. MAX_FAULTS
    BY <1>2, <2>0, <2>3 DEF CycleTypes, Fault
  <2>4. ASSUME TryConnect
        PROVE  /\ state' \in States /\ nextPoll' \in Nat
               /\ deadline' \in 0 .. CONNECT_TIMEOUT
               /\ attempt' \in {"none", "prompt", "slow"}
               /\ faults' \in 0 .. MAX_FAULTS
    BY <1>2, <2>0, <2>2, <2>3, <2>4 DEF TryConnect, NoFault, CycleTypes
  <2>5. ASSUME TryConnectRefused
        PROVE  /\ state' \in States /\ nextPoll' \in Nat
               /\ deadline' \in 0 .. CONNECT_TIMEOUT
               /\ attempt' \in {"none", "prompt", "slow"}
               /\ faults' \in 0 .. MAX_FAULTS
    BY <1>2, <2>0, <2>2, <2>3, <2>5 DEF TryConnectRefused, GoIdle, CycleTypes
  <2>6. ASSUME NEW what \in Requests, Send(what, NoPayload) PROVE /\ request' \in Requests
               /\ payload' \in [zone : Zones, content : Content]
    BY <2>6, EmptyParts DEF Send
  <2>7. NoRequest => request' \in Requests /\ payload' \in [zone : Zones, content : Content]
    BY <2>0, <2>6 DEF NoRequest
  <2>8. CloseConn => link' \in {"down", "up", "closing"}
    BY <1>2 DEF CloseConn, CycleTypes
  <2>10. ASSUME NEW change \in CHANGES, Submit(change) PROVE CycleTypes' /\ ChangeTypes'
    <3>1. CycleTypes'
      BY <1>2, <2>0, <2>10 DEF Submit, CycleTypes, stackVars
    <3>2. /\ Merge(pending[change.zone], change.content) \in Content
          /\ Merge(wanted[change.zone], change.content) \in Content
          /\ change.zone \in Zones /\ change.content \in Content
      BY <1>2, ChangeParts, MergeFields DEF ChangeTypes
    <3>3. /\ pending' \in [Zones -> Content] /\ wanted' \in [Zones -> Content]
          /\ flag' \in [Zones -> BOOLEAN]
      BY <1>2, <2>10, <3>2 DEF Submit, ChangeTypes
    <3>4. QED
      BY <1>2, <2>10, <3>1, <3>3 DEF Submit, ChangeTypes, stackVars
  <2>11. CASE Decide
    <3>1. Due \in PCs
      BY <2>0 DEF Due
    <3>2. QED
      BY <1>2, <2>11, <3>1 DEF Decide, CycleTypes, ChangeTypes, cycleVars, changeVars,
                              stackVars
  <2>12. CASE Connect
    BY <1>2, <2>0, <2>1, <2>4, <2>5, <2>12
       DEF Connect, CycleTypes, ChangeTypes, changeVars
  <2>13. CASE StartScan
    BY <1>2, <2>0, <2>13 DEF StartScan, CycleTypes, ChangeTypes, changeVars, stackVars
  <2>14. CASE GiveUp
    BY <1>2, <2>0, <2>1, <2>8, <2>14
       DEF GiveUp, GoIdle, CycleTypes, ChangeTypes, changeVars
  <2>15. CASE ScanMatch
    BY <1>2, <2>15 DEF ScanMatch, CycleTypes, ChangeTypes, changeVars, stackVars
  <2>16. CASE ScanFound
    BY <1>2, <2>1, <2>4, <2>5, <2>16
       DEF ScanFound, CycleTypes, ChangeTypes, changeVars
  <2>17. CASE OpenFailed
    BY <1>2, <2>0, <2>1, <2>3, <2>17
       DEF OpenFailed, GoIdle, CycleTypes, ChangeTypes, changeVars
  <2>18. CASE OpenedAgain
    BY <1>2, <2>18 DEF OpenedAgain, CycleTypes, ChangeTypes, cycleVars, changeVars
  <2>19. CASE Connected
    BY <1>2, <2>0, <2>6, <2>19 DEF Connected, CycleTypes, ChangeTypes, changeVars
  <2>20. CASE Disconnected
    BY <1>2, <2>0, <2>1, <2>3, <2>7, <2>20
       DEF Disconnected, NoFault, GoIdle, CycleTypes, ChangeTypes, changeVars
  <2>21. CASE Rejected
    BY <1>2, <2>0, <2>3, <2>7, <2>8, <2>21
       DEF Rejected, GoIdle, CycleTypes, ChangeTypes, unaskedVars, changeVars
  <2>22. CASE Unanswered
    BY <1>2, <2>3, <2>7, <2>22
       DEF Unanswered, CycleTypes, ChangeTypes, cycleVars, changeVars
  <2>23. CASE Discovered
    BY <1>2, <2>0, <2>6, <2>23
       DEF Discovered, CycleTypes, ChangeTypes, unaskedVars, changeVars
  <2>24. CASE PasswordWritten
    BY <1>2, <2>0, <2>6, <2>7, <2>24
       DEF PasswordWritten, CycleTypes, ChangeTypes, unaskedVars, changeVars
  <2>25. CASE PasswordMatched
    <3>1. CASE state = "auth_read"
      <4>1. /\ state' \in States /\ cmdZone' \in Zones /\ request' \in Requests
            /\ payload' \in [zone : Zones, content : Content]
        BY <1>2, <2>0, <2>25, <3>1, Draining DEF PasswordMatched, CycleTypes
      <4>2. QED
        BY <1>2, <2>1, <2>25, <3>1, <4>1
           DEF PasswordMatched, CycleTypes, ChangeTypes, unaskedVars, changeVars
    <3>2. CASE state # "auth_read"
      BY <1>2, <2>7, <2>25, <3>2
         DEF PasswordMatched, CycleTypes, ChangeTypes, unaskedVars, changeVars
    <3>3. QED
      BY <3>1, <3>2
  <2>26. CASE PasswordRefused
    BY <1>2, <2>0, <2>3, <2>7, <2>8, <2>26
       DEF PasswordRefused, GoIdle, CycleTypes, ChangeTypes, changeVars
  <2>27. CASE ChangeTaken
    <3>1. /\ payload.zone \in Zones /\ payload.content \in Content
          /\ Merge(told[payload.zone], payload.content) \in Content
      BY <1>2, MergeFields DEF ChangeTypes
    <3>2. told' \in [Zones -> Content]
      BY <1>2, <2>27, <3>1 DEF ChangeTaken, ChangeTypes
    <3>3. QED
      BY <1>2, <2>0, <2>27, <3>2
         DEF ChangeTaken, Send, CycleTypes, ChangeTypes, cycleVars, changeVars
  <2>28. CASE ChangeWritten
    <3>1. CASE state = "cmd_write"
      <4>1. /\ state' \in States /\ cmdZone' \in Zones /\ request' \in Requests
            /\ payload' \in [zone : Zones, content : Content]
        BY <1>2, <2>0, <2>28, <3>1, Draining DEF ChangeWritten, CycleTypes
      <4>2. flag' \in [Zones -> BOOLEAN]
        BY <1>2, <2>28, <3>1 DEF ChangeWritten, ChangeTypes
      <4>3. QED
        BY <1>2, <2>28, <4>1, <4>2
           DEF ChangeWritten, CycleTypes, ChangeTypes, unaskedVars
    <3>2. CASE state # "cmd_write"
      BY <1>2, <2>7, <2>28, <3>2
         DEF ChangeWritten, CycleTypes, ChangeTypes, unaskedVars
    <3>3. QED
      BY <3>1, <3>2
  <2>29. CASE StatusRequested
    BY <1>2, <2>0, <2>6, <2>7, <2>29
       DEF StatusRequested, CycleTypes, ChangeTypes, unaskedVars, changeVars
  <2>30. CASE StatusRead
    BY <1>2, <2>0, <2>7, <2>8, <2>30
       DEF StatusRead, GoIdle, CycleTypes, ChangeTypes, unaskedVars, changeVars
  <2>31. CASE Tick
    <3>1. Less(nextPoll) \in Nat /\ Less(deadline) \in 0 .. CONNECT_TIMEOUT
      BY <1>2, <2>0 DEF CycleTypes, Less
    <3>2. QED
      BY <1>2, <2>0, <2>31, <3>1
         DEF Tick, CycleTypes, ChangeTypes, changeVars, stackVars
  <2>32. CASE UNCHANGED vars
    BY <1>2, <2>32 DEF vars, cycleVars, changeVars, stackVars, CycleTypes, ChangeTypes
  <2>33. QED
    BY <1>2, <2>10, <2>11, <2>12, <2>13, <2>14, <2>15, <2>16, <2>17, <2>18, <2>19,
       <2>20, <2>21, <2>22, <2>23, <2>24, <2>25, <2>26, <2>27, <2>28, <2>29, <2>30,
       <2>31, <2>32 DEF Next, Task, Scanner, Links, Replies
<1>3. ASSUME ThermostatTypeOK, [Next]_vars PROVE ThermostatTypeOK'
  BY <1>0, <1>2, <1>3 DEF ThermostatTypeOK, CycleTypes, ChangeTypes
<1>4. QED
  BY <1>1, <1>3, PTL DEF Spec

-----------------------------------------------------------------------------
(* No change is lost *)

Writing == request \in {"cmd_write", "cmd_taken"}

\* What is pending is the last that was submitted.
PendingIsWanted ==
  \A z \in Zones, f \in FIELDS :
    flag[z] /\ pending[z][f] # NoValue => pending[z][f] = wanted[z][f]

\* A change that is being written is still pending, in every field it sets, even
\* when the client has given up on the cycle.
WriteIsPending ==
  Writing =>
    /\ flag[payload.zone]
    /\ \A f \in FIELDS : payload.content[f] # NoValue
                           => pending[payload.zone][f] # NoValue

\* While the client waits for the answer, it is exactly what is pending.
WriteIsExact ==
  Writing /\ state = "cmd_write" =>
    payload.zone = cmdZone /\ payload.content = pending[cmdZone]

\* Once the thermostat has it, the thermostat was told all of it.
TakenIsTold ==
  request = "cmd_taken" /\ state = "cmd_write" =>
    \A f \in FIELDS : pending[cmdZone][f] # NoValue
                        => told[cmdZone][f] = pending[cmdZone][f]

LossInv == NothingLost /\ PendingIsWanted /\ WriteIsPending /\ WriteIsExact /\ TakenIsTold

\* A change submitted for a zone that is not being written.
LEMMA SubmitKeeps ==
  ASSUME ThermostatTypeOK, LossInv, OVERTAKING = FALSE,
         NEW change \in CHANGES, Submit(change)
  PROVE  LossInv'
<1> DEFINE z == change.zone
           c == change.content
           p == IF flag[z] THEN Merge(pending[z], c) ELSE c
<1>1. /\ z \in Zones /\ c \in Content /\ pending[z] \in Content /\ wanted[z] \in Content
      /\ pending' = [pending EXCEPT ![z] = p] /\ flag' = [flag EXCEPT ![z] = TRUE]
      /\ wanted' = [wanted EXCEPT ![z] = Merge(wanted[z], c)]
      /\ UNCHANGED <<state, cmdZone, request, payload, told>>
      /\ ~ (state = "cmd_write" /\ cmdZone = z)
  BY ChangeParts DEF Submit, BeingWritten, ThermostatTypeOK, stackVars
<1>2. /\ \A f \in FIELDS : c[f] # NoValue => p[f] = c[f] /\ Merge(wanted[z], c)[f] = c[f]
      /\ \A f \in FIELDS : c[f] = NoValue => /\ Merge(wanted[z], c)[f] = wanted[z][f]
                                             /\ flag[z] => p[f] = pending[z][f]
                                             /\ ~flag[z] => p[f] = NoValue
  BY <1>1, MergeFields
<1>3. /\ pending'[z] = p /\ wanted'[z] = Merge(wanted[z], c) /\ flag'[z]
      /\ \A y \in Zones : y # z => /\ pending'[y] = pending[y]
                                   /\ wanted'[y] = wanted[y]
                                   /\ flag'[y] = flag[y]
  BY <1>1 DEF ThermostatTypeOK
<1> HIDE DEF p, c, z
<1>4. NothingLost'
  BY <1>1, <1>2, <1>3 DEF LossInv, NothingLost
<1>5. PendingIsWanted'
  BY <1>1, <1>2, <1>3 DEF LossInv, PendingIsWanted
<1>6. WriteIsPending'
  <2>1. payload.zone \in Zones
    BY DEF ThermostatTypeOK
  <2>2. QED
    BY <1>1, <1>2, <1>3, <2>1 DEF LossInv, WriteIsPending, Writing
<1>7. WriteIsExact' /\ TakenIsTold'
  <2>1. cmdZone \in Zones
    BY DEF ThermostatTypeOK
  <2>2. QED
    BY <1>1, <1>3, <2>1 DEF LossInv, WriteIsExact, TakenIsTold, Writing
<1>8. QED
  BY <1>4, <1>5, <1>6, <1>7 DEF LossInv

\* The next write of a drain carries what is pending for a flagged zone.
LEMMA DrainKeeps ==
  ASSUME ThermostatTypeOK, NEW from, NEW fl, DrainChangesFrom(from, fl), fl = flag',
         UNCHANGED pending
  PROVE  (WriteIsPending /\ WriteIsExact /\ TakenIsTold)'
<1>1. ChangeTypes
  BY DEF ThermostatTypeOK, ChangeTypes
<1>2. CASE /\ state' = "cmd_write" /\ cmdZone' \in Zones /\ fl[cmdZone']
           /\ request' = "cmd_write"
           /\ payload' = [zone |-> cmdZone', content |-> pending[cmdZone']]
  BY <1>2 DEF WriteIsPending, WriteIsExact, TakenIsTold, Writing
<1>3. CASE state' = "status_write" /\ request' = "status_write"
  BY <1>3 DEF WriteIsPending, WriteIsExact, TakenIsTold, Writing
<1>4. QED
  BY <1>1, <1>2, <1>3, Draining

\* While nobody submits a change of a zone that is being written, no change is ever
\* lost: not by failed or repeated cycles, not by late answers, not by merging.
THEOREM ChangesKept == ASSUME OVERTAKING = FALSE PROVE Spec => []NothingLost
<1>1. ASSUME Init PROVE LossInv
  <2>1. \A z \in Zones, f \in FIELDS : wanted[z][f] = NoValue /\ ~flag[z]
    BY <1>1 DEF Init, Empty
  <2>2. request = "none"
    BY <1>1 DEF Init
  <2>3. QED
    BY <2>1, <2>2 DEF LossInv, NothingLost, PendingIsWanted, WriteIsPending,
                      WriteIsExact, TakenIsTold, Writing
<1>2. ASSUME ThermostatTypeOK, LossInv, OVERTAKING = FALSE, [Next]_vars PROVE LossInv'
  <2>1. ASSUME NEW change \in CHANGES, Submit(change) PROVE LossInv'
    BY <1>2, <2>1, SubmitKeeps
  \* Steps that leave the changes alone and do not send one.
  <2>2. ASSUME UNCHANGED <<changeVars, told>>,
               \/ ~ Writing'
               \/ UNCHANGED <<request, payload>> /\ state' # "cmd_write"
               \/ UNCHANGED <<request, payload, state, cmdZone>>
        PROVE  LossInv'
    BY <1>2, <2>2 DEF LossInv, NothingLost, PendingIsWanted, WriteIsPending,
                      WriteIsExact, TakenIsTold, Writing, changeVars
  <2>3. CASE Decide \/ StartScan \/ ScanMatch \/ OpenedAgain \/ Tick
    BY <2>2, <2>3 DEF Decide, StartScan, ScanMatch, OpenedAgain, Tick, cycleVars,
                      stackVars
  <2>4. CASE Connect \/ ScanFound
    BY <2>2, <2>4 DEF Connect, ScanFound, TryConnect, TryConnectRefused, GoIdle
  <2>5. CASE GiveUp \/ OpenFailed
    BY <2>2, <2>5 DEF GiveUp, OpenFailed, GoIdle
  <2>6. CASE Connected \/ Discovered
    BY <2>2, <2>6 DEF Connected, Discovered, Send, Writing
  <2>7. CASE Disconnected \/ Rejected \/ Unanswered \/ PasswordRefused
    BY <2>2, <2>7 DEF Disconnected, Rejected, Unanswered, PasswordRefused, NoRequest,
                      Send, Writing
  <2>8. CASE PasswordWritten \/ StatusRequested \/ StatusRead
    BY <2>2, <2>8 DEF PasswordWritten, StatusRequested, StatusRead, NoRequest, Send,
                      Writing
  <2>9. CASE PasswordMatched
    <3>1. CASE state = "auth_read"
      <4>1. UNCHANGED <<changeVars, told>> /\ DrainChangesFrom(0, flag) /\ flag = flag'
        BY <2>9, <3>1 DEF PasswordMatched, changeVars
      <4>2. (WriteIsPending /\ WriteIsExact /\ TakenIsTold)'
        BY <1>2, <4>1, DrainKeeps DEF changeVars
      <4>3. QED
        BY <1>2, <4>1, <4>2 DEF LossInv, NothingLost, PendingIsWanted, changeVars
    <3>2. CASE state # "auth_read"
      BY <2>2, <2>9, <3>2 DEF PasswordMatched, NoRequest, Send, Writing
    <3>3. QED
      BY <3>1, <3>2
  <2>10. CASE ChangeTaken
    <3> DEFINE y == payload.zone
               c == payload.content
    <3>1. /\ y \in Zones /\ c \in Content /\ told[y] \in Content /\ cmdZone \in Zones
          /\ request = "cmd_write" /\ request' = "cmd_taken" /\ payload' = payload
          /\ told' = [told EXCEPT ![y] = Merge(told[y], c)]
          /\ UNCHANGED <<state, cmdZone, pending, flag, wanted>>
      BY <1>2, <2>10 DEF ThermostatTypeOK, ChangeTaken, Send, cycleVars, changeVars
    <3>2. /\ \A f \in FIELDS : c[f] # NoValue => Merge(told[y], c)[f] = c[f]
          /\ \A f \in FIELDS : c[f] = NoValue => Merge(told[y], c)[f] = told[y][f]
      BY <3>1, MergeFields
    <3>3. told'[y] = Merge(told[y], c) /\ \A z \in Zones : z # y => told'[z] = told[z]
      BY <1>2, <3>1 DEF ThermostatTypeOK
    <3>4. Writing /\ Writing' /\ flag[y]
          /\ \A f \in FIELDS : c[f] # NoValue => pending[y][f] # NoValue
      BY <1>2, <3>1 DEF LossInv, WriteIsPending, Writing
    <3>5. state = "cmd_write" => y = cmdZone /\ c = pending[cmdZone]
      BY <1>2, <3>4 DEF LossInv, WriteIsExact
    <3> HIDE DEF y, c
    <3>6. NothingLost'
      BY <1>2, <3>1, <3>2, <3>3, <3>4 DEF LossInv, NothingLost, PendingIsWanted
    <3>7. TakenIsTold'
      BY <3>1, <3>2, <3>3, <3>5 DEF TakenIsTold
    <3>8. PendingIsWanted' /\ WriteIsPending' /\ WriteIsExact'
      BY <1>2, <3>1, <3>4 DEF LossInv, PendingIsWanted, WriteIsPending, WriteIsExact
    <3>9. QED
      BY <3>6, <3>7, <3>8 DEF LossInv
  <2>11. CASE ChangeWritten
    <3>1. CASE state = "cmd_write"
      <4>1. /\ UNCHANGED <<pending, wanted, told>> /\ cmdZone \in Zones
            /\ flag' = [flag EXCEPT ![cmdZone] = FALSE]
            /\ request = "cmd_taken"
            /\ DrainChangesFrom(cmdZone + 1, flag')
        BY <1>2, <2>11, <3>1 DEF ChangeWritten, ThermostatTypeOK
      <4>2. (WriteIsPending /\ WriteIsExact /\ TakenIsTold)'
        BY <1>2, <4>1, DrainKeeps
      <4>3. /\ ~ flag'[cmdZone]
            /\ \A z \in Zones : z # cmdZone => flag'[z] = flag[z]
        BY <1>2, <4>1 DEF ThermostatTypeOK
      <4>4. \A f \in FIELDS : pending[cmdZone][f] # NoValue
                                => told[cmdZone][f] = pending[cmdZone][f]
        BY <1>2, <3>1, <4>1 DEF LossInv, TakenIsTold
      <4>5. flag[cmdZone]
        BY <1>2, <3>1, <4>1 DEF LossInv, WriteIsPending, WriteIsExact, Writing
      <4>6. \A f \in FIELDS : wanted[cmdZone][f] # NoValue
                                => told[cmdZone][f] = wanted[cmdZone][f]
        BY <1>2, <4>1, <4>4, <4>5 DEF LossInv, NothingLost, PendingIsWanted
      <4>7. NothingLost' /\ PendingIsWanted'
        BY <1>2, <4>1, <4>3, <4>6 DEF LossInv, NothingLost, PendingIsWanted
      <4>8. QED
        BY <4>2, <4>7 DEF LossInv
    <3>2. CASE state # "cmd_write"
      BY <2>2, <2>11, <3>2 DEF ChangeWritten, NoRequest, Send, Writing, changeVars
    <3>3. QED
      BY <3>1, <3>2
  <2>12. CASE UNCHANGED vars
    BY <2>2, <2>12 DEF vars, cycleVars, stackVars
  <2>13. QED
    BY <1>2, <2>1, <2>3, <2>4, <2>5, <2>6, <2>7, <2>8, <2>9, <2>10, <2>11, <2>12
       DEF Next, Task, Scanner, Links, Replies
<1>3. LossInv => NothingLost
  BY DEF LossInv
<1>4. QED
  BY <1>1, <1>2, <1>3, ThermostatTypeCorrect, PTL DEF Spec

-----------------------------------------------------------------------------
(* The link is let go of *)

\* Whatever ends a cycle, but for a refused attempt that overruns one, closes its
\* link or has found it gone.
THEOREM CyclesEndReleased == Spec => CycleEndsReleased
<1>1. ASSUME [Next]_vars, state # "idle", state' = "idle" PROVE link' # "up" \/ Opens
  <2>1. CloseConn => link' # "up"
    BY DEF CloseConn
  <2>2. CASE Connect \/ ScanFound
    BY <2>2 DEF Connect, ScanFound, Opens
  <2>3. CASE GiveUp \/ Rejected \/ PasswordRefused
    BY <2>1, <2>3 DEF GiveUp, Rejected, PasswordRefused
  <2>4. CASE OpenFailed \/ Disconnected
    BY <2>4 DEF OpenFailed, Disconnected
  <2>5. CASE StatusRead
    BY <1>1, <2>1, <2>5 DEF StatusRead
  <2>6. CASE PasswordMatched \/ ChangeWritten
    BY <1>1, <2>6 DEF PasswordMatched, ChangeWritten, DrainChangesFrom
  <2>7. CASE \/ \E change \in CHANGES : Submit(change)
             \/ Decide \/ StartScan \/ ScanMatch \/ OpenedAgain \/ Connected
             \/ Unanswered \/ Discovered \/ PasswordWritten \/ ChangeTaken
             \/ StatusRequested \/ Tick \/ UNCHANGED vars
    BY <1>1, <2>7 DEF Submit, Decide, StartScan, ScanMatch, OpenedAgain, Connected,
                      Unanswered, Discovered, PasswordWritten, ChangeTaken,
                      StatusRequested, Tick, vars, cycleVars
  <2>8. QED
    BY <1>1, <2>2, <2>3, <2>4, <2>5, <2>6, <2>7 DEF Next, Task, Scanner, Links, Replies
<1>2. QED
  BY <1>1, PTL DEF Spec, CycleEndsReleased
=============================================================================
