----------------------------- MODULE ProxyProofs -----------------------------
(***************************************************************************)
(* Theorems about the Bluetooth side: the two scanning clients of the proxy *)
(* and the arbiter they share, for any stall limit and however often        *)
(* devices and stack misbehave; and what the clients keep of the streams    *)
(* of their devices, for any length of a packet, a frame and a payload.     *)
(***************************************************************************)
EXTENDS MCProxy, WellFoundedInduction, SequenceTheorems, FiniteSetTheorems, TLAPS

-----------------------------------------------------------------------------
(* The arbiter *)
HasParams(s) == \E i \in 1 .. Len(s) : s[i] = "params"

\* Parameters that have been asked for are still to be set.
Sound(h) == h \in HostType /\ (h.params = "asked" => HasParams(h.cmds))

\* Whoever wants a scan has one, or something is under way that leads to it.
ScanComes(h) == AnyoneWants(h) => h.scanning \/ h.cmds # <<>>

\* What is asked of the stack goes behind what was asked before.
LEMMA AppendedCommand ==
  ASSUME NEW s \in Seq(Commands), NEW c \in Commands
  PROVE  /\ Append(s, c) \in Seq(Commands) /\ Append(s, c) # <<>>
         /\ HasParams(s) \/ c = "params" => HasParams(Append(s, c))
<1>1. /\ Append(s, c) \in Seq(Commands) /\ Len(Append(s, c)) = Len(s) + 1
      /\ \A i \in 1 .. Len(s) : Append(s, c)[i] = s[i]
      /\ Append(s, c)[Len(s) + 1] = c
      /\ Len(s) \in Nat
  BY AppendProperties, LenProperties
<1>2. Append(s, c) # <<>>
  BY <1>1, EmptySeq
<1>3. ASSUME HasParams(s) PROVE HasParams(Append(s, c))
  <2>1. PICK i \in 1 .. Len(s) : s[i] = "params"
    BY <1>3 DEF HasParams
  <2>2. i \in 1 .. Len(Append(s, c)) /\ Append(s, c)[i] = "params"
    BY <1>1, <2>1
  <2>3. QED
    BY <2>2 DEF HasParams
<1>4. ASSUME c = "params" PROVE HasParams(Append(s, c))
  <2>1. Len(s) + 1 \in 1 .. Len(Append(s, c))
    BY <1>1
  <2>2. QED
    BY <1>1, <1>4, <2>1 DEF HasParams
<1>5. QED
  BY <1>1, <1>2, <1>3, <1>4

\* scan_ensure() keeps the flags, and leaves a wanted scan under way.
LEMMA EnsureKeeps ==
  ASSUME NEW h, Sound(h)
  PROVE  /\ Sound(Ensure(h)) /\ ScanComes(Ensure(h))
         /\ Ensure(h).want = h.want /\ Ensure(h).pending = h.pending
         /\ Ensure(h).scanning = h.scanning
<1>1. /\ h \in HostType /\ h.cmds \in Seq(Commands)
      /\ "params" \in Commands /\ "start" \in Commands
  BY DEF Sound, HostType, Commands
<1>2. CASE h.scanning \/ ~ AnyoneWants(h)
  BY <1>2 DEF Ensure, ScanComes
<1>3. CASE ~ h.scanning /\ AnyoneWants(h) /\ h.params = "asked"
  <2>1. Ensure(h) = h /\ HasParams(h.cmds)
    BY <1>3 DEF Ensure, Sound
  <2>2. h.cmds # <<>>
    BY <1>1, <2>1, EmptySeq DEF HasParams
  <2>3. QED
    BY <2>1, <2>2 DEF ScanComes
<1>4. CASE ~ h.scanning /\ AnyoneWants(h) /\ h.params = "unset"
  <2>1. Ensure(h) = [h EXCEPT !.params = "asked", !.cmds = Append(h.cmds, "params")]
    BY <1>4 DEF Ensure
  <2>2. /\ Append(h.cmds, "params") \in Seq(Commands) /\ Append(h.cmds, "params") # <<>>
        /\ HasParams(Append(h.cmds, "params"))
    BY <1>1, AppendedCommand
  <2>3. Ensure(h) \in HostType
    BY <1>1, <2>1, <2>2 DEF HostType
  <2>4. Ensure(h).cmds = Append(h.cmds, "params")
    BY <1>1, <2>1 DEF HostType
  <2>5. QED
    BY <1>1, <2>1, <2>2, <2>3, <2>4 DEF Sound, ScanComes, HostType
<1>5. CASE ~ h.scanning /\ AnyoneWants(h) /\ h.params = "set"
  <2>1. Ensure(h) = [h EXCEPT !.cmds = Append(h.cmds, "start")]
    BY <1>5 DEF Ensure
  <2>2. Append(h.cmds, "start") \in Seq(Commands) /\ Append(h.cmds, "start") # <<>>
    BY <1>1, AppendedCommand
  <2>3. Ensure(h) \in HostType
    BY <1>1, <2>1, <2>2 DEF HostType
  <2>4. Ensure(h).cmds = Append(h.cmds, "start") /\ Ensure(h).params = "set"
    BY <1>1, <1>5, <2>1 DEF HostType
  <2>5. QED
    BY <1>1, <2>1, <2>2, <2>3, <2>4 DEF Sound, ScanComes, HostType
<1>6. h.params \in {"unset", "asked", "set"}
  BY <1>1 DEF HostType
<1>7. QED
  BY <1>2, <1>3, <1>4, <1>5, <1>6

\* ble_host_scan_want(c, true).
LEMMA WantKeeps ==
  ASSUME NEW h, Sound(h), NEW c \in Clients
  PROVE  /\ Sound(Want(h, c)) /\ ScanComes(Want(h, c))
         /\ Want(h, c).want[c]
         /\ \A d \in Clients \ {c} : /\ Want(h, c).want[d] = h.want[d]
                                     /\ Want(h, c).pending[d] = h.pending[d]
         /\ Want(h, c).scanning = h.scanning
<1> DEFINE wanting == [h EXCEPT !.want[c] = TRUE, !.pending[c] = FALSE]
<1>1. h \in HostType
  BY DEF Sound
<1>2. /\ wanting.params = h.params /\ wanting.cmds = h.cmds /\ wanting.scanning = h.scanning
      /\ wanting.want = [h.want EXCEPT ![c] = TRUE] /\ wanting.pending = [h.pending EXCEPT ![c] = FALSE]
  BY <1>1 DEF HostType
<1>3. wanting \in HostType
  BY <1>1 DEF HostType
<1>4. /\ wanting.want[c]
      /\ \A d \in Clients \ {c} : wanting.want[d] = h.want[d] /\ wanting.pending[d] = h.pending[d]
  BY <1>1, <1>2 DEF HostType
<1>5. Sound(wanting)
  BY <1>2, <1>3 DEF Sound
<1>6. Want(h, c) = Ensure(wanting)
  BY DEF Want
<1> HIDE DEF wanting
<1>7. /\ Sound(Ensure(wanting)) /\ ScanComes(Ensure(wanting))
      /\ Ensure(wanting).want = wanting.want /\ Ensure(wanting).pending = wanting.pending
      /\ Ensure(wanting).scanning = wanting.scanning
  BY <1>5, EnsureKeeps
<1>8. QED
  BY <1>2, <1>4, <1>6, <1>7

\* The clients of S ask for a scan.
LEMMA RestartKeeps ==
  ASSUME NEW h, Sound(h), NEW S
  PROVE  /\ Sound(RestartHost(h, S)) /\ (ScanComes(RestartHost(h, S)) \/ RestartHost(h, S) = h)
         /\ RestartHost(h, S).scanning = h.scanning
         /\ "shore" \in S => RestartHost(h, S).want["shore"]
         /\ "shore" \notin S => /\ RestartHost(h, S).want["shore"] = h.want["shore"]
                                /\ RestartHost(h, S).pending["shore"] = h.pending["shore"]
<1> DEFINE first == IF "shore" \in S THEN Want(h, "shore") ELSE h
<1>0. "shore" \in Clients /\ "solar" \in Clients /\ "shore" \in Clients \ {"solar"}
  BY BleAssumption
<1>1. /\ Sound(Want(h, "shore")) /\ ScanComes(Want(h, "shore"))
      /\ Want(h, "shore").want["shore"] /\ Want(h, "shore").scanning = h.scanning
  BY <1>0, WantKeeps
<1>2. /\ Sound(first) /\ (ScanComes(first) \/ first = h) /\ first.scanning = h.scanning
      /\ "shore" \in S => first.want["shore"]
      /\ "shore" \notin S => first = h
  BY <1>1
<1>3. RestartHost(h, S) \in {first, Want(first, "solar")}
  BY DEF RestartHost, ShoreRestart, SolarRestart
<1> HIDE DEF first
<1>4. CASE RestartHost(h, S) = first
  BY <1>2, <1>4
<1>5. CASE RestartHost(h, S) = Want(first, "solar")
  <2>1. /\ Sound(Want(first, "solar")) /\ ScanComes(Want(first, "solar"))
        /\ Want(first, "solar").scanning = first.scanning
        /\ Want(first, "solar").want["shore"] = first.want["shore"]
        /\ Want(first, "solar").pending["shore"] = first.pending["shore"]
    BY <1>0, <1>2, WantKeeps
  <2>2. QED
    BY <1>2, <1>5, <2>1
<1>6. QED
  BY <1>3, <1>4, <1>5

-----------------------------------------------------------------------------
(* The clients *)

BleTypes ==
  /\ state \in [Clients -> States] /\ link \in [Clients -> Links]
  /\ valid \in [Clients -> BOOLEAN]

\* While the shore client scans, its matcher is wanted, or its device was matched.
ShoreWaits(h, s) == s = "SCANNING" => h.want["shore"] \/ h.pending["shore"]

\* Nobody is left waiting: WantedScanRuns, with what the node believes of the radio.
ScanInv ==
  /\ Sound(host)
  /\ host.scanning => radio
  /\ AnyoneWants(host) => radio \/ host.cmds # <<>> \/ refused \/ taskPc \in {"pend", "ensure"}
  /\ ShoreWaits(host, state["shore"])

\* A scan that was asked for afresh.
LEMMA FreshScan ==
  ASSUME Sound(host'), ScanComes(host'), host'.scanning => radio', ShoreWaits(host', state'["shore"])
  PROVE  ScanInv'
BY DEF ScanInv, ScanComes

\* What a found() callback, or a restart, may leave a client and its link as.
LEMMA ClientTypes ==
  ASSUME NEW c \in Clients, NEW opened \in BOOLEAN
  PROVE  /\ RestartState(c, opened) \in States
         /\ \A l \in Links : OpenLink(c, l, opened) \in Links
         /\ ShoreFound(opened) \in States /\ SolarFound(opened) \in States
BY DEF RestartState, OpenLink, ShoreFound, SolarFound, States, Links

\* A window or a stop: the matches go to their clients, and the scan is asked for again.
LEMMA DeliverStep ==
  ASSUME BleTypes, NEW h, Sound(h), ShoreWaits(h, state["shore"]), Deliver(h)
  PROVE  /\ Sound(host') /\ ScanComes(host') /\ ~ host'.scanning
         /\ ShoreWaits(host', state'["shore"])
         /\ state' \in [Clients -> States] /\ link' \in [Clients -> Links]
         /\ \A c \in Clients : link[c] # "down" => link'[c] = link[c]
<1>0. /\ "shore" \in Clients /\ h \in HostType
      /\ state \in [Clients -> States] /\ link \in [Clients -> Links]
  BY BleAssumption DEF BleTypes, Sound
<1> DEFINE found == {c \in Clients : h.pending[c] /\ Matches(c)}
           over == ScanOver(h)
<1>1. PICK opened \in SUBSET Clients :
        /\ state' = [c \in Clients |->
                       IF c \notin found THEN state[c]
                       ELSE IF c = "shore" THEN ShoreFound(c \in opened)
                       ELSE SolarFound(c \in opened)]
        /\ link' = [c \in Clients |->
                      IF c \in opened /\ link[c] = "down" THEN "opening" ELSE link[c]]
        /\ host' = Ensure(IF "shore" \in found \ opened THEN ShoreRestart(over) ELSE over)
  BY DEF Deliver
<1>2. /\ over \in HostType /\ over.want = h.want /\ over.params = h.params /\ over.cmds = h.cmds
      /\ over.scanning = FALSE
  BY <1>0 DEF ScanOver, HostType
<1>3. Sound(over) /\ ~ over.scanning
  <2>1. Sound(over)
    BY <1>2 DEF Sound
  <2>2. ~ over.scanning
    BY <1>2, Zenon
  <2>3. QED
    BY <2>1, <2>2
<1>4. /\ state' \in [Clients -> States] /\ link' \in [Clients -> Links]
      /\ \A c \in Clients : link[c] # "down" => link'[c] = link[c]
  <2>1. \A c \in Clients : state'[c] \in States
    <3> SUFFICES ASSUME NEW c \in Clients PROVE state'[c] \in States
      OBVIOUS
    <3>1. (c \in opened) \in BOOLEAN
      OBVIOUS
    <3>2. ShoreFound(c \in opened) \in States /\ SolarFound(c \in opened) \in States
      BY <3>1, ClientTypes
    <3>3. QED
      BY <1>0, <1>1, <3>2
  <2>2. \A c \in Clients : link'[c] \in Links
    BY <1>0, <1>1 DEF Links
  <2>3. \A c \in Clients : link[c] # "down" => link'[c] = link[c]
    BY <1>0, <1>1
  <2>4. QED
    BY <1>1, <2>1, <2>2, <2>3
<1>5. CASE "shore" \in found \ opened
  <2>1. /\ Sound(Want(over, "shore")) /\ Want(over, "shore").want["shore"]
        /\ Want(over, "shore").scanning = over.scanning
    BY <1>0, <1>3, WantKeeps
  <2>2. host' = Ensure(Want(over, "shore"))
    BY <1>1, <1>5 DEF ShoreRestart
  <2>3. /\ Sound(host') /\ ScanComes(host') /\ host'.want["shore"] /\ ~ host'.scanning
    BY <1>3, <2>1, <2>2, EnsureKeeps
  <2>4. QED
    BY <1>4, <2>3 DEF ShoreWaits
<1>6. CASE "shore" \notin found \ opened
  <2>1. host' = Ensure(over)
    BY <1>1, <1>6
  <2>2. /\ Sound(host') /\ ScanComes(host') /\ host'.want = over.want /\ ~ host'.scanning
    BY <1>3, <2>1, EnsureKeeps
  <2>3. ASSUME state'["shore"] = "SCANNING" PROVE host'.want["shore"]
    <3>1. "shore" \notin found
      BY <1>0, <1>1, <1>6, <2>3 DEF ShoreFound
    <3>2. state["shore"] = "SCANNING"
      BY <1>0, <1>1, <2>3, <3>1
    <3>3. ~ h.pending["shore"]
      BY <1>0, <3>1, <3>2 DEF Matches, ShoreMatches
    <3>4. QED
      BY <1>2, <2>2, <3>2, <3>3 DEF ShoreWaits
  <2>4. QED
    BY <1>4, <2>2, <2>3 DEF ShoreWaits
<1>7. QED
  BY <1>5, <1>6

-----------------------------------------------------------------------------
(* The scan, step by step *)

BleInv == BleTypes /\ ScanInv /\ ReadingHasLink

\* What has neither to do with the scan nor sets the shore client scanning.
LEMMA ScanFrame ==
  ASSUME ScanInv, UNCHANGED <<host, radio, refused>>,
         taskPc \in {"pend", "ensure"} => taskPc' \in {"pend", "ensure"},
         state'["shore"] = "SCANNING" => state["shore"] = "SCANNING"
  PROVE  ScanInv'
BY DEF ScanInv, ShoreWaits, Sound, AnyoneWants

\* A command of the stack is taken from the head.
LEMMA PoppedIs ==
  ASSUME Sound(host), host.cmds # <<>>
  PROVE  /\ Popped \in HostType
         /\ Popped.want = host.want /\ Popped.pending = host.pending
         /\ Popped.params = host.params /\ Popped.scanning = host.scanning
         /\ Head(host.cmds) # "params" => Sound(Popped)
<1>1. host \in HostType /\ host.cmds \in Seq(Commands)
  BY DEF Sound, HostType
<1>2. /\ Tail(host.cmds) \in Seq(Commands) /\ Len(Tail(host.cmds)) = Len(host.cmds) - 1
      /\ \A i \in 1 .. Len(host.cmds) - 1 : Tail(host.cmds)[i] = host.cmds[i + 1]
      /\ Len(host.cmds) \in Nat /\ Head(host.cmds) = host.cmds[1]
  BY <1>1, HeadTailProperties, LenProperties
<1>3. /\ Popped \in HostType
      /\ Popped.want = host.want /\ Popped.pending = host.pending
      /\ Popped.params = host.params /\ Popped.scanning = host.scanning
      /\ Popped.cmds = Tail(host.cmds)
  BY <1>1, <1>2 DEF Popped, HostType
<1>4. ASSUME Head(host.cmds) # "params", HasParams(host.cmds) PROVE HasParams(Tail(host.cmds))
  <2>1. PICK i \in 1 .. Len(host.cmds) : host.cmds[i] = "params"
    BY <1>4 DEF HasParams
  <2>2. i - 1 \in 1 .. Len(Tail(host.cmds)) /\ Tail(host.cmds)[i - 1] = "params"
    BY <1>2, <1>4, <2>1
  <2>3. QED
    BY <2>2 DEF HasParams
<1>5. QED
  BY <1>3, <1>4 DEF Sound

\* The stack has set the parameters, and a wanted scan is started.
LEMMA ParamsStep ==
  ASSUME BleInv, ParamsDone
  PROVE  ScanInv'
<1>1. /\ Sound(host) /\ host.cmds # <<>> /\ (host.scanning => radio)
      /\ ShoreWaits(host, state["shore"])
  BY DEF BleInv, ScanInv, ParamsDone
<1>2. /\ Popped \in HostType
      /\ Popped.want = host.want /\ Popped.pending = host.pending /\ Popped.scanning = host.scanning
  BY <1>1, PoppedIs
<1>3. PICK ok \in BOOLEAN : host' = ParamsSet(Popped, ok) /\ refused' = (refused \/ ~ ok)
  BY DEF ParamsDone
<1>4. radio' = radio /\ state' = state
  BY DEF ParamsDone, linkVars
<1>5. CASE ok
  <2> DEFINE h == [Popped EXCEPT !.params = "set"]
  <2>1. /\ h \in HostType /\ h.params = "set" /\ h.want = host.want /\ h.pending = host.pending
        /\ h.scanning = host.scanning
    BY <1>2 DEF HostType
  <2>2. Sound(h)
    BY <2>1 DEF Sound
  <2>3. host' = Ensure(h)
    BY <1>3, <1>5 DEF ParamsSet
  <2> HIDE DEF h
  <2>4. /\ Sound(host') /\ ScanComes(host') /\ host'.want = host.want /\ host'.pending = host.pending
        /\ host'.scanning = host.scanning
    BY <2>1, <2>2, <2>3, EnsureKeeps
  <2>5. ShoreWaits(host', state'["shore"])
    BY <1>1, <1>4, <2>4 DEF ShoreWaits
  <2>6. QED
    BY <1>1, <1>4, <2>4, <2>5, FreshScan
<1>6. CASE ~ ok
  <2>1. host' = [Popped EXCEPT !.params = "unset"] /\ refused'
    BY <1>3, <1>6 DEF ParamsSet
  <2>2. /\ host' \in HostType /\ host'.params = "unset" /\ host'.want = host.want
        /\ host'.pending = host.pending /\ host'.scanning = host.scanning
    BY <1>2, <2>1 DEF HostType
  <2>3. QED
    BY <1>1, <1>4, <2>1, <2>2 DEF ScanInv, Sound, ShoreWaits
<1>7. QED
  BY <1>5, <1>6

\* The stack has started a scan, or has refused to.
LEMMA StartStep ==
  ASSUME BleInv, StartDone
  PROVE  ScanInv'
<1>1. /\ Sound(host) /\ host.cmds # <<>> /\ Head(host.cmds) = "start"
      /\ ShoreWaits(host, state["shore"])
  BY DEF BleInv, ScanInv, StartDone
<1>2. /\ Popped \in HostType /\ Sound(Popped)
      /\ Popped.want = host.want /\ Popped.pending = host.pending
  BY <1>1, PoppedIs
<1>3. PICK ok \in BOOLEAN : /\ host' = StartComplete(Popped, ok) /\ radio' = (radio \/ ok)
                            /\ refused' = (refused \/ (~ ok /\ ~ radio))
  BY DEF StartDone
<1>4. /\ host' \in HostType /\ host'.want = Popped.want /\ host'.pending = Popped.pending
      /\ host'.params = Popped.params /\ host'.cmds = Popped.cmds /\ host'.scanning = ok
  BY <1>2, <1>3 DEF StartComplete, HostType
<1>5. Sound(host')
  BY <1>2, <1>4 DEF Sound
<1>6. ShoreWaits(host', state'["shore"])
  BY <1>1, <1>2, <1>4 DEF StartDone, linkVars, ShoreWaits
<1>7. (host'.scanning => radio') /\ (radio' \/ refused')
  BY <1>3, <1>4
<1>8. QED
  BY <1>5, <1>6, <1>7 DEF ScanInv

\* A device is heard in a scan.
LEMMA AdvertiseStep ==
  ASSUME BleInv, NEW c \in Clients, Advertise(c)
  PROVE  ScanInv'
<1>1. /\ Sound(host) /\ host \in HostType /\ host.cmds \in Seq(Commands) /\ "stop" \in Commands
      /\ (host.scanning => radio) /\ ShoreWaits(host, state["shore"])
      /\ "shore" \in Clients
  BY BleAssumption DEF BleInv, ScanInv, Sound, HostType, Commands
<1>2. host' = [host EXCEPT !.want = [d \in Clients |-> host.want[d] /\ d \notin {c}],
                           !.pending = [d \in Clients |-> host.pending[d] \/ d \in {c}],
                           !.cmds = Append(host.cmds, "stop")]
  BY DEF Advertise, Hit
<1>3. /\ Append(host.cmds, "stop") \in Seq(Commands) /\ Append(host.cmds, "stop") # <<>>
      /\ HasParams(host.cmds) => HasParams(Append(host.cmds, "stop"))
  BY <1>1, AppendedCommand
<1>4. /\ host'.want = [d \in Clients |-> host.want[d] /\ d \notin {c}]
      /\ host'.pending = [d \in Clients |-> host.pending[d] \/ d \in {c}]
      /\ host'.cmds = Append(host.cmds, "stop")
      /\ host'.params = host.params /\ host'.scanning = host.scanning
  BY <1>1, <1>2 DEF HostType
<1>5. host' \in HostType
  <2>1. /\ [d \in Clients |-> host.want[d] /\ d \notin {c}] \in [Clients -> BOOLEAN]
        /\ [d \in Clients |-> host.pending[d] \/ d \in {c}] \in [Clients -> BOOLEAN]
    OBVIOUS
  <2>2. QED
    BY <1>1, <1>2, <1>3, <2>1 DEF HostType
<1>6. Sound(host')
  BY <1>1, <1>3, <1>4, <1>5 DEF Sound
<1>7. ShoreWaits(host', state'["shore"])
  <2>1. /\ host'.want["shore"] = (host.want["shore"] /\ "shore" \notin {c})
        /\ host'.pending["shore"] = (host.pending["shore"] \/ "shore" \in {c})
    BY <1>1, <1>4
  <2>2. QED
    BY <1>1, <2>1 DEF Advertise, linkVars, ShoreWaits
<1>8. radio' = radio /\ host'.cmds # <<>>
  BY <1>3, <1>4 DEF Advertise
<1>9. QED
  BY <1>1, <1>4, <1>6, <1>7, <1>8 DEF ScanInv

-----------------------------------------------------------------------------
(* The clients, step by step *)

\* A step that stores no reading and ends no link leaves every reading its link.
LEMMA ReadingFrame ==
  ASSUME ReadingHasLink,
         \A c \in Clients : valid'[c] => valid[c],
         \A c \in Clients : link[c] \in {"idle", "closing"} => link'[c] \in {"idle", "closing"}
  PROVE  ReadingHasLink'
BY DEF ReadingHasLink

\* A change of one client and its link.
LEMMA OneClient ==
  ASSUME BleTypes, NEW c \in Clients, NEW s \in States, NEW l \in Links,
         state' = [state EXCEPT ![c] = s], link' = [link EXCEPT ![c] = l], valid' = valid
  PROVE  /\ BleTypes'
         /\ \A d \in Clients \ {c} : state'[d] = state[d] /\ link'[d] = link[d]
         /\ state'[c] = s /\ link'[c] = l
BY DEF BleTypes

\* A procedure on the open link ends.
LEMMA ProcStep ==
  ASSUME BleInv, NEW c \in Clients, NEW from \in Links \ {"idle", "closing"}, NEW to \in Links,
         NEW failures \in SUBSET Links, Proc(c, from, to, failures)
  PROVE  BleInv'
<1>0. BleTypes /\ ScanInv /\ ReadingHasLink /\ "shore" \in Clients
  BY BleAssumption DEF BleInv
<1>1. PICK l \in {to} \cup failures :
        /\ link' = [link EXCEPT ![c] = l]
        /\ state' = [state EXCEPT ![c] = IF l = "idle" THEN "READY" ELSE state[c]]
  BY DEF Proc
<1>2. link[c] = from /\ UNCHANGED <<scanVars, valid, taskVars>>
  BY DEF Proc
<1>3. l \in Links /\ (IF l = "idle" THEN "READY" ELSE state[c]) \in States
  BY <1>0 DEF BleTypes, States
<1>4. /\ BleTypes'
      /\ \A d \in Clients \ {c} : state'[d] = state[d] /\ link'[d] = link[d]
      /\ state'[c] = (IF l = "idle" THEN "READY" ELSE state[c])
  BY <1>0, <1>1, <1>2, <1>3, OneClient
<1>5. state'["shore"] = "SCANNING" => state["shore"] = "SCANNING"
  BY <1>0, <1>4
<1>6. ScanInv'
  BY <1>0, <1>2, <1>5, ScanFrame DEF scanVars, taskVars
<1>7. ReadingHasLink'
  BY <1>0, <1>2, <1>4, ReadingFrame
<1>8. QED
  BY <1>4, <1>6, <1>7 DEF BleInv

\* Events of the stack, which every client sees.
LEMMA GattStep ==
  ASSUME BleInv, ShoreGatt \/ SolarGatt
  PROVE  BleInv'
<1>0. /\ BleTypes /\ ScanInv /\ ReadingHasLink
      /\ "shore" \in Clients /\ "solar" \in Clients
  BY BleAssumption DEF BleInv
<1>1. ASSUME NEW c \in Clients, NEW s \in States, LinkUp(c, s), c = "shore" => s = state["shore"],
             c = "solar" => s # "SCANNING"
      PROVE  BleInv'
  <2>1. /\ link[c] = "opening" /\ state' = [state EXCEPT ![c] = s]
        /\ link' = [link EXCEPT ![c] = "mtu"] /\ UNCHANGED <<scanVars, valid, taskVars>>
    BY <1>1 DEF LinkUp
  <2>2. /\ BleTypes'
        /\ \A d \in Clients \ {c} : state'[d] = state[d] /\ link'[d] = link[d]
        /\ state'[c] = s
    BY <1>0, <1>1, <2>1, OneClient DEF Links
  <2>3. state'["shore"] = state["shore"]
    BY <1>0, <1>1, <2>2
  <2>4. ScanInv'
    BY <1>0, <2>1, <2>3, ScanFrame DEF scanVars, taskVars
  <2>5. ReadingHasLink'
    BY <1>0, <2>1, <2>2, ReadingFrame
  <2>6. QED
    BY <2>2, <2>4, <2>5 DEF BleInv
<1>2. CASE ShoreConnected
  BY <1>0, <1>1, <1>2 DEF ShoreConnected, BleTypes
<1>3. CASE SolarConnected
  BY <1>0, <1>1, <1>3 DEF SolarConnected, States
<1>4. CASE ShoreServices \/ SolarServices
  BY <1>0, <1>4, ProcStep DEF ShoreServices, SolarServices, Links
<1>5. CASE ShoreSearched \/ SolarSearched
  BY <1>0, <1>5, ProcStep DEF ShoreSearched, SolarSearched, Links
<1>6. CASE ShoreSubscribed \/ SolarSubscribed
  BY <1>0, <1>6, ProcStep DEF ShoreSubscribed, SolarSubscribed, Links
<1>7. QED
  BY <1>2, <1>3, <1>4, <1>5, <1>6 DEF ShoreGatt, SolarGatt

\* An open that failed on a link that is not up.
LEMMA OpenFailedStep ==
  ASSUME BleInv, ShoreOpenFailed \/ SolarOpenFailed
  PROVE  BleInv'
<1>0. /\ BleTypes /\ ScanInv /\ ReadingHasLink /\ Sound(host) /\ (host.scanning => radio)
      /\ "shore" \in Clients /\ "solar" \in Clients /\ "down" \in Links
      /\ ShoreWaits(host, state["shore"])
  BY BleAssumption DEF BleInv, ScanInv, Links
<1>1. ASSUME NEW c \in Clients, OpenFails(c)
      PROVE  /\ BleTypes' /\ ReadingHasLink' /\ UNCHANGED <<radio, refused, taskVars>>
             /\ c = "solar" => state'["shore"] = state["shore"]
  <2>1. PICK opened \in BOOLEAN :
          /\ state' = [state EXCEPT ![c] = RestartState(c, opened)]
          /\ link' = [link EXCEPT ![c] = OpenLink(c, "down", opened)]
    BY <1>1 DEF OpenFails
  <2>2. RestartState(c, opened) \in States /\ OpenLink(c, "down", opened) \in Links
    BY <1>0, ClientTypes
  <2>3. link[c] = "opening" /\ valid' = valid /\ UNCHANGED <<radio, refused, taskVars>>
    BY <1>1 DEF OpenFails
  <2>4. BleTypes' /\ \A d \in Clients \ {c} : state'[d] = state[d] /\ link'[d] = link[d]
    BY <1>0, <2>1, <2>2, <2>3, OneClient
  <2>5. ReadingHasLink'
    BY <1>0, <2>3, <2>4, ReadingFrame
  <2>6. QED
    BY <1>0, <2>3, <2>4, <2>5
<1>2. CASE ShoreOpenFailed
  <2>1. BleTypes' /\ ReadingHasLink' /\ radio' = radio
    BY <1>0, <1>1, <1>2 DEF ShoreOpenFailed
  <2>2. host' = Want(host, "shore")
    BY <1>2 DEF ShoreOpenFailed, ShoreRestart
  <2>3. Sound(host') /\ ScanComes(host') /\ host'.want["shore"] /\ host'.scanning = host.scanning
    BY <1>0, <2>2, WantKeeps
  <2>4. ScanInv'
    BY <1>0, <2>1, <2>3, FreshScan DEF ShoreWaits
  <2>5. QED
    BY <2>1, <2>4 DEF BleInv
<1>3. CASE SolarOpenFailed
  <2>1. /\ BleTypes' /\ ReadingHasLink' /\ UNCHANGED <<radio, refused, taskVars>>
        /\ state'["shore"] = state["shore"]
    BY <1>0, <1>1, <1>3 DEF SolarOpenFailed
  <2>2. CASE host' = host
    BY <1>0, <2>1, <2>2, ScanFrame DEF BleInv, taskVars
  <2>3. CASE host' = Want(host, "solar")
    <3>1. /\ Sound(host') /\ ScanComes(host') /\ host'.scanning = host.scanning
          /\ host'.want["shore"] = host.want["shore"] /\ host'.pending["shore"] = host.pending["shore"]
      BY <1>0, <2>3, WantKeeps
    <3>2. ShoreWaits(host', state'["shore"])
      BY <1>0, <2>1, <3>1 DEF ShoreWaits
    <3>3. ScanInv'
      BY <1>0, <2>1, <3>1, <3>2, FreshScan
    <3>4. QED
      BY <2>1, <3>3 DEF BleInv
  <2>4. QED
    BY <1>3, <2>2, <2>3 DEF SolarOpenFailed, SolarRestart
<1>4. QED
  BY <1>2, <1>3

\* A disconnect event, to whomever it concerns.
LEMMA DisconnectedStep ==
  ASSUME BleInv, NEW p \in Peers, Disconnected(p)
  PROVE  BleInv'
<1>0. /\ BleTypes /\ ScanInv /\ ReadingHasLink /\ Sound(host) /\ (host.scanning => radio)
      /\ "shore" \in Clients /\ "down" \in Links /\ ShoreWaits(host, state["shore"])
  BY BleAssumption DEF BleInv, ScanInv, Links
<1> DEFINE gone == {c \in Clients : Mine(c, p)}
<1>1. PICK opened \in BOOLEAN :
        /\ state' = [c \in Clients |-> IF c \in gone THEN RestartState(c, opened) ELSE state[c]]
        /\ link' = [c \in Clients |-> IF c = p THEN OpenLink(c, "down", opened) ELSE link[c]]
  BY DEF Disconnected
<1>2. /\ valid' = [c \in Clients |-> valid[c] /\ c \notin gone]
      /\ host' = RestartHost(host, gone) /\ UNCHANGED <<radio, refused, taskPc>>
  BY DEF Disconnected, Forget
<1>3. \A c \in Clients : c \in gone <=> c = p
  BY DEF Mine
<1> HIDE DEF gone
<1>4. BleTypes'
  <2>1. \A c \in Clients : RestartState(c, opened) \in States /\ OpenLink(c, "down", opened) \in Links
    BY <1>0, ClientTypes
  <2>2. QED
    BY <1>0, <1>1, <1>2, <2>1 DEF BleTypes
<1>5. ReadingHasLink'
  BY <1>0, <1>1, <1>2, <1>3 DEF ReadingHasLink
<1>6. /\ Sound(host') /\ (ScanComes(host') \/ host' = host) /\ host'.scanning = host.scanning
      /\ "shore" \in gone => host'.want["shore"]
      /\ "shore" \notin gone => /\ host'.want["shore"] = host.want["shore"]
                                /\ host'.pending["shore"] = host.pending["shore"]
  BY <1>0, <1>2, RestartKeeps
<1>7. ShoreWaits(host', state'["shore"])
  BY <1>0, <1>1, <1>6 DEF ShoreWaits
<1>8. ScanInv'
  <2>1. CASE ScanComes(host')
    BY <1>0, <1>2, <1>6, <1>7, <2>1, FreshScan
  <2>2. CASE host' = host
    BY <1>0, <1>2, <1>6, <1>7, <2>2 DEF ScanInv
  <2>3. QED
    BY <1>6, <2>1, <2>2
<1>9. QED
  BY <1>4, <1>5, <1>8 DEF BleInv

\* The solar task opens its address, or is about to ask for a scan.
LEMMA TaskRestartStep ==
  ASSUME BleInv, taskPc \in {"boot", "wait"}, NEW l \in Links, NEW slow \in BOOLEAN,
         TaskRestart(l, slow), UNCHANGED <<scanVars, valid>>,
         link["solar"] \in {"idle", "closing"} => l \in {"idle", "closing"}
  PROVE  BleInv'
<1>0. /\ BleTypes /\ ScanInv /\ ReadingHasLink
      /\ "shore" \in Clients \ {"solar"} /\ "solar" \in Clients
  BY BleAssumption DEF BleInv
<1>1. PICK opened \in BOOLEAN :
        /\ state' = [state EXCEPT !["solar"] = RestartState("solar", opened)]
        /\ link' = [link EXCEPT !["solar"] = OpenLink("solar", l, opened)]
  BY DEF TaskRestart
<1>2. RestartState("solar", opened) \in States /\ OpenLink("solar", l, opened) \in Links
  BY <1>0, ClientTypes
<1>3. /\ BleTypes'
      /\ \A d \in Clients \ {"solar"} : state'[d] = state[d] /\ link'[d] = link[d]
      /\ link'["solar"] = OpenLink("solar", l, opened)
  BY <1>0, <1>1, <1>2, OneClient
<1>4. ScanInv'
  BY <1>0, <1>3, ScanFrame DEF scanVars
<1>5. ReadingHasLink'
  BY <1>0, <1>3, ReadingFrame DEF OpenLink
<1>6. QED
  BY <1>3, <1>4, <1>5 DEF BleInv

\* The solar client's own task, in three steps.
LEMMA TaskStep ==
  ASSUME BleInv, SolarLinkTask
  PROVE  BleInv'
<1>0. /\ BleTypes /\ ScanInv /\ ReadingHasLink /\ Sound(host) /\ (host.scanning => radio)
      /\ "shore" \in Clients \ {"solar"} /\ "solar" \in Clients /\ link["solar"] \in Links
      /\ "closing" \in Links /\ ShoreWaits(host, state["shore"])
  BY BleAssumption DEF BleInv, ScanInv, BleTypes, Links
<1>1. CASE TaskBoots
  BY <1>0, <1>1, TaskRestartStep DEF TaskBoots
<1>2. CASE TaskWants \/ TaskClearsPending
  <2>1. taskPc' \in {"pend", "ensure"} /\ UNCHANGED <<radio, refused, linkVars>>
    BY <1>2 DEF TaskWants, TaskClearsPending
  <2>2. host \in HostType
    BY <1>0 DEF Sound
  <2>3. /\ host' \in HostType /\ host'.params = host.params /\ host'.cmds = host.cmds
        /\ host'.scanning = host.scanning
        /\ host'.want["shore"] = host.want["shore"] /\ host'.pending["shore"] = host.pending["shore"]
    <3>1. CASE host' = [host EXCEPT !.want["solar"] = TRUE]
      <4>1. [host.want EXCEPT !["solar"] = TRUE] \in [Clients -> BOOLEAN]
        BY <2>2 DEF HostType
      <4>2. /\ host' \in HostType /\ host'.want = [host.want EXCEPT !["solar"] = TRUE]
            /\ host'.pending = host.pending /\ host'.params = host.params
            /\ host'.cmds = host.cmds /\ host'.scanning = host.scanning
        BY <2>2, <3>1, <4>1 DEF HostType
      <4>3. host'.want["shore"] = host.want["shore"]
        BY <1>0, <2>2, <4>2 DEF HostType
      <4>4. QED
        BY <4>2, <4>3
    <3>2. CASE host' = [host EXCEPT !.pending["solar"] = FALSE]
      <4>1. [host.pending EXCEPT !["solar"] = FALSE] \in [Clients -> BOOLEAN]
        BY <2>2 DEF HostType
      <4>2. /\ host' \in HostType /\ host'.pending = [host.pending EXCEPT !["solar"] = FALSE]
            /\ host'.want = host.want /\ host'.params = host.params
            /\ host'.cmds = host.cmds /\ host'.scanning = host.scanning
        BY <2>2, <3>2, <4>1 DEF HostType
      <4>3. host'.pending["shore"] = host.pending["shore"]
        BY <1>0, <2>2, <4>2 DEF HostType
      <4>4. QED
        BY <4>2, <4>3
    <3>3. QED
      BY <1>2, <3>1, <3>2 DEF TaskWants, TaskClearsPending
  <2>4. ScanInv'
    BY <1>0, <2>1, <2>3 DEF ScanInv, Sound, ShoreWaits, linkVars
  <2>5. QED
    BY <1>0, <2>1, <2>4 DEF BleInv, BleTypes, ReadingHasLink, linkVars
<1>3. CASE TaskEnsures
  <2>1. host' = Ensure(host) /\ UNCHANGED <<radio, refused, linkVars>>
    BY <1>3 DEF TaskEnsures
  <2>2. /\ Sound(host') /\ ScanComes(host') /\ host'.want = host.want /\ host'.pending = host.pending
        /\ host'.scanning = host.scanning
    BY <1>0, <2>1, EnsureKeeps
  <2>3. ScanInv'
    BY <1>0, <2>1, <2>2, FreshScan DEF ShoreWaits, linkVars
  <2>4. QED
    BY <1>0, <2>1, <2>3 DEF BleInv, BleTypes, ReadingHasLink, linkVars
<1>4. CASE TickDown
  <2>1. taskPc = "wait" /\ UNCHANGED <<scanVars, valid>>
    BY <1>4 DEF TickDown
  <2>2. CASE TaskRestart(link["solar"], FALSE)
    BY <1>0, <2>1, <2>2, TaskRestartStep
  <2>3. CASE TaskRestart(CloseStalled(link["solar"]), link["solar"] # "stalled")
    <3> DEFINE l == CloseStalled(link["solar"])
    <3>1. /\ l \in Links
          /\ link["solar"] \in {"idle", "closing"} => l \in {"idle", "closing"}
      BY <1>0 DEF CloseStalled, Open
    <3>2. (link["solar"] # "stalled") \in BOOLEAN
      OBVIOUS
    <3>3. TaskRestart(l, link["solar"] # "stalled")
      BY <2>3
    <3> HIDE DEF l
    <3>4. QED
      BY <2>1, <3>1, <3>2, <3>3, TaskRestartStep
  <2>4. CASE UNCHANGED <<state, link, taskPc>>
    <3>1. ScanInv'
      BY <1>0, <2>1, <2>4, ScanFrame DEF scanVars
    <3>2. QED
      BY <1>0, <2>1, <2>4, <3>1 DEF BleInv, BleTypes, ReadingHasLink
  <2>5. QED
    BY <1>4, <2>2, <2>3, <2>4 DEF TickDown
<1>5. CASE TickReady
  <2>1. UNCHANGED <<scanVars, linkVars, taskPc>>
    BY <1>5 DEF TickReady
  <2>2. ScanInv'
    BY <1>0, <2>1, ScanFrame DEF scanVars, linkVars
  <2>3. QED
    BY <1>0, <2>1, <2>2 DEF BleInv, BleTypes, ReadingHasLink, linkVars
<1>6. QED
  BY <1>1, <1>2, <1>3, <1>4, <1>5 DEF SolarLinkTask

-----------------------------------------------------------------------------
(* The theorems *)

\* Everything starts unset, unwanted and unlinked.
LEMMA BleStart ==
  ASSUME BleInit
  PROVE  BleInv
<1>0. "shore" \in Clients
  BY BleAssumption
<1>1. BleTypes
  BY DEF BleInit, BleTypes, States, Links
<1>2. HostInit \in HostType
  <2>1. <<>> \in Seq(Commands) /\ [c \in Clients |-> FALSE] \in [Clients -> BOOLEAN]
    OBVIOUS
  <2>2. QED
    BY <2>1 DEF HostInit, HostType
<1>3. /\ host \in HostType /\ host.params = "unset" /\ host.scanning = FALSE
      /\ host.want = [c \in Clients |-> FALSE] /\ state["shore"] = "IDLE"
  BY <1>0, <1>2 DEF BleInit, HostInit
<1>4. ~ AnyoneWants(host) /\ ~ host.scanning
  BY <1>3, Zenon DEF AnyoneWants
<1>5. ScanInv
  BY <1>3, <1>4 DEF ScanInv, Sound, ShoreWaits
<1>6. ReadingHasLink
  BY DEF BleInit, ReadingHasLink
<1>7. QED
  BY <1>1, <1>5, <1>6 DEF BleInv

\* Every step keeps the invariant.
LEMMA BleStep ==
  ASSUME BleInv, [BleNext]_bleVars
  PROVE  BleInv'
<1>0. /\ BleTypes /\ ScanInv /\ ReadingHasLink /\ Sound(host) /\ (host.scanning => radio)
      /\ "shore" \in Clients /\ ShoreWaits(host, state["shore"])
  BY BleAssumption DEF BleInv, ScanInv
<1>1. ASSUME UNCHANGED linkVars, ScanInv' PROVE BleInv'
  BY <1>0, <1>1 DEF BleInv, BleTypes, ReadingHasLink, linkVars
<1>2. CASE ParamsDone
  BY <1>1, <1>2, ParamsStep DEF ParamsDone
<1>3. CASE StartDone
  BY <1>1, <1>3, StartStep DEF StartDone
<1>4. ASSUME NEW h, Sound(h), ShoreWaits(h, state["shore"]), Deliver(h), valid' = valid
      PROVE  BleInv'
  <2>1. /\ Sound(host') /\ ScanComes(host') /\ ~ host'.scanning /\ ShoreWaits(host', state'["shore"])
        /\ state' \in [Clients -> States] /\ link' \in [Clients -> Links]
        /\ \A c \in Clients : link[c] # "down" => link'[c] = link[c]
    BY <1>0, <1>4, DeliverStep
  <2>2. ScanInv'
    BY <2>1, FreshScan
  <2>3. ReadingHasLink'
    BY <1>0, <1>4, <2>1, ReadingFrame
  <2>4. BleTypes'
    BY <1>0, <1>4, <2>1 DEF BleTypes
  <2>5. QED
    BY <2>2, <2>3, <2>4 DEF BleInv
<1>5. CASE StopDone
  <2>1. Sound(Popped) /\ Popped.want = host.want /\ Popped.pending = host.pending
    BY <1>0, <1>5, PoppedIs DEF StopDone
  <2>2. ShoreWaits(Popped, state["shore"])
    BY <1>0, <2>1 DEF ShoreWaits
  <2>3. QED
    BY <1>4, <1>5, <2>1, <2>2 DEF StopDone
<1>6. CASE WindowEnds
  BY <1>0, <1>4, <1>6 DEF WindowEnds
<1>7. CASE ShoreStart
  <2>1. host' = Want(host, "shore") /\ UNCHANGED <<radio, link, valid>>
    BY <1>7 DEF ShoreStart
  <2>2. Sound(host') /\ ScanComes(host') /\ host'.want["shore"] /\ host'.scanning = host.scanning
    BY <1>0, <2>1, WantKeeps
  <2>3. ScanInv'
    BY <1>0, <2>1, <2>2, FreshScan DEF ShoreWaits
  <2>4. BleTypes'
    BY <1>0, <1>7, <2>1 DEF ShoreStart, BleTypes, States
  <2>5. QED
    BY <1>0, <2>1, <2>3, <2>4 DEF BleInv, ReadingHasLink
<1>8. CASE SolarLinkTask
  BY <1>8, TaskStep
<1>9. CASE ShoreGatt \/ SolarGatt
  BY <1>9, GattStep
<1>10. CASE ShoreOpenFailed \/ SolarOpenFailed
  BY <1>10, OpenFailedStep
<1>11. CASE ShoreNotified \/ SolarNotified
  <2>1. PICK c \in Clients : Reading(c)
    BY <1>11, BleAssumption DEF ShoreNotified, SolarNotified
  <2>2. /\ link[c] = "idle" /\ valid' = [valid EXCEPT ![c] = TRUE]
        /\ UNCHANGED <<scanVars, state, link, taskVars>>
    BY <2>1 DEF Reading
  <2>3. BleTypes'
    BY <1>0, <2>2 DEF BleTypes
  <2>4. ReadingHasLink'
    BY <1>0, <2>2 DEF BleTypes, ReadingHasLink
  <2>5. ScanInv'
    BY <1>0, <2>2, ScanFrame DEF scanVars, taskVars
  <2>6. QED
    BY <2>3, <2>4, <2>5 DEF BleInv
<1>12. ASSUME NEW c \in Clients, Advertise(c) PROVE BleInv'
  BY <1>1, <1>12, AdvertiseStep DEF Advertise
<1>13. ASSUME NEW p \in Peers, Disconnected(p) PROVE BleInv'
  BY <1>13, DisconnectedStep
<1>14. CASE UNCHANGED bleVars
  <2>1. ScanInv'
    BY <1>0, <1>14, ScanFrame DEF bleVars
  <2>2. QED
    BY <1>1, <1>14, <2>1 DEF bleVars, linkVars
<1>15. QED
  BY <1>2, <1>3, <1>5, <1>6, <1>7, <1>8, <1>9, <1>10, <1>11, <1>12, <1>13, <1>14
  DEF BleNext, ScanStep

LEMMA BleInvHolds == BleSpec => []BleInv
<1>1. BleInit => BleInv
  BY BleStart
<1>2. BleInv /\ [BleNext]_bleVars => BleInv'
  BY BleStep
<1>3. QED
  BY <1>1, <1>2, PTL DEF BleSpec

\* A client that waits for a scan is never left with nothing under way, however the callbacks of
\* the two clients interleave with each other and with the solar task (ble_host.c:102-142, 198-326).
THEOREM ScanKept == BleSpec => []WantedScanRuns
<1>1. BleInv => WantedScanRuns
  BY DEF BleInv, ScanInv, ShoreWaits, WantedScanRuns
<1>2. QED
  BY <1>1, BleInvHolds, PTL

\* A reading never outlives the link it came over (hughes_wd_client.c:357-364, renogy_solar_client.c:501-509).
THEOREM ReadingKept == BleSpec => []ReadingHasLink
<1>1. BleInv => ReadingHasLink
  BY DEF BleInv
<1>2. QED
  BY <1>1, BleInvHolds, PTL


-----------------------------------------------------------------------------
(* Induction along the naturals.  A handler that takes a notification byte *)
(* by byte is a function defined by recursion on the byte.                 *)

\* Numbers have a least one among them.
LEMMA LeastNat ==
  ASSUME NEW T, T \subseteq Nat, T # {}
  PROVE  \E x \in T : \A y \in T : x <= y
<1> DEFINE R == OpToRel(<, Nat)
<1>1. IsWellFoundedOn(R, Nat)
  BY NatLessThanWellFounded
<1>2. R = {ss \in Nat \X Nat : ss[1] < ss[2]}
  BY DEF OpToRel
<1> HIDE DEF R
<1>3. PICK x \in T : \A y \in T : ~(<<y, x>> \in R)
  BY <1>1, WFMin
<1>4. ASSUME NEW y \in T PROVE x <= y
  <2>1. x \in Nat /\ y \in Nat
    OBVIOUS
  <2>2. <<y, x>> \in Nat \X Nat
    BY <2>1
  <2>3. ~(<<y, x>> \in R)
    BY <1>3
  <2>4. ~(y < x)
    BY <1>2, <2>2, <2>3
  <2>5. QED
    BY <2>1, <2>4
<1>5. QED
  BY <1>4

\* A set of numbers that holds 0 and goes on as far as n holds them all.
LEMMA UpTo ==
  ASSUME NEW n \in Nat, NEW T, 0 \in T, \A k \in 1 .. n : k - 1 \in T => k \in T
  PROVE  0 .. n \subseteq T
<1> DEFINE Rest == (0 .. n) \ T
<1> SUFFICES ASSUME Rest # {} PROVE FALSE
  OBVIOUS
<1>1. Rest \subseteq Nat
  OBVIOUS
<1>2. PICK m \in Rest : \A y \in Rest : m <= y
  <2> HIDE DEF Rest
  <2>1. QED
    BY <1>1, LeastNat
<1>3. m \in 1 .. n /\ m \notin T
  BY <1>2
<1>4. m - 1 \in T
  BY <1>2, <1>3
<1>5. QED
  BY <1>3, <1>4

\* f iterates the functions of g, one after the other, from c on.
Iterates(f, n, S, c, g) ==
  f \in [0 .. n -> S] /\ f[0] = c /\ \A k \in 1 .. n : f[k] = g[k][f[k - 1]]

\* There is such a function.
LEMMA IterationExists ==
  ASSUME NEW n \in Nat, NEW S, NEW c \in S, NEW g \in [1 .. n -> [S -> S]]
  PROVE  \E f : Iterates(f, n, S, c, g)
<1> DEFINE Good == {m \in 0 .. n : \E f : Iterates(f, m, S, c, g)}
<1>1. 0 \in Good
  <2> DEFINE f == [k \in 0 .. 0 |-> c]
  <2>1. f \in [0 .. 0 -> S] /\ f[0] = c /\ \A k \in 1 .. 0 : f[k] = g[k][f[k - 1]]
    OBVIOUS
  <2>2. Iterates(f, 0, S, c, g)
    BY <2>1 DEF Iterates
  <2>3. QED
    BY <2>2
<1>2. ASSUME NEW m \in 1 .. n, m - 1 \in Good PROVE m \in Good
  <2>1. PICK f : Iterates(f, m - 1, S, c, g)
    BY <1>2
  <2>2. f \in [0 .. m - 1 -> S] /\ f[0] = c /\ \A k \in 1 .. m - 1 : f[k] = g[k][f[k - 1]]
    BY <2>1 DEF Iterates
  <2> DEFINE h == [k \in 0 .. m |-> IF k < m THEN f[k] ELSE g[m][f[m - 1]]]
  <2>3. f[m - 1] \in S
    BY <2>2
  <2>4. g[m][f[m - 1]] \in S
    BY <2>3
  <2>5. h \in [0 .. m -> S] /\ h[0] = c
    BY <2>2, <2>4
  <2>6. ASSUME NEW k \in 1 .. m PROVE h[k] = g[k][h[k - 1]]
    BY <2>2, <2>3
  <2>7. Iterates(h, m, S, c, g)
    <3> HIDE DEF h
    <3>1. QED
      BY <2>5, <2>6 DEF Iterates
  <2>8. QED
    BY <2>7
<1>3. n \in Good
  <2> HIDE DEF Good
  <2>1. 0 .. n \subseteq Good
    BY <1>1, <1>2, UpTo
  <2>2. QED
    BY <2>1
<1>4. QED
  BY <1>3

-----------------------------------------------------------------------------
(* The solar stream: renogy_solar_client.c *)

\* A response is stored whole.
LEMMA StoredIsOneStep ==
  ASSUME StoredIsOneResponse, [SolarNext]_pollVars
  PROVE  StoredIsOneResponse'
<1> USE DEF StoredIsOneResponse
<1>1. ASSUME NEW b, Parses(b), stored' = {b[k][1] : k \in 1 .. Units} PROVE StoredIsOneResponse'
  <2>1. PICK t \in 0 .. Tags - 1 : b = [k \in 1 .. Units |-> <<t, k>>]
    BY <1>1 DEF Parses
  <2>2. \A k \in 1 .. Units : b[k][1] = t
    BY <2>1
  <2>3. 1 \in 1 .. Units
    BY SolarAssumption
  <2>4. stored' = {t}
    BY <1>1, <2>2, <2>3
  <2>5. QED
    BY <2>4
<1>2. CASE Notify
  <2>1. PICK b : stored' = stored \/ (Parses(b) /\ stored' = {b[k][1] : k \in 1 .. Units})
    BY <1>2 DEF Notify
  <2>2. QED
    BY <1>1, <2>1
<1>3. CASE SolarTick \/ Rotate \/ SendPoll \/ Answer \/ Lose \/ LinkBack \/ UNCHANGED pollVars
  <2>1. stored' = stored
    BY <1>3 DEF SolarTick, Rotate, SendPoll, Answer, Lose, LinkBack, pollVars
  <2>2. QED
    BY <2>1
<1>4. CASE LinkLost
  BY <1>4 DEF LinkLost
<1>5. QED
  BY <1>2, <1>3, <1>4 DEF SolarNext, SolarTask, SolarAir

-----------------------------------------------------------------------------
(* The battery stream: jbd_bms_client.c *)

CleanBuffers == {s \in Seq(FrameBytes) : \A i \in 1 .. Len(s) : ~IsEnd(s[i])}

WholeReadings == {S \in SUBSET PackReadings : (\A m, n \in S : m = n) /\ S \cap EndInside = {}}

FeedStates == [buffer : CleanBuffers, got : WholeReadings]

Notifications == {r \in PackReadings \X (1 .. FrameLen) \X (1 .. FrameLen) : r[2] <= r[3]}

JbdInv ==
  /\ measures \in PackReadings /\ flying \in Seq(Notifications)
  /\ buffer \in CleanBuffers /\ status \in WholeReadings

\* A buffer that has been emptied holds no end byte.
LEMMA EmptyIsClean == <<>> \in CleanBuffers
BY EmptySeq DEF CleanBuffers

\* An end byte behind none ends a frame of one reading, or of none.
LEMMA ParsedIsWhole ==
  ASSUME NEW s \in CleanBuffers, NEW b \in FrameBytes
  PROVE  Parsed(Append(s, b)) \in WholeReadings
<1> DEFINE filled == Append(s, b)
<1>1. /\ FrameLen \in Nat /\ EndAt \in 2 .. FrameLen - 1 /\ Len(s) \in Nat /\ s \in Seq(FrameBytes)
  BY JbdStreamAssumption, LenProperties DEF CleanBuffers
<1>2. Len(filled) = Len(s) + 1 /\ \A i \in 1 .. Len(s) : filled[i] = s[i]
  BY <1>1, AppendProperties
<1> HIDE DEF filled
<1>3. ASSUME NEW m \in Parsed(filled) PROVE \A k \in 1 .. FrameLen - 1 : s[k] = <<m, k>>
  <2>1. Len(filled) >= FrameLen /\ \A k \in 1 .. FrameLen - 1 : filled[k] = <<m, k>>
    BY <1>3 DEF Parsed
  <2>2. \A k \in 1 .. FrameLen - 1 : k \in 1 .. Len(s)
    BY <1>1, <1>2, <2>1
  <2>3. QED
    BY <1>2, <2>1, <2>2
<1>4. ASSUME NEW m \in Parsed(filled), NEW n \in Parsed(filled) PROVE m = n
  <2>1. 1 \in 1 .. FrameLen - 1
    BY <1>1
  <2>2. <<m, 1>> = <<n, 1>>
    BY <1>3, <2>1
  <2>3. QED
    BY <2>2
<1>5. ASSUME NEW m \in Parsed(filled) PROVE m \notin EndInside
  <2>1. EndAt \in 1 .. FrameLen - 1
    BY <1>1
  <2>2. s[EndAt] = <<m, EndAt>>
    BY <1>3, <2>1
  <2>3. EndAt \in 1 .. Len(s)
    <3>1. Len(filled) >= FrameLen
      BY <1>5 DEF Parsed
    <3>2. QED
      BY <1>1, <1>2, <3>1
  <2>4. ~IsEnd(<<m, EndAt>>)
    BY <2>2, <2>3 DEF CleanBuffers
  <2>5. QED
    BY <2>4 DEF IsEnd
<1>6. Parsed(filled) \subseteq PackReadings
  BY DEF Parsed
<1>7. QED
  BY <1>4, <1>5, <1>6 DEF WholeReadings, filled

\* on_notify_data takes a byte.
LEMMA FedKeeps ==
  ASSUME NEW acc \in FeedStates, NEW b \in FrameBytes
  PROVE  Fed(acc, b) \subseteq FeedStates
<1> DEFINE filled == CASE acc.buffer = <<>> /\ ~IsStart(b) -> <<>>
                    [] Len(acc.buffer) = BufLen -> <<>>
                    [] OTHER -> Append(acc.buffer, b)
           out == IF Len(filled) = 0 \/ ~IsEnd(b) THEN [buffer |-> filled, got |-> acc.got]
                  ELSE [buffer |-> <<>>, got |-> IF Parsed(filled) = {} THEN acc.got ELSE Parsed(filled)]
<1>1. acc.buffer \in CleanBuffers /\ acc.got \in WholeReadings
  BY DEF FeedStates
<1>2. filled = <<>> \/ filled = Append(acc.buffer, b)
  OBVIOUS
<1>3. Fed(acc, b) = {out}
  BY DEF Fed
<1> HIDE DEF filled
<1>4. CASE filled = <<>>
  <2>1. Len(filled) = 0
    BY <1>4, EmptySeq
  <2>2. out \in FeedStates
    BY <1>1, <1>4, <2>1, EmptyIsClean DEF FeedStates
  <2>3. QED
    BY <1>3, <2>2
<1>5. CASE filled = Append(acc.buffer, b) /\ IsEnd(b)
  <2>1. Parsed(filled) \in WholeReadings
    BY <1>1, <1>5, ParsedIsWhole
  <2>2. acc.buffer \in Seq(FrameBytes)
    BY <1>1 DEF CleanBuffers
  <2>3. Len(filled) # 0
    BY <1>5, <2>2, AppendProperties, LenProperties
  <2>4. out = [buffer |-> <<>>, got |-> IF Parsed(filled) = {} THEN acc.got ELSE Parsed(filled)]
    BY <1>5, <2>3
  <2> HIDE DEF out
  <2>5. out \in FeedStates
    BY <1>1, <2>1, <2>4, EmptyIsClean DEF FeedStates
  <2>6. QED
    BY <1>3, <2>5 DEF out
<1>6. CASE filled = Append(acc.buffer, b) /\ ~IsEnd(b)
  <2>1. acc.buffer \in Seq(FrameBytes) /\ \A i \in 1 .. Len(acc.buffer) : ~IsEnd(acc.buffer[i])
    BY <1>1 DEF CleanBuffers
  <2>2. /\ filled \in Seq(FrameBytes) /\ Len(filled) = Len(acc.buffer) + 1
        /\ \A i \in 1 .. Len(acc.buffer) : filled[i] = acc.buffer[i]
        /\ filled[Len(acc.buffer) + 1] = b
    BY <1>6, <2>1, AppendProperties
  <2>3. \A i \in 1 .. Len(filled) : i \in 1 .. Len(acc.buffer) \/ i = Len(acc.buffer) + 1
    BY <2>1, <2>2, LenProperties
  <2>4. filled \in CleanBuffers
    BY <1>6, <2>1, <2>2, <2>3 DEF CleanBuffers
  <2>5. out = [buffer |-> filled, got |-> acc.got]
    BY <1>6
  <2> HIDE DEF out
  <2>6. out \in FeedStates
    BY <1>1, <2>4, <2>5 DEF FeedStates
  <2>7. QED
    BY <1>3, <2>6 DEF out
<1>7. QED
  BY <1>2, <1>4, <1>5, <1>6

\* The bytes of a notification, and the state after byte k of it, as FedAll() has it.
RunLen(run) == run[3] - run[2] + 1
Uncut(run, k, f) ==
  IF k = 0 THEN {[buffer |-> buffer, got |-> {}]}
  ELSE UNION {Fed(acc, <<run[1], run[2] + k - 1>>) : acc \in f[k - 1]}
AfterByte(run, cut, k, f) ==
  IF k = cut /\ k < RunLen(run)
  THEN {[acc EXCEPT !.buffer = <<>>] : acc \in Uncut(run, k, f)} ELSE Uncut(run, k, f)

\* A notification, as the recursion has it.
LEMMA FedAllIs ==
  ASSUME NEW run, NEW cut
  PROVE  FedAll(run, cut) =
           (CHOOSE f : f = [k \in 0 .. RunLen(run) |-> AfterByte(run, cut, k, f)])[RunLen(run)]
BY Zenon DEF FedAll, AfterByte, Uncut, RunLen

\* try_poll empties the buffer between two bytes.
LEMMA CutKeeps ==
  ASSUME NEW A, A \subseteq FeedStates
  PROVE  {[acc EXCEPT !.buffer = <<>>] : acc \in A} \subseteq FeedStates
BY EmptyIsClean DEF FeedStates

\* A whole notification: the recursion has a solution, and every round of it keeps the buffer
\* clean.
LEMMA FedAllKeeps ==
  ASSUME JbdInv, NEW run \in Notifications, NEW cut
  PROVE  FedAll(run, cut) \subseteq FeedStates
<1> DEFINE n == RunLen(run)
           S == SUBSET FeedStates
           c == AfterByte(run, cut, 0, <<>>)
           g == [k \in 1 .. n |-> [A \in S |-> AfterByte(run, cut, k, [j \in {k - 1} |-> A])]]
<1>1. /\ FrameLen \in Nat /\ run[1] \in PackReadings
      /\ run[2] \in 1 .. FrameLen /\ run[3] \in 1 .. FrameLen /\ run[2] <= run[3]
  BY JbdStreamAssumption DEF Notifications
<1>2. n \in Nat /\ \A k \in 1 .. n : <<run[1], run[2] + k - 1>> \in FrameBytes
  BY <1>1 DEF RunLen, FrameBytes
<1>3. [buffer |-> buffer, got |-> {}] \in FeedStates
  BY DEF JbdInv, FeedStates, WholeReadings
<1>4. c \in S
  <2>1. Uncut(run, 0, <<>>) \subseteq FeedStates
    BY <1>3 DEF Uncut
  <2>2. QED
    BY <2>1, CutKeeps DEF AfterByte
<1>5. ASSUME NEW f, NEW k \in 1 .. n, f[k - 1] \in S
      PROVE  AfterByte(run, cut, k, f) \in S
  <2>1. Uncut(run, k, f) = UNION {Fed(acc, <<run[1], run[2] + k - 1>>) : acc \in f[k - 1]}
    BY <1>2 DEF Uncut
  <2>2. \A acc \in f[k - 1] : Fed(acc, <<run[1], run[2] + k - 1>>) \subseteq FeedStates
    BY <1>2, <1>5, FedKeeps
  <2>3. Uncut(run, k, f) \subseteq FeedStates
    BY <2>1, <2>2
  <2>4. QED
    BY <2>3, CutKeeps DEF AfterByte
<1>6. \A f, h : \A k \in 1 .. n :
        f[k - 1] = h[k - 1] => AfterByte(run, cut, k, f) = AfterByte(run, cut, k, h)
  BY DEF AfterByte, Uncut
<1>7. \A k \in 1 .. n, A \in S : [j \in {k - 1} |-> A][k - 1] = A
  OBVIOUS
<1>8. g \in [1 .. n -> [S -> S]]
  BY <1>5, <1>7
<1>9. ASSUME NEW f, NEW k \in 1 .. n, f[k - 1] \in S
      PROVE  g[k][f[k - 1]] = AfterByte(run, cut, k, f)
  BY <1>6, <1>7, <1>9
<1> HIDE DEF n, S, c, g
<1>10. PICK f : f \in [0 .. n -> S] /\ f[0] = c /\ \A k \in 1 .. n : f[k] = g[k][f[k - 1]]
  <2>1. \E f : Iterates(f, n, S, c, g)
    BY <1>2, <1>4, <1>8, IterationExists
  <2>2. QED
    BY <2>1 DEF Iterates
<1>11. ASSUME NEW k \in 1 .. n
       PROVE  f[k] = AfterByte(run, cut, k, f)
  <2>1. f[k - 1] \in S
    BY <1>2, <1>10
  <2>2. g[k][f[k - 1]] = AfterByte(run, cut, k, f)
    BY <1>9, <2>1
  <2>3. QED
    BY <1>10, <2>2
<1>12. f[0] = AfterByte(run, cut, 0, f)
  BY <1>10 DEF c, AfterByte, Uncut
<1>13. f = [k \in 0 .. n |-> AfterByte(run, cut, k, f)]
  BY <1>2, <1>10, <1>11, <1>12
<1> DEFINE after == CHOOSE h : h = [k \in 0 .. n |-> AfterByte(run, cut, k, h)]
<1>14. after = [k \in 0 .. n |-> AfterByte(run, cut, k, after)]
  BY <1>13
<1> HIDE DEF after
<1> DEFINE Good == {k \in 0 .. n : after[k] \in S}
<1>15. 0 \in Good
  <2>1. after[0] = AfterByte(run, cut, 0, after)
    BY <1>2, <1>14
  <2>2. after[0] = c
    BY <2>1 DEF c, AfterByte, Uncut
  <2>3. QED
    BY <1>2, <1>4, <2>2
<1>16. ASSUME NEW k \in 1 .. n, k - 1 \in Good PROVE k \in Good
  <2>1. after[k] = AfterByte(run, cut, k, after)
    BY <1>2, <1>14
  <2>2. QED
    BY <1>2, <1>5, <1>16, <2>1
<1>17. after[n] \in S
  <2> HIDE DEF Good
  <2>1. 0 .. n \subseteq Good
    BY <1>2, <1>15, <1>16, UpTo
  <2>2. QED
    BY <1>2, <2>1 DEF Good
<1>18. QED
  BY <1>17, FedAllIs DEF after, n, S

\* Nothing is stored at the start.
LEMMA JbdInvInit == JbdStreamInit => JbdInv
BY EmptyIsClean, EmptySeq DEF JbdStreamInit, JbdInv, WholeReadings

\* The answer to a poll, behind what is on its way.
LEMMA AnswerIsTyped ==
  ASSUME NEW q \in Seq(Notifications), measures \in PackReadings
  PROVE  q \o <<<<measures, 1, Split>>, <<measures, Split + 1, FrameLen>>>> \in Seq(Notifications)
<1> DEFINE a == <<measures, 1, Split>>
           b == <<measures, Split + 1, FrameLen>>
<1>1. FrameLen \in Nat /\ Split \in 1 .. FrameLen - 1
  BY JbdStreamAssumption
<1>2. a \in Notifications /\ b \in Notifications
  BY <1>1 DEF Notifications
<1> HIDE DEF a, b
<1>3. <<a, b>> \in Seq(Notifications)
  BY <1>2
<1>4. QED
  BY <1>3, ConcatProperties DEF a, b

\* What was parsed last is stored.
LEMMA StoreKeeps ==
  ASSUME status \in WholeReadings, NEW acc \in FeedStates, StoreStatus(acc)
  PROVE  buffer' \in CleanBuffers /\ status' \in WholeReadings
BY DEF StoreStatus, FeedStates

\* Every step keeps the buffer clean and the reading whole.
LEMMA JbdInvStep == JbdInv /\ [JbdStreamNext]_jbdVars => JbdInv'
<1> SUFFICES ASSUME JbdInv, [JbdStreamNext]_jbdVars PROVE JbdInv'
  OBVIOUS
<1>0. /\ measures \in PackReadings /\ flying \in Seq(Notifications)
      /\ buffer \in CleanBuffers /\ status \in WholeReadings
  BY DEF JbdInv
<1>q. flying # <<>> => Head(flying) \in Notifications /\ Tail(flying) \in Seq(Notifications)
  BY <1>0, HeadTailProperties
<1>1. CASE JbdPoll
  <2>1. measures' = measures
    BY <1>1 DEF JbdPoll
  <2>2. CASE /\ buffer' = <<>>
             /\ flying' = flying \o <<<<measures, 1, Split>>, <<measures, Split + 1, FrameLen>>>>
             /\ UNCHANGED <<status, since>>
    <3>1. flying' \in Seq(Notifications)
      BY <1>0, <2>2, AnswerIsTyped
    <3>2. QED
      BY <1>0, <2>1, <2>2, <3>1, EmptyIsClean DEF JbdInv
  <2>3. ASSUME flying # <<>>, NEW cut \in 0 .. FrameLen,
               NEW acc \in FedAll(Head(flying), cut), StoreStatus(acc),
               flying' = Tail(flying) \o <<<<measures, 1, Split>>, <<measures, Split + 1, FrameLen>>>>
        PROVE  JbdInv'
    <3>1. acc \in FeedStates
      BY <1>q, <2>3, FedAllKeeps
    <3>2. buffer' \in CleanBuffers /\ status' \in WholeReadings
      BY <1>0, <2>3, <3>1, StoreKeeps
    <3>3. flying' \in Seq(Notifications)
      BY <1>0, <1>q, <2>3, AnswerIsTyped
    <3>4. QED
      BY <1>0, <2>1, <3>2, <3>3 DEF JbdInv
  <2>4. QED
    BY <1>1, <2>2, <2>3 DEF JbdPoll
<1>2. CASE JbdNotify
  <2>1. flying # <<>> /\ flying' = Tail(flying) /\ measures' = measures
    BY <1>2 DEF JbdNotify
  <2>2. PICK acc \in FedAll(Head(flying), FrameLen) : StoreStatus(acc)
    BY <1>2 DEF JbdNotify
  <2>3. acc \in FeedStates
    BY <1>q, <2>1, FedAllKeeps
  <2>4. buffer' \in CleanBuffers /\ status' \in WholeReadings
    BY <1>0, <2>2, <2>3, StoreKeeps
  <2>5. QED
    BY <1>0, <1>q, <2>1, <2>4 DEF JbdInv
<1>3. CASE JbdLose
  BY <1>0, <1>q, <1>3 DEF JbdLose, JbdInv
<1>4. CASE JbdTick
  BY <1>0, <1>4 DEF JbdTick, JbdInv
<1>5. CASE Measure
  BY <1>0, <1>5 DEF Measure, JbdInv
<1>6. CASE UNCHANGED jbdVars
  BY <1>0, <1>6 DEF jbdVars, JbdInv
<1>7. QED
  BY <1>1, <1>2, <1>3, <1>4, <1>5, <1>6 DEF JbdStreamNext

\* A whole reading has no end byte inside.
LEMMA JbdInvSafe == JbdInv => NoCutFrameStored
BY DEF JbdInv, NoCutFrameStored, WholeReadings

-----------------------------------------------------------------------------
(* The shore stream: hughes_wd_client.c *)

\* What the client may be collecting, and the packets it has seen.
ShoreAccs == [held : Seq(Bytes), done : Seq(Seq(Bytes))]

\* The state after byte k of a notification, as NotifyData() has it.
AfterShoreByte(bytes, k, f) ==
  IF k = 0 THEN {[held |-> held, done |-> <<>>]}
  ELSE UNION {Taken(acc, bytes[k]) : acc \in f[k - 1]}

\* A notification, as the recursion has it.
LEMMA NotifyDataIs ==
  ASSUME NEW bytes
  PROVE  NotifyData(bytes) =
           (CHOOSE f : f = [k \in 0 .. Chunk |-> AfterShoreByte(bytes, k, f)])[Chunk]
BY Zenon DEF NotifyData, AfterShoreByte

ByteTaken(acc, b) ==
  LET filled == Collected(acc.held, b) IN
  [held |-> IF Len(filled) < PacketLen THEN filled ELSE <<>>,
   done |-> IF Len(filled) < PacketLen THEN acc.done ELSE Append(acc.done, filled)]

\* There is one way to take a byte.
LEMMA TakenIs ==
  ASSUME NEW acc, NEW b
  PROVE  Taken(acc, b) = {ByteTaken(acc, b)}
BY DEF Taken, ByteTaken

\* What has been collected and seen stays made of bytes.
LEMMA TakenKeeps ==
  ASSUME NEW acc \in ShoreAccs, NEW b \in Bytes
  PROVE  ByteTaken(acc, b) \in ShoreAccs
<1>1. acc.held \in Seq(Bytes) /\ acc.done \in Seq(Seq(Bytes))
  BY DEF ShoreAccs
<1>2. Collected(acc.held, b) \in Seq(Bytes)
  <2>1. Append(acc.held, b) \in Seq(Bytes) /\ <<b>> \in Seq(Bytes) /\ <<>> \in Seq(Bytes)
    BY <1>1, AppendProperties, EmptySeq
  <2>2. QED
    BY <2>1 DEF Collected
<1> DEFINE filled == Collected(acc.held, b)
<1> HIDE DEF filled
<1>3. Append(acc.done, filled) \in Seq(Seq(Bytes))
  BY <1>1, <1>2, AppendProperties DEF filled
<1>4. [held |-> IF Len(filled) < PacketLen THEN filled ELSE <<>>,
       done |-> IF Len(filled) < PacketLen THEN acc.done ELSE Append(acc.done, filled)] \in ShoreAccs
  <2>1. <<>> \in Seq(Bytes)
    BY EmptySeq
  <2>2. QED
    BY <1>1, <1>2, <1>3, <2>1 DEF ShoreAccs, filled
<1>5. QED
  BY <1>4 DEF ByteTaken, filled

\* A notification is taken byte by byte: after[k] holds the one state after byte k.
LEMMA ByteByByte ==
  ASSUME held \in Seq(Bytes), NEW bytes \in [1 .. Chunk -> Bytes]
  PROVE  \E a : /\ NotifyData(bytes) = {a[Chunk]}
                /\ a \in [0 .. Chunk -> ShoreAccs]
                /\ a[0] = [held |-> held, done |-> <<>>]
                /\ \A k \in 1 .. Chunk : a[k] = ByteTaken(a[k - 1], bytes[k])
<1> DEFINE n == Chunk
           c == [held |-> held, done |-> <<>>]
           g == [k \in 1 .. n |-> [acc \in ShoreAccs |-> ByteTaken(acc, bytes[k])]]
<1>1. n \in Nat
  BY ShoreStreamAssumption
<1>2. c \in ShoreAccs
  BY EmptySeq DEF ShoreAccs
<1>3. g \in [1 .. n -> [ShoreAccs -> ShoreAccs]]
  BY TakenKeeps
<1>4. \A k \in 1 .. n, acc \in ShoreAccs : g[k][acc] = ByteTaken(acc, bytes[k])
  OBVIOUS
<1> HIDE DEF n, c, g
<1>5. PICK a : Iterates(a, n, ShoreAccs, c, g)
  BY <1>1, <1>2, <1>3, IterationExists
<1>6. /\ a \in [0 .. n -> ShoreAccs] /\ a[0] = c
      /\ \A k \in 1 .. n : a[k] = g[k][a[k - 1]]
  BY <1>5 DEF Iterates
<1>7. ASSUME NEW k \in 1 .. n PROVE a[k] = ByteTaken(a[k - 1], bytes[k])
  <2>1. a[k - 1] \in ShoreAccs
    BY <1>1, <1>6
  <2>2. QED
    BY <1>4, <1>6, <2>1
<1> DEFINE f == [k \in 0 .. n |-> {a[k]}]
<1>8. f = [k \in 0 .. n |-> AfterShoreByte(bytes, k, f)]
  <2>1. f[0] = AfterShoreByte(bytes, 0, f)
    BY <1>1, <1>6 DEF AfterShoreByte, c
  <2>2. ASSUME NEW k \in 1 .. n PROVE f[k] = AfterShoreByte(bytes, k, f)
    <3>1. k \in 0 .. n /\ k - 1 \in 0 .. n /\ k # 0
      BY <1>1
    <3>2. f[k] = {a[k]} /\ f[k - 1] = {a[k - 1]}
      BY <3>1
    <3>3. AfterShoreByte(bytes, k, f) = UNION {Taken(acc, bytes[k]) : acc \in f[k - 1]}
      BY <3>1 DEF AfterShoreByte
    <3> HIDE DEF f
    <3>4. AfterShoreByte(bytes, k, f) = Taken(a[k - 1], bytes[k])
      BY <3>2, <3>3
    <3>5. QED
      BY <1>7, <3>2, <3>4, TakenIs
  <2>3. \A k \in 0 .. n : f[k] = AfterShoreByte(bytes, k, f)
    BY <1>1, <2>1, <2>2
  <2>4. QED
    <3> DEFINE F(k) == AfterShoreByte(bytes, k, f)
    <3> HIDE DEF F
    <3>1. \A k \in 0 .. n : f[k] = F(k)
      BY <2>3 DEF F
    <3>2. f = [k \in 0 .. n |-> F(k)]
      BY <3>1
    <3>3. QED
      BY <3>2 DEF F
<1> DEFINE after == CHOOSE h : h = [k \in 0 .. n |-> AfterShoreByte(bytes, k, h)]
<1>9. after = [k \in 0 .. n |-> AfterShoreByte(bytes, k, after)]
  <2> HIDE DEF f
  <2>1. QED
    BY <1>8
<1> HIDE DEF after, f
<1> DEFINE Same == {k \in 0 .. n : after[k] = {a[k]}}
<1>10. 0 \in Same
  <2>1. after[0] = AfterShoreByte(bytes, 0, after)
    BY <1>1, <1>9
  <2>2. QED
    BY <1>1, <1>6, <2>1 DEF AfterShoreByte, c
<1>11. ASSUME NEW k \in 1 .. n, k - 1 \in Same PROVE k \in Same
  <2>1. k \in 0 .. n /\ k # 0
    BY <1>1
  <2>2. after[k] = UNION {Taken(acc, bytes[k]) : acc \in after[k - 1]}
    BY <1>9, <2>1 DEF AfterShoreByte
  <2>3. after[k] = Taken(a[k - 1], bytes[k])
    BY <1>11, <2>2
  <2>4. QED
    BY <1>7, <2>1, <2>3, TakenIs
<1>12. after[n] = {a[n]}
  <2> HIDE DEF Same
  <2>1. 0 .. n \subseteq Same
    BY <1>1, <1>10, <1>11, UpTo
  <2>2. QED
    BY <1>1, <2>1 DEF Same
<1>13. NotifyData(bytes) = {a[n]}
  BY <1>12, NotifyDataIs DEF after, n
<1>14. QED
  BY <1>6, <1>7, <1>13 DEF n, c

Of(s) == [line |-> s.line, turn |-> s.turn]
Prefix(p, k) == [i \in 1 .. k |-> <<p, i>>]
Sending == [line : Lines, turn : 0 .. Turns - 1, half : {1, 2}]

\* The lengths, as the arithmetic needs them.
LEMMA ShoreNumbers ==
  /\ Chunk \in Nat /\ Chunk > 3 /\ PacketLen = 2 * Chunk /\ PacketLen \in Nat
  /\ LineIdAt \in Nat /\ LineIdAt >= Chunk + 1 /\ LineIdAt <= PacketLen
  /\ Turns \in Nat /\ Turns > 1
BY ShoreStreamAssumption

\* Where the header bytes are.
LEMMA WireOf ==
  ASSUME NEW p, NEW k \in Nat
  PROVE  /\ k = 1 => Wire(<<p, k>>) = "HDR0"
         /\ k = 2 => Wire(<<p, k>>) = "HDR1"
         /\ k = 3 => Wire(<<p, k>>) = "HDR2"
         /\ k > 3 => Wire(<<p, k>>) \notin {"HDR1", "HDR2"}
<1> DEFINE b == <<p, k>>
<1>1. b[1] = p /\ b[2] = k
  OBVIOUS
<1> HIDE DEF b
<1>2. /\ k = 1 => Wire(b) = "HDR0"
      /\ k = 2 => Wire(b) = "HDR1"
      /\ k = 3 => Wire(b) = "HDR2"
      /\ k > 3 => Wire(b) \notin {"HDR1", "HDR2"}
  BY <1>1, ShoreNumbers DEF Wire
<1>3. QED
  BY <1>2 DEF b

\* A packet ends when it is as long as packets are.
LEMMA ByteTakenIs ==
  ASSUME NEW h, NEW d, NEW b, NEW filled, Collected(h, b) = filled
  PROVE  ByteTaken([held |-> h, done |-> d], b) =
           [held |-> IF Len(filled) < PacketLen THEN filled ELSE <<>>,
            done |-> IF Len(filled) < PacketLen THEN d ELSE Append(d, filled)]
BY DEF ByteTaken

\* A byte that does not contradict the header is collected.
LEMMA CollectedIs ==
  ASSUME NEW h, NEW b, Len(h) # 0, Len(h) = 1 => Wire(b) = "HDR1", Len(h) = 2 => Wire(b) = "HDR2"
  PROVE  Collected(h, b) = Append(h, b)
<1> DEFINE n == Len(h)
           w == Wire(b)
<1>1. /\ ~(n = 0 /\ w # "HDR0")
      /\ ~(n = 1 /\ w # "HDR1")
      /\ ~(n = 2 /\ w # "HDR2")
  OBVIOUS
<1>2. QED
  BY <1>1, Zenon DEF Collected

\* The beginning of a packet, byte by byte.
LEMMA PrefixGrows ==
  ASSUME NEW p \in PacketIds, NEW k \in 1 .. Chunk
  PROVE  /\ Prefix(p, k) \in Seq(Bytes) /\ Len(Prefix(p, k)) = k
         /\ k = 1 => Prefix(p, k) = <<<<p, 1>>>>
         /\ k > 1 => Prefix(p, k) = Append(Prefix(p, k - 1), <<p, k>>)
<1>1. k \in Nat /\ k >= 1 /\ \A i \in 1 .. k : <<p, i>> \in Bytes
  BY ShoreNumbers DEF Bytes
<1>2. /\ Prefix(p, k) \in Seq(Bytes) /\ Len(Prefix(p, k)) = k
      /\ \A i \in 1 .. k : Prefix(p, k)[i] = <<p, i>>
  BY <1>1 DEF Prefix
<1>3. ASSUME k = 1 PROVE Prefix(p, k) = <<<<p, 1>>>>
  <2> DEFINE b == <<p, 1>>
  <2>1. b \in Bytes
    BY <1>1
  <2> HIDE DEF b
  <2>2. <<b>> \in Seq(Bytes) /\ Len(<<b>>) = 1 /\ <<b>>[1] = b
    BY <2>1
  <2>3. Prefix(p, k)[1] = b
    BY <1>1, <1>2 DEF b
  <2>4. \A i \in 1 .. Len(Prefix(p, k)) : Prefix(p, k)[i] = <<b>>[i]
    BY <1>2, <1>3, <2>2, <2>3
  <2>5. QED
    BY <1>2, <1>3, <2>2, <2>4, SeqEqual DEF b
<1>4. ASSUME k > 1 PROVE Prefix(p, k) = Append(Prefix(p, k - 1), <<p, k>>)
  <2>1. /\ Prefix(p, k - 1) \in Seq(Bytes) /\ Len(Prefix(p, k - 1)) = k - 1
        /\ \A i \in 1 .. k - 1 : Prefix(p, k - 1)[i] = <<p, i>>
    BY <1>1, <1>4 DEF Prefix
  <2> DEFINE s == Prefix(p, k - 1)
             b == <<p, k>>
  <2>2. b \in Bytes
    BY <1>1
  <2> HIDE DEF s, b
  <2>3. s \in Seq(Bytes) /\ Len(s) = k - 1 /\ \A i \in 1 .. k - 1 : s[i] = <<p, i>>
    BY <2>1 DEF s
  <2> DEFINE u == Append(s, b)
             w == Prefix(p, k)
  <2>4. u \in Seq(Bytes) /\ Len(u) = k /\ u[k] = b /\ \A i \in 1 .. k - 1 : u[i] = s[i]
    BY <1>1, <2>2, <2>3, AppendProperties
  <2> HIDE DEF u, w
  <2>5. w \in Seq(Bytes) /\ Len(w) = k /\ \A i \in 1 .. k : w[i] = <<p, i>>
    BY <1>2 DEF w
  <2>6. ASSUME NEW i \in 1 .. k PROVE w[i] = u[i]
    <3>1. i \in 1 .. k - 1 \/ i = k
      BY <1>1
    <3>2. w[i] = <<p, i>>
      BY <2>5
    <3>3. i \in 1 .. k - 1 => u[i] = <<p, i>>
      BY <2>3, <2>4
    <3>4. i = k => u[i] = <<p, i>>
      BY <2>4 DEF b
    <3>5. QED
      BY <3>1, <3>2, <3>3, <3>4
  <2>7. w = u
    BY <2>4, <2>5, <2>6, SeqEqual
  <2>8. QED
    BY <2>7 DEF w, u, s, b
<1>5. QED
  BY <1>2, <1>3, <1>4

\* The bytes of a notification.
LEMMA HalfIsBytes ==
  ASSUME NEW s \in Sending
  PROVE  /\ Of(s) \in PacketIds
         /\ Half(s) \in [1 .. Chunk -> Bytes]
         /\ \A k \in 1 .. Chunk : Half(s)[k] = <<Of(s), IF s.half = 1 THEN k ELSE Chunk + k>>
<1>1. Of(s) \in PacketIds /\ s.half \in {1, 2}
  BY DEF Sending, Of, PacketIds
<1>2. \A k \in 1 .. Chunk : (s.half - 1) * Chunk + k = IF s.half = 1 THEN k ELSE Chunk + k
  BY <1>1, ShoreNumbers
<1>3. \A k \in 1 .. Chunk : Half(s)[k] = <<Of(s), IF s.half = 1 THEN k ELSE Chunk + k>>
  BY <1>2 DEF Half, Of
<1>4. \A k \in 1 .. Chunk : Half(s)[k] \in Bytes
  <2> TAKE k \in 1 .. Chunk
  <2> DEFINE n == IF s.half = 1 THEN k ELSE Chunk + k
  <2>1. n \in 1 .. PacketLen
    BY ShoreNumbers
  <2> HIDE DEF n
  <2>2. <<Of(s), n>> \in Bytes
    BY <1>1, <2>1 DEF Bytes
  <2>3. QED
    BY <1>3, <2>2 DEF n
<1>5. Half(s) = [k \in 1 .. Chunk |-> Half(s)[k]]
  BY DEF Half
<1>6. QED
  BY <1>1, <1>3, <1>4, <1>5

\* A first half on an empty buffer, or on one byte of no packet, is kept.
LEMMA HeadIsKept ==
  ASSUME NEW s \in Sending, s.half = 1, held \in Seq(Bytes), Len(held) <= 1
  PROVE  NotifyData(Half(s)) = {[held |-> Prefix(Of(s), Chunk), done |-> <<>>]}
<1> DEFINE p == Of(s)
<1>1. /\ p \in PacketIds /\ Half(s) \in [1 .. Chunk -> Bytes]
      /\ \A k \in 1 .. Chunk : Half(s)[k] = <<p, k>>
  BY HalfIsBytes
<1> HIDE DEF p
<1>2. PICK a : /\ NotifyData(Half(s)) = {a[Chunk]}
               /\ a \in [0 .. Chunk -> ShoreAccs]
               /\ a[0] = [held |-> held, done |-> <<>>]
               /\ \A k \in 1 .. Chunk : a[k] = ByteTaken(a[k - 1], Half(s)[k])
  BY <1>1, ByteByByte
<1> DEFINE Kept == {k \in 0 .. Chunk : k >= 1 => a[k] = [held |-> Prefix(p, k), done |-> <<>>]}
<1>3. 0 \in Kept
  BY ShoreNumbers
<1>4. ASSUME NEW k \in 1 .. Chunk, k - 1 \in Kept PROVE k \in Kept
  <2> DEFINE b == <<p, k>>
             h == IF k = 1 THEN held ELSE Prefix(p, k - 1)
  <2>1. a[k - 1] = [held |-> h, done |-> <<>>]
    BY <1>2, <1>4, ShoreNumbers
  <2>2. a[k] = ByteTaken([held |-> h, done |-> <<>>], b)
    BY <1>1, <1>2, <2>1
  <2>3. Collected(h, b) = Prefix(p, k)
    <3>1. CASE k = 1
      <4>1. Wire(b) = "HDR0"
        BY <3>1, WireOf
      <4>2. Len(held) \in {0, 1}
        OBVIOUS
      <4>3. Len(held) = 1 => Collected(held, b) = <<b>>
        BY <4>1 DEF Collected
      <4>4. Len(held) = 0 => Collected(held, b) = Append(<<>>, b)
        BY <4>1, EmptySeq DEF Collected
      <4>5. Append(<<>>, b) = <<b>>
        OBVIOUS
      <4>6. Prefix(p, k) = <<b>>
        BY <1>1, <3>1, PrefixGrows
      <4>7. QED
        BY <3>1, <4>2, <4>3, <4>4, <4>5, <4>6
    <3>2. CASE k > 1
      <4>1. k - 1 \in 1 .. Chunk
        BY <3>2, ShoreNumbers
      <4>2. h = Prefix(p, k - 1) /\ Len(h) = k - 1 /\ k \in Nat
        BY <1>1, <3>2, <4>1, PrefixGrows, ShoreNumbers
      <4>3. (k = 2 => Wire(b) = "HDR1") /\ (k = 3 => Wire(b) = "HDR2")
        BY <4>2, WireOf
      <4> HIDE DEF b, h
      <4>4. Collected(h, b) = Append(h, b)
        <5>1. /\ Len(h) # 0
              /\ Len(h) = 1 => k = 2
              /\ Len(h) = 2 => k = 3
          <6> DEFINE n == Len(h)
          <6> HIDE DEF n
          <6>1. n = k - 1 /\ k \in Nat /\ k > 1
            BY <3>2, <4>2 DEF n
          <6>2. n # 0 /\ (n = 1 => k = 2) /\ (n = 2 => k = 3)
            BY <6>1
          <6>3. QED
            BY <6>2 DEF n
        <5>2. QED
          BY <4>3, <5>1, CollectedIs
      <4>5. Prefix(p, k) = Append(h, b)
        BY <1>1, <3>2, <4>2, PrefixGrows DEF b
      <4>6. QED
        BY <4>4, <4>5
    <3>3. QED
      BY <3>1, <3>2, ShoreNumbers
  <2>4. Len(Prefix(p, k)) < PacketLen
    BY <1>1, PrefixGrows, ShoreNumbers
  <2> HIDE DEF b, h
  <2>5. a[k] = [held |-> Prefix(p, k), done |-> <<>>]
    BY <2>2, <2>3, <2>4 DEF ByteTaken
  <2>6. QED
    BY <2>5, ShoreNumbers
<1>5. Chunk \in Kept
  <2> HIDE DEF Kept
  <2>1. QED
    BY <1>3, <1>4, UpTo, ShoreNumbers
<1>6. QED
  BY <1>2, <1>5, ShoreNumbers DEF p

\* A second half that finds no first half is dropped, but for a byte at most.
LEMMA TailIsDropped ==
  ASSUME NEW s \in Sending, s.half = 2, held \in Seq(Bytes), Len(held) <= 1
  PROVE  \E h \in Seq(Bytes) : Len(h) <= 1 /\ NotifyData(Half(s)) = {[held |-> h, done |-> <<>>]}
<1> DEFINE p == Of(s)
<1>1. /\ p \in PacketIds /\ Half(s) \in [1 .. Chunk -> Bytes]
      /\ \A k \in 1 .. Chunk : Half(s)[k] = <<p, Chunk + k>>
  BY HalfIsBytes
<1> HIDE DEF p
<1>2. PICK a : /\ NotifyData(Half(s)) = {a[Chunk]}
               /\ a \in [0 .. Chunk -> ShoreAccs]
               /\ a[0] = [held |-> held, done |-> <<>>]
               /\ \A k \in 1 .. Chunk : a[k] = ByteTaken(a[k - 1], Half(s)[k])
  BY <1>1, ByteByByte
<1> DEFINE Dropped == {k \in 0 .. Chunk : Len(a[k].held) <= 1 /\ a[k].done = <<>>}
<1>3. 0 \in Dropped
  BY <1>2, ShoreNumbers
<1>4. ASSUME NEW k \in 1 .. Chunk, k - 1 \in Dropped PROVE k \in Dropped
  <2> DEFINE b == <<p, Chunk + k>>
             h == a[k - 1].held
             filled == Collected(h, b)
  <2>1. a[k - 1] \in ShoreAccs
    BY <1>2, ShoreNumbers
  <2>2. h \in Seq(Bytes) /\ Len(h) \in {0, 1} /\ a[k - 1].done = <<>>
    <3>1. h \in Seq(Bytes)
      BY <2>1 DEF ShoreAccs
    <3>2. Len(h) <= 1 /\ a[k - 1].done = <<>>
      BY <1>4
    <3>3. Len(h) \in Nat
      BY <3>1, LenProperties
    <3> DEFINE n == Len(h)
    <3> HIDE DEF h, n
    <3>4. n \in Nat /\ n <= 1
      BY <3>2, <3>3 DEF n
    <3>5. n \in {0, 1}
      BY <3>4
    <3>6. QED
      BY <3>1, <3>2, <3>5 DEF n
  <2>3. Wire(b) \notin {"HDR1", "HDR2"}
    BY WireOf, ShoreNumbers
  <2>4. b \in Bytes
    BY <1>1, ShoreNumbers DEF Bytes
  <2> HIDE DEF b, h
  <2>5. Len(filled) <= 1
    <3>1. Len(<<b>>) = 1 /\ Len(<<>>) = 0
      OBVIOUS
    <3>2. Len(Append(h, b)) = Len(h) + 1
      BY <2>2, <2>4, AppendProperties
    <3>3. CASE Len(h) = 0
      BY <3>1, <3>2, <3>3 DEF Collected
    <3>4. CASE Len(h) = 1
      BY <2>3, <3>1, <3>4 DEF Collected
    <3>5. QED
      BY <2>2, <3>3, <3>4
  <2>6. a[k] = ByteTaken(a[k - 1], b)
    BY <1>1, <1>2 DEF b
  <2> HIDE DEF filled
  <2>7. a[k] = [held |-> filled, done |-> <<>>]
    <3>1. Len(filled) < PacketLen
      <4>1. filled \in Seq(Bytes)
        <5>1. Append(h, b) \in Seq(Bytes) /\ <<b>> \in Seq(Bytes) /\ <<>> \in Seq(Bytes)
          BY <2>2, <2>4, AppendProperties, EmptySeq
        <5>2. QED
          BY <5>1 DEF filled, Collected
      <4>2. QED
        BY <2>5, <4>1, LenProperties, ShoreNumbers
    <3>2. QED
      BY <2>2, <2>6, <3>1 DEF ByteTaken, filled, h
  <2>8. QED
    BY <2>5, <2>7, ShoreNumbers
<1>5. Chunk \in Dropped
  <2> HIDE DEF Dropped
  <2>1. QED
    BY <1>3, <1>4, UpTo, ShoreNumbers
<1>6. a[Chunk] \in ShoreAccs
  BY <1>2, ShoreNumbers
<1>7. a[Chunk] = [held |-> a[Chunk].held, done |-> <<>>] /\ a[Chunk].held \in Seq(Bytes)
  BY <1>5, <1>6 DEF ShoreAccs
<1>8. QED
  BY <1>2, <1>5, <1>7

\* A notification behind a first half fills the packet, whosever bytes they are.
LEMMA HalvesAreJoined ==
  ASSUME NEW q \in PacketIds, held = Prefix(q, Chunk), NEW bytes \in [1 .. Chunk -> Bytes]
  PROVE  LET w == [i \in 1 .. PacketLen |-> IF i <= Chunk THEN <<q, i>> ELSE bytes[i - Chunk]]
         IN  NotifyData(bytes) = {[held |-> <<>>, done |-> <<w>>]}
<1> DEFINE Mix(k) == [i \in 1 .. Chunk + k |-> IF i <= Chunk THEN <<q, i>> ELSE bytes[i - Chunk]]
<1>0. Chunk \in 1 .. Chunk
  BY ShoreNumbers
<1>1. held \in Seq(Bytes) /\ Len(held) = Chunk
  BY <1>0, PrefixGrows
<1>2. PICK a : /\ NotifyData(bytes) = {a[Chunk]}
               /\ a \in [0 .. Chunk -> ShoreAccs]
               /\ a[0] = [held |-> held, done |-> <<>>]
               /\ \A k \in 1 .. Chunk : a[k] = ByteTaken(a[k - 1], bytes[k])
  BY <1>1, ByteByByte
<1>3. ASSUME NEW k \in 0 .. Chunk
      PROVE  /\ Mix(k) \in Seq(Bytes) /\ Len(Mix(k)) = Chunk + k
             /\ \A i \in 1 .. Chunk + k :
                  Mix(k)[i] = IF i <= Chunk THEN <<q, i>> ELSE bytes[i - Chunk]
  <2>1. \A i \in 1 .. Chunk + k : (IF i <= Chunk THEN <<q, i>> ELSE bytes[i - Chunk]) \in Bytes
    <3>1. ASSUME NEW i \in 1 .. Chunk + k, i <= Chunk PROVE <<q, i>> \in Bytes
      BY <3>1, ShoreNumbers DEF Bytes
    <3>2. ASSUME NEW i \in 1 .. Chunk + k, ~(i <= Chunk) PROVE bytes[i - Chunk] \in Bytes
      BY <3>2, ShoreNumbers
    <3>3. QED
      BY <3>1, <3>2
  <2>2. Chunk + k \in Nat
    BY ShoreNumbers
  <2>3. Mix(k) \in [1 .. Chunk + k -> Bytes]
    BY <2>1
  <2>4. Mix(k) \in Seq(Bytes) /\ Len(Mix(k)) = Chunk + k
    <3> HIDE DEF Mix
    <3>1. QED
      BY <2>2, <2>3
  <2>5. QED
    BY <2>4
<1>4. Mix(0) = held
  <2>1. /\ Mix(0) \in Seq(Bytes) /\ Len(Mix(0)) = Chunk
        /\ \A i \in 1 .. Chunk : Mix(0)[i] = <<q, i>>
    BY <1>3, ShoreNumbers
  <2> HIDE DEF Mix
  <2>2. \A i \in 1 .. Chunk : held[i] = <<q, i>>
    BY DEF Prefix
  <2>3. QED
    BY <1>1, <2>1, <2>2, SeqEqual
<1>5. ASSUME NEW k \in 1 .. Chunk
      PROVE  Append(Mix(k - 1), bytes[k]) = Mix(k)
  <2>1. k - 1 \in 0 .. Chunk /\ k \in 0 .. Chunk /\ bytes[k] \in Bytes
    BY ShoreNumbers
  <2>2. /\ Mix(k - 1) \in Seq(Bytes) /\ Len(Mix(k - 1)) = Chunk + (k - 1)
        /\ \A i \in 1 .. Chunk + (k - 1) :
             Mix(k - 1)[i] = IF i <= Chunk THEN <<q, i>> ELSE bytes[i - Chunk]
    BY <1>3, <2>1
  <2>3. /\ Mix(k) \in Seq(Bytes) /\ Len(Mix(k)) = Chunk + k
        /\ \A i \in 1 .. Chunk + k :
             Mix(k)[i] = IF i <= Chunk THEN <<q, i>> ELSE bytes[i - Chunk]
    BY <1>3, <2>1
  <2> DEFINE s == Mix(k - 1)
             t == Mix(k)
             b == bytes[k]
  <2> HIDE DEF Mix, s, t, b
  <2>4. s \in Seq(Bytes) /\ Len(s) = Chunk + (k - 1) /\ b \in Bytes
    BY <2>1, <2>2 DEF s, b
  <2>5. /\ Append(s, b) \in Seq(Bytes) /\ Len(Append(s, b)) = Len(s) + 1
        /\ \A i \in 1 .. Len(s) : Append(s, b)[i] = s[i]
        /\ Append(s, b)[Len(s) + 1] = b
    BY <2>4, AppendProperties
  <2> DEFINE u == Append(s, b)
  <2>6. u \in Seq(Bytes) /\ Len(u) = Chunk + k
    BY <2>1, <2>4, <2>5, ShoreNumbers
  <2> HIDE DEF u
  <2>7. t \in Seq(Bytes) /\ Len(t) = Chunk + k
    BY <2>3 DEF t
  <2>8. ASSUME NEW i \in 1 .. Chunk + k PROVE t[i] = u[i]
    <3>1. t[i] = IF i <= Chunk THEN <<q, i>> ELSE bytes[i - Chunk]
      BY <2>3 DEF t
    <3>2. CASE i \in 1 .. Chunk + (k - 1)
      <4>1. s[i] = IF i <= Chunk THEN <<q, i>> ELSE bytes[i - Chunk]
        BY <2>2, <3>2 DEF s
      <4>2. u[i] = s[i]
        BY <2>4, <2>5, <3>2 DEF u
      <4>3. QED
        BY <3>1, <4>1, <4>2
    <3>3. CASE i = Chunk + k
      <4>1. ~(i <= Chunk) /\ i - Chunk = k /\ i = (Chunk + (k - 1)) + 1
        BY <2>1, <3>3, ShoreNumbers
      <4>2. t[i] = b
        BY <3>1, <4>1 DEF b
      <4>3. u[i] = b
        BY <2>4, <2>5, <4>1 DEF u
      <4>4. QED
        BY <4>2, <4>3
    <3>4. QED
      BY <2>1, <3>2, <3>3, ShoreNumbers
  <2>9. t = u
    BY <2>6, <2>7, <2>8, SeqEqual
  <2>10. QED
    BY <2>9 DEF s, t, b, u
<1> DEFINE Joint == {k \in 0 .. Chunk :
              a[k] = IF k < Chunk THEN [held |-> Mix(k), done |-> <<>>]
                     ELSE [held |-> <<>>, done |-> <<Mix(Chunk)>>]}
<1>6. 0 \in Joint
  BY <1>2, <1>4, ShoreNumbers
<1>7. ASSUME NEW k \in 1 .. Chunk, k - 1 \in Joint PROVE k \in Joint
  <2>1. /\ k - 1 \in 0 .. Chunk /\ k \in 0 .. Chunk /\ k - 1 < Chunk
        /\ Len(Mix(k - 1)) = Chunk + (k - 1) /\ Len(Mix(k)) = Chunk + k
    BY <1>3, ShoreNumbers
  <2>2. Append(Mix(k - 1), bytes[k]) = Mix(k)
    BY <1>5
  <2> HIDE DEF Mix
  <2>3. a[k - 1] = [held |-> Mix(k - 1), done |-> <<>>]
    BY <1>7, <2>1
  <2>4. Collected(Mix(k - 1), bytes[k]) = Mix(k)
    <3>1. Len(Mix(k - 1)) # 0 /\ Len(Mix(k - 1)) # 1 /\ Len(Mix(k - 1)) # 2
      <4> DEFINE n == Len(Mix(k - 1))
      <4> HIDE DEF n
      <4>1. n = Chunk + (k - 1) /\ k \in Nat /\ k >= 1
        BY <2>1, ShoreNumbers DEF n
      <4>2. n # 0 /\ n # 1 /\ n # 2
        BY <4>1, ShoreNumbers
      <4>3. QED
        BY <4>2 DEF n
    <3>2. Collected(Mix(k - 1), bytes[k]) = Append(Mix(k - 1), bytes[k])
      BY <3>1, CollectedIs
    <3>3. QED
      BY <2>2, <3>2
  <2>5. a[k] = [held |-> IF Len(Mix(k)) < PacketLen THEN Mix(k) ELSE <<>>,
                done |-> IF Len(Mix(k)) < PacketLen THEN <<>> ELSE Append(<<>>, Mix(k))]
    <3> DEFINE filled == Mix(k)
               h == Mix(k - 1)
               b == bytes[k]
    <3>1. a[k] = ByteTaken([held |-> h, done |-> <<>>], b)
      BY <1>2, <2>3
    <3> HIDE DEF filled, h, b
    <3>2. Collected(h, b) = filled
      BY <2>4 DEF filled, h, b
    <3>3. ByteTaken([held |-> h, done |-> <<>>], b) =
            [held |-> IF Len(filled) < PacketLen THEN filled ELSE <<>>,
             done |-> IF Len(filled) < PacketLen THEN <<>> ELSE Append(<<>>, filled)]
      BY <3>2, ByteTakenIs
    <3>4. QED
      BY <3>1, <3>3 DEF filled
  <2>6. Len(Mix(k)) < PacketLen <=> k < Chunk
    BY <2>1, ShoreNumbers
  <2>7. Append(<<>>, Mix(k)) = <<Mix(k)>>
    OBVIOUS
  <2>8. ~(k < Chunk) => k = Chunk
    BY ShoreNumbers
  <2>9. QED
    BY <2>1, <2>5, <2>6, <2>7, <2>8
<1>8. a[Chunk] = [held |-> <<>>, done |-> <<Mix(Chunk)>>]
  <2> HIDE DEF Mix
  <2>1. Chunk \in Joint
    <3> HIDE DEF Joint
    <3>1. QED
      BY <1>6, <1>7, UpTo, ShoreNumbers
  <2>2. QED
    BY <2>1, ShoreNumbers
<1>9. Chunk + Chunk = PacketLen
  BY ShoreNumbers
<1>10. QED
  BY <1>2, <1>8, <1>9

ShoreInPhase == Len(held) <= 1 \/ (sending.half = 2 /\ held = Prefix(Of(sending), Chunk))

ShoreInv ==
  /\ sending \in Sending /\ held \in Seq(Bytes)
  /\ Len(held) <= 1 \/ \E q \in PacketIds : held = Prefix(q, Chunk)
  /\ lost \in Nat /\ stitched \in Nat /\ intact \in 0 .. 2
  /\ stitched <= lost /\ (~ShoreInPhase => stitched < lost)
  /\ intact > 0 => ShoreInPhase

\* A second half follows the first of the same packet.
LEMMA NextHalfIs ==
  ASSUME NEW s \in Sending
  PROVE  /\ NextHalf(s) \in Sending
         /\ s.half = 1 => NextHalf(s).half = 2 /\ Of(NextHalf(s)) = Of(s)
<1>1. s.line \in {1, 2} /\ s.turn \in 0 .. Turns - 1 /\ s.half \in {1, 2}
  BY DEF Sending, Lines
<1>2. (s.turn + 1) % Turns \in 0 .. Turns - 1 /\ 0 \in 0 .. Turns - 1
  BY <1>1, ShoreNumbers
<1>3. CASE s.half = 1
  <2>1. NextHalf(s) = [s EXCEPT !.half = 2]
    BY <1>3 DEF NextHalf
  <2>2. QED
    BY <1>3, <2>1 DEF Sending, Of
<1>4. CASE s.half = 2 /\ s.line = 1
  <2>1. NextHalf(s) = [s EXCEPT !.line = 2, !.half = 1]
    BY <1>4 DEF NextHalf
  <2>2. QED
    BY <1>4, <2>1 DEF Sending, Lines
<1>5. CASE s.half = 2 /\ s.line = 2
  <2>1. NextHalf(s) = [line |-> 1, turn |-> (s.turn + 1) % Turns, half |-> 1]
    BY <1>5 DEF NextHalf
  <2>2. QED
    BY <1>2, <1>5, <2>1 DEF Sending, Lines
<1>6. QED
  BY <1>1, <1>3, <1>4, <1>5

\* The client starts with nothing collected and nothing lost.
LEMMA ShoreInvInit == ShoreStreamInit => ShoreInv
<1> SUFFICES ASSUME ShoreStreamInit PROVE ShoreInv
  OBVIOUS
<1>1. sending \in Sending
  BY ShoreNumbers DEF ShoreStreamInit, Sending, Lines
<1>2. held \in Seq(Bytes) /\ Len(held) = 0
  BY EmptySeq DEF ShoreStreamInit
<1>3. QED
  BY <1>1, <1>2 DEF ShoreStreamInit, ShoreInv, ShoreInPhase

Misread(packets) == Cardinality({i \in 1 .. Len(packets) : ~OnePacket(packets[i])})

\* No packet, none misread.
LEMMA NoneIsMisread == Misread(<<>>) = 0
<1>1. {i \in 1 .. Len(<<>>) : ~OnePacket(<<>>[i])} = {}
  OBVIOUS
<1>2. QED
  BY <1>1, FS_EmptySet DEF Misread

\* Of one packet it counts whether it was stitched.
LEMMA OneIsMisread ==
  ASSUME NEW w
  PROVE  Misread(<<w>>) = IF OnePacket(w) THEN 0 ELSE 1
<1> DEFINE ww == <<w>>
<1>1. Len(ww) = 1 /\ ww[1] = w
  OBVIOUS
<1> HIDE DEF ww
<1>2. 1 .. Len(ww) = {1}
  BY <1>1
<1>3. {i \in 1 .. Len(ww) : ~OnePacket(ww[i])} = IF OnePacket(w) THEN {} ELSE {1}
  BY <1>1, <1>2
<1>4. Cardinality({}) = 0 /\ Cardinality({1}) = 1
  BY FS_EmptySet, FS_Singleton
<1>5. QED
  BY <1>3, <1>4 DEF ww, Misread

\* A notification arrives: in phase it completes its own packet, out of phase a loss is paid for.
LEMMA ShoreNotifyStep ==
  ASSUME ShoreInv, ShoreNotify
  PROVE  ShoreInv'
<1>1. /\ sending \in Sending /\ held \in Seq(Bytes)
      /\ Len(held) <= 1 \/ \E q \in PacketIds : held = Prefix(q, Chunk)
      /\ lost \in Nat /\ stitched \in Nat /\ intact \in 0 .. 2
      /\ stitched <= lost /\ (~ShoreInPhase => stitched < lost)
  BY DEF ShoreInv
<1>2. /\ sending' = NextHalf(sending) /\ lost' = lost
      /\ intact' = IF sending.half = 2 /\ intact < 2 THEN intact + 1 ELSE intact
  BY DEF ShoreNotify
<1>3. PICK r \in NotifyData(Half(sending)) :
        /\ held' = r.held
        /\ stitched' = stitched + Misread(r.done)
  BY DEF ShoreNotify, Misread
<1>4. sending' \in Sending /\ intact' \in 0 .. 2 /\ sending.half \in {1, 2}
  BY <1>1, <1>2, NextHalfIs DEF Sending
<1>5. CASE Len(held) <= 1 /\ sending.half = 1
  <2>1. r = [held |-> Prefix(Of(sending), Chunk), done |-> <<>>]
    BY <1>1, <1>3, <1>5, HeadIsKept
  <2>2. held' = Prefix(Of(sending), Chunk) /\ r.done = <<>>
    BY <1>3, <2>1
  <2>3. stitched' = stitched
    BY <1>1, <1>3, <2>2, NoneIsMisread
  <2>4. sending'.half = 2 /\ Of(sending') = Of(sending) /\ Of(sending) \in PacketIds
    BY <1>1, <1>2, <1>5, NextHalfIs, HalfIsBytes
  <2>5. held' = Prefix(Of(sending'), Chunk)
    BY <2>2, <2>4
  <2>6. held' \in Seq(Bytes)
    BY <2>2, <2>4, PrefixGrows, ShoreNumbers
  <2>7. ShoreInPhase'
    BY <2>4, <2>5 DEF ShoreInPhase, Of
  <2>8. QED
    BY <1>1, <1>2, <1>4, <2>2, <2>3, <2>4, <2>6, <2>7 DEF ShoreInv
<1>6. CASE Len(held) <= 1 /\ sending.half = 2
  <2>1. PICK h \in Seq(Bytes) : /\ Len(h) <= 1
                                /\ NotifyData(Half(sending)) = {[held |-> h, done |-> <<>>]}
    BY <1>1, <1>6, TailIsDropped
  <2>2. held' = h /\ r.done = <<>>
    BY <1>3, <2>1
  <2>3. stitched' = stitched
    BY <1>1, <1>3, <2>2, NoneIsMisread
  <2>4. ShoreInPhase' /\ Len(held') <= 1
    BY <2>1, <2>2 DEF ShoreInPhase
  <2>5. QED
    BY <1>1, <1>2, <1>4, <2>1, <2>2, <2>3, <2>4 DEF ShoreInv
<1>7. ASSUME NEW q \in PacketIds, held = Prefix(q, Chunk)
      PROVE  ShoreInv'
  <2> DEFINE bytes == Half(sending)
             w == [i \in 1 .. PacketLen |-> IF i <= Chunk THEN <<q, i>> ELSE bytes[i - Chunk]]
  <2>1. bytes \in [1 .. Chunk -> Bytes]
    BY <1>1, HalfIsBytes
  <2>2. NotifyData(bytes) = {[held |-> <<>>, done |-> <<w>>]}
    <3> HIDE DEF bytes
    <3>1. QED
      BY <1>7, <2>1, HalvesAreJoined
  <2>3. held' = <<>> /\ r.done = <<w>>
    <3> HIDE DEF w
    <3>1. r \in {[held |-> <<>>, done |-> <<w>>]}
      BY <1>3, <2>2
    <3>2. QED
      BY <1>3, <3>1
  <2>4. stitched' = stitched + IF OnePacket(w) THEN 0 ELSE 1
    <3> HIDE DEF w
    <3>1. QED
      BY <1>3, <2>3, OneIsMisread
  <2>5. ASSUME ShoreInPhase PROVE OnePacket(w)
    <3>1. ~(Len(held) <= 1)
      BY <1>7, PrefixGrows, ShoreNumbers
    <3>2. sending.half = 2 /\ held = Prefix(Of(sending), Chunk)
      BY <2>5, <3>1 DEF ShoreInPhase
    <3>3. Of(sending) = q
      <4>1. Prefix(q, Chunk)[1] = <<q, 1>> /\ Prefix(Of(sending), Chunk)[1] = <<Of(sending), 1>>
        BY ShoreNumbers DEF Prefix
      <4>2. <<q, 1>> = <<Of(sending), 1>>
        BY <1>7, <3>2, <4>1
      <4>3. QED
        BY <4>2
    <3>4. \A k \in 1 .. Chunk : bytes[k] = <<q, Chunk + k>>
      BY <1>1, <3>2, <3>3, HalfIsBytes
    <3>5. \A i \in 1 .. PacketLen : (IF i <= Chunk THEN <<q, i>> ELSE bytes[i - Chunk]) = <<q, i>>
      <4> HIDE DEF bytes
      <4>1. ASSUME NEW i \in 1 .. PacketLen, ~(i <= Chunk) PROVE bytes[i - Chunk] = <<q, i>>
        <5>1. i - Chunk \in 1 .. Chunk /\ Chunk + (i - Chunk) = i
          BY <4>1, ShoreNumbers
        <5>2. QED
          BY <3>4, <5>1
      <4>2. QED
        BY <4>1
    <3>6. w = [i \in 1 .. PacketLen |-> <<q, i>>]
      <4> HIDE DEF bytes
      <4>1. QED
        BY <3>5
    <3>7. QED
      BY <3>6 DEF OnePacket
  <2>6. stitched' \in Nat /\ stitched' <= lost
    <3> HIDE DEF w
    <3>1. QED
      BY <1>1, <2>4, <2>5
  <2>7. held' \in Seq(Bytes) /\ Len(held') = 0
    BY <2>3, EmptySeq
  <2>8. ShoreInPhase'
    BY <2>7 DEF ShoreInPhase
  <2>9. QED
    BY <1>1, <1>2, <1>4, <2>6, <2>7, <2>8 DEF ShoreInv
<1>8. QED
  BY <1>1, <1>4, <1>5, <1>6, <1>7

\* Every step keeps the account of losses.
LEMMA ShoreInvStep ==
  ASSUME ShoreInv, [ShoreStreamNext]_shoreVars
  PROVE  ShoreInv'
<1> USE DEF ShoreInv
<1>1. CASE ShoreNotify
  BY <1>1, ShoreNotifyStep
<1>2. CASE ShoreLose
  <2>1. lost' = lost + 1 /\ sending' \in Sending /\ intact' = 0 /\ held' = held /\ stitched' = stitched
    BY <1>2, NextHalfIs DEF ShoreLose
  <2>2. QED
    BY <2>1
<1>3. CASE ShoreReconnect
  <2>1. lost' = lost + 1 /\ sending' \in Sending /\ intact' = 0 /\ held' = <<>> /\ stitched' = stitched
    BY <1>3, NextHalfIs DEF ShoreReconnect
  <2>2. held' \in Seq(Bytes) /\ Len(held') = 0
    BY <2>1, EmptySeq
  <2>3. QED
    BY <2>1, <2>2
<1>4. CASE ShoreAges
  BY <1>4 DEF ShoreAges, ShoreInPhase
<1>5. CASE UNCHANGED shoreVars
  BY <1>5 DEF shoreVars, ShoreInPhase
<1>6. QED
  BY <1>1, <1>2, <1>3, <1>4, <1>5 DEF ShoreStreamNext

\* What the account says of stitched packets and of being in step.
LEMMA ShoreInvSafe == ShoreInv => ShoreBogus /\ InStep
<1> SUFFICES ASSUME ShoreInv PROVE ShoreBogus /\ InStep
  OBVIOUS
<1>1. ShoreBogus
  BY DEF ShoreInv, ShoreBogus
<1>2. InStep
  BY DEF ShoreInv, ShoreInPhase, InStep, Prefix, Of
<1>3. QED
  BY <1>1, <1>2

-----------------------------------------------------------------------------
(* What is stored of the streams *)

\* The streams share no buffer, so their invariants hold side by side.
StoredInv == StoredIsOneResponse /\ JbdInv /\ ShoreInv

\* A step of the composition is a step of each stream, or none.
LEMMA StreamSteps ==
  ASSUME [Next]_proxyVars
  PROVE  [SolarNext]_pollVars /\ [JbdStreamNext]_jbdVars /\ [ShoreStreamNext]_shoreVars
<1>1. CASE Next
  BY <1>1 DEF Next, LinksNext, SlotsNext, StreamsNext, streamVars
<1>2. CASE UNCHANGED proxyVars
  BY <1>2 DEF proxyVars
<1>3. QED
  BY <1>1, <1>2

\* However notifications are lost, late, torn or cut short by a clearing of the buffer, what is stored
\* of a solar controller or a pack is one whole frame; the stream of the shore client, that has no
\* checksum, stores a stitched reading only for a loss, and is in step again after one whole packet
\* (renogy_solar_client.c:170-330, jbd_bms_client.c:203-275, hughes_wd_client.c:189-243).
THEOREM StoredKept == Spec => []StoredIsWhole
<1>1. Init => StoredInv
  <2> SUFFICES ASSUME Init PROVE StoredInv
    OBVIOUS
  <2>1. SolarInit /\ JbdStreamInit /\ ShoreStreamInit
    BY DEF Init
  <2>2. StoredIsOneResponse
    BY <2>1 DEF SolarInit, StoredIsOneResponse
  <2>3. QED
    BY <2>1, <2>2, JbdInvInit, ShoreInvInit DEF StoredInv
<1>2. StoredInv /\ [Next]_proxyVars => StoredInv'
  <2> SUFFICES ASSUME StoredInv, [Next]_proxyVars PROVE StoredInv'
    OBVIOUS
  <2>1. [SolarNext]_pollVars /\ [JbdStreamNext]_jbdVars /\ [ShoreStreamNext]_shoreVars
    BY StreamSteps
  <2>2. QED
    BY <2>1, StoredIsOneStep, JbdInvStep, ShoreInvStep DEF StoredInv
<1>3. StoredInv => StoredIsWhole
  BY JbdInvSafe, ShoreInvSafe DEF StoredInv, StoredIsWhole
<1>4. QED
  BY <1>1, <1>2, <1>3, PTL DEF Spec

-----------------------------------------------------------------------------
(* The payload of the thermostat *)

UnitArrays == [1 .. Len(UNIT_ZONES) -> Arrays]

\* The zones of a table are the thermostat's, in the arrays of u.
ZonesOf(zones, u) ==
  \A z \in Present(zones) : \E i \in 1 .. Len(UNIT_ZONES) : UNIT_ZONES[i] = z /\ zones[z] = u[i]

PayloadInv ==
  /\ unit \in UnitArrays /\ told \in UnitArrays
  /\ ZonesOf(table, told)
  /\ active => \E i \in 1 .. Len(UNIT_ZONES) : told[i][ARRAY_LEN] # IDLE

\* A complete entry of a payload is a zone of the thermostat, whole.
LEMMA CompleteIsWhole ==
  ASSUME unit \in UnitArrays, NEW c \in Cuts,
         NEW i \in DOMAIN Payload(c[1], c[2]), Complete(Payload(c[1], c[2])[i])
  PROVE  /\ i \in 1 .. Len(UNIT_ZONES)
         /\ Payload(c[1], c[2])[i] = [zone |-> UNIT_ZONES[i], ints |-> unit[i]]
<1> DEFINE e == c[1]
           n == c[2]
           N == Len(UNIT_ZONES)
<1>1. /\ N \in Nat /\ ARRAY_LEN \in Nat \ {0} /\ e \in 0 .. N /\ n \in 0 .. ARRAY_LEN - 1
      /\ e = N => n = 0
  BY PayloadAssumption DEF Cuts
<1>2. i \in 1 .. (IF n = 0 THEN e ELSE e + 1)
  BY DEF Payload
<1>3. i \in 1 .. N
  BY <1>1, <1>2
<1>4. Payload(e, n)[i] = [zone |-> UNIT_ZONES[i],
                          ints |-> IF i <= e THEN unit[i] ELSE SubSeq(unit[i], 1, n)]
  BY <1>2 DEF Payload
<1>5. i <= e
  <2> SUFFICES ASSUME ~(i <= e) PROVE FALSE
    OBVIOUS
  <2>1. unit[i] \in [1 .. ARRAY_LEN -> SETTINGS]
    BY <1>3 DEF UnitArrays, Arrays
  <2>2. \A k \in 1 .. n : unit[i][k] \in SETTINGS
    BY <1>1, <2>1
  <2>3. Len(SubSeq(unit[i], 1, n)) = IF 1 <= n THEN n - 1 + 1 ELSE 0
    BY <1>1, <2>2, SubSeqProperties
  <2> DEFINE part == SubSeq(unit[i], 1, n)
  <2>4. Payload(e, n)[i] = [zone |-> UNIT_ZONES[i], ints |-> part]
    BY <1>4
  <2> HIDE DEF part
  <2>5. Len(part) >= ARRAY_LEN
    BY <2>4 DEF Complete
  <2>6. QED
    BY <1>1, <2>3, <2>5 DEF part
<1>6. QED
  BY <1>3, <1>4, <1>5

\* What is shown of a zone after a read is an array of the thermostat.
LEMMA ParsedIsUnit ==
  ASSUME unit \in UnitArrays, NEW c \in Cuts
  PROVE  ZonesOf(ParsedStatus(Payload(c[1], c[2])), unit)
<1> DEFINE p == Payload(c[1], c[2])
           Found(z) == {i \in DOMAIN p : Complete(p[i]) /\ p[i].zone = z}
<1> SUFFICES ASSUME NEW z \in Present(ParsedStatus(p))
             PROVE  \E i \in 1 .. Len(UNIT_ZONES) :
                      UNIT_ZONES[i] = z /\ ParsedStatus(p)[z] = unit[i]
  BY DEF ZonesOf
<1>1. z \in Zones /\ ParsedStatus(p)[z] # Absent
  BY DEF Present
<1>2. ParsedStatus(p)[z] =
        IF Found(z) = {} THEN Absent
        ELSE p[CHOOSE i \in Found(z) : \A j \in Found(z) : i <= j].ints
  BY <1>1 DEF ParsedStatus
<1>3. Found(z) # {}
  BY <1>1, <1>2
<1>w. \A k \in DOMAIN p : Complete(p[k]) =>
        /\ k \in 1 .. Len(UNIT_ZONES)
        /\ p[k] = [zone |-> UNIT_ZONES[k], ints |-> unit[k]]
  BY CompleteIsWhole
<1>4. Found(z) \subseteq Nat
  <2> HIDE DEF p
  <2>1. QED
    BY <1>w
<1> DEFINE i == CHOOSE i \in Found(z) : \A j \in Found(z) : i <= j
<1>5. i \in Found(z)
  <2> HIDE DEF Found
  <2>1. \E k \in Found(z) : \A j \in Found(z) : k <= j
    BY <1>3, <1>4, LeastNat
  <2>2. QED
    BY <2>1
<1>6. ParsedStatus(p)[z] = p[i].ints
  BY <1>2, <1>3
<1> HIDE DEF i
<1>7. i \in DOMAIN p /\ Complete(p[i]) /\ p[i].zone = z
  BY <1>5
<1>8. i \in 1 .. Len(UNIT_ZONES) /\ p[i] = [zone |-> UNIT_ZONES[i], ints |-> unit[i]]
  BY <1>7, <1>w
<1>9. QED
  BY <1>6, <1>7, <1>8

\* At the start no zone is shown.
LEMMA PayloadInvInit == PayloadInit => PayloadInv
<1> SUFFICES ASSUME PayloadInit PROVE PayloadInv
  OBVIOUS
<1>1. [n \in 1 .. ARRAY_LEN |-> IDLE] \in Arrays
  BY PayloadAssumption DEF Arrays
<1>2. unit \in UnitArrays /\ told \in UnitArrays
  BY <1>1 DEF PayloadInit, UnitArrays
<1>3. Present(table) = {} /\ active = FALSE
  BY DEF PayloadInit, Present
<1>4. QED
  BY <1>2, <1>3 DEF PayloadInv, ZonesOf

\* A payload that is read replaces what was told and the table together.
LEMMA PayloadInvStep == PayloadInv /\ [PayloadNext]_payloadVars => PayloadInv'
<1> SUFFICES ASSUME PayloadInv, [PayloadNext]_payloadVars PROVE PayloadInv'
  OBVIOUS
<1> USE DEF PayloadInv
<1>1. CASE UnitChange
  <2>1. PICK i \in DOMAIN unit, a \in Arrays : unit' = [unit EXCEPT ![i] = a]
    BY <1>1 DEF UnitChange
  <2>2. unit' \in UnitArrays
    BY <2>1 DEF UnitArrays
  <2>3. UNCHANGED <<table, active, told>>
    BY <1>1 DEF UnitChange
  <2>4. QED
    BY <2>2, <2>3 DEF ZonesOf, Present
<1>2. ASSUME NEW c \in Cuts, ReadPayload(c[1], c[2])
      PROVE  PayloadInv'
  <2> DEFINE zones == ParsedStatus(Payload(c[1], c[2]))
  <2>1. ZonesOf(zones, unit)
    BY ParsedIsUnit
  <2>2. unit' = unit
    BY <1>2 DEF ReadPayload
  <2>3. CASE UNCHANGED <<table, active, statusValid, told>>
    BY <2>2, <2>3 DEF ZonesOf, Present
  <2>4. CASE table' = zones /\ active' = Running(zones) /\ statusValid' = TRUE /\ told' = unit
    <3> HIDE DEF zones
    <3>1. ZonesOf(table', told')
      BY <2>1, <2>4
    <3>2. ASSUME active'
          PROVE  \E i \in 1 .. Len(UNIT_ZONES) : told'[i][ARRAY_LEN] # IDLE
      <4>1. PICK z \in Present(zones) : zones[z][Len(zones[z])] # IDLE
        BY <2>4, <3>2 DEF Running
      <4>2. PICK i \in 1 .. Len(UNIT_ZONES) : zones[z] = unit[i]
        BY <2>1 DEF ZonesOf
      <4>3. unit[i] \in [1 .. ARRAY_LEN -> SETTINGS]
        BY DEF UnitArrays, Arrays
      <4>4. Len(unit[i]) = ARRAY_LEN
        BY <4>3, PayloadAssumption
      <4>5. QED
        BY <2>4, <4>1, <4>2, <4>4
    <3>3. QED
      BY <2>2, <2>4, <3>1, <3>2 DEF ZonesOf, Present
  <2>5. QED
    BY <1>2, <2>3, <2>4 DEF ReadPayload
<1>3. CASE UNCHANGED payloadVars
  BY <1>3 DEF payloadVars, ZonesOf, Present
<1>4. QED
  BY <1>1, <1>2, <1>3 DEF PayloadNext

\* Wherever the status of the thermostat is cut, what the client shows of a zone is what that very
\* payload said of it (easytouch_parse_status), whatever its zones do.
THEOREM ZonesStayTold == PayloadSpec => []ZonesTold
<1>1. PayloadInv => ZonesTold
  BY DEF PayloadInv, ZonesTold, ZonesOf, UnitArrays
<1>2. QED
  BY <1>1, PayloadInvInit, PayloadInvStep, PTL DEF PayloadSpec

=============================================================================
