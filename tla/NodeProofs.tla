----------------------------- MODULE NodeProofs -----------------------------
(***************************************************************************)
(* Theorems about a node coming up.  EspNowLink: for any nodes, any        *)
(* addresses in the build, a neighbour of any build, any queue and any     *)
(* number of resets.  BoardIo: for any boards, any number of lost writes   *)
(* and of resets.                                                          *)
(***************************************************************************)
EXTENDS EspNowLink, BoardIo, SequenceTheorems, TLAPS

-----------------------------------------------------------------------------
(* The start *)

\* The peers are registered before the broadcast address and the valve node.
PeersFirst(s) ==
  \A i, j \in 1 .. Len(s) : s[i] = "peers" /\ s[j] \in {"broadcast", "valve_peer"} => i < j

\* The peers are still to be registered.
Ahead(s) == \E i \in 1 .. Len(s) : s[i] = "peers"

LEMMA KindsAre ==
  Kinds = {"cmd", "status", "hvac_cmd", "telem", "valve_cmd", "valve_status", "newer"}
BY DEF Kinds, Layout

\* What app_main() does after espnow_link_init(), on every node.
LEMMA AppMainSteps ==
  ASSUME part \in PARTS
  PROVE  /\ AppMain[part] \in Seq(Steps)
         /\ \A i \in 1 .. Len(AppMain[part]) : AppMain[part][i] \notin {"peers", "broadcast"}
<1>1. part \in {"mid_coach", "hvac_panel", "bedroom_remote", "main_cabinet", "proxy", "valves"}
  BY EspNowAssumption
<1>2. CASE part = "mid_coach"
  <2>1. AppMain[part] = <<"cmd", "telem", "valve_peer", "valve_status">>
    BY <1>2 DEF AppMain
  <2>2. QED
    BY <2>1, KindsAre DEF Steps
<1>3. CASE part = "hvac_panel"
  <2>1. AppMain[part] = <<"hvac_cmd", "telem">>
    BY <1>3 DEF AppMain
  <2>2. QED
    BY <2>1, KindsAre DEF Steps
<1>4. CASE part = "bedroom_remote"
  <2>1. AppMain[part] = <<"status", "telem">>
    BY <1>4 DEF AppMain
  <2>2. QED
    BY <2>1, KindsAre DEF Steps
<1>5. CASE part = "main_cabinet"
  <2>1. AppMain[part] = <<"telem">>
    BY <1>5 DEF AppMain
  <2>2. QED
    BY <2>1, KindsAre DEF Steps
<1>6. CASE part = "proxy"
  <2>1. AppMain[part] = <<>>
    BY <1>6 DEF AppMain, ProxyMain
  <2>2. QED
    BY <2>1, KindsAre DEF Steps
<1>7. CASE part = "valves"
  <2>1. AppMain[part] = <<"valve_cmd">>
    BY <1>7 DEF AppMain, ValvesMain
  <2>2. QED
    BY <2>1, KindsAre DEF Steps
<1>8. QED
  BY <1>1, <1>2, <1>3, <1>4, <1>5, <1>6, <1>7

LEMMA StartSteps ==
  ASSUME part \in PARTS
  PROVE  Start \in Seq(Steps) /\ PeersFirst(Start) /\ Ahead(Start)
<1> DEFINE app == AppMain[part]
<1>1. /\ app \in Seq(Steps)
      /\ \A i \in 1 .. Len(app) : app[i] \notin {"peers", "broadcast"}
  BY AppMainSteps
<1>2. LinkInit \in Seq(Steps) /\ Len(LinkInit) = 6
  BY DEF LinkInit, Steps
<1>3. /\ \A i \in 1 .. 6 : LinkInit[i] = "peers" => i = 4
      /\ \A i \in 1 .. 6 : LinkInit[i] \in {"broadcast", "valve_peer"} => i = 5
      /\ LinkInit[4] = "peers"
  BY DEF LinkInit
<1>4. /\ Start \in Seq(Steps)
      /\ Len(Start) = 6 + Len(app)
      /\ \A i \in 1 .. 6 + Len(app) : Start[i] = IF i <= 6 THEN LinkInit[i] ELSE app[i - 6]
  <2> HIDE DEF app
  <2>1. Start = LinkInit \o app
    BY DEF Start, app
  <2>2. Len(app) \in Nat
    BY <1>1, LenProperties
  <2>3. /\ LinkInit \o app \in Seq(Steps)
        /\ Len(LinkInit \o app) = 6 + Len(app)
        /\ \A i \in 1 .. 6 + Len(app) :
             (LinkInit \o app)[i] = IF i <= 6 THEN LinkInit[i] ELSE app[i - 6]
    BY <1>1, <1>2, ConcatProperties
  <2>4. QED
    BY <2>1, <2>3
<1> HIDE DEF app
<1>5. Ahead(Start)
  BY <1>1, <1>3, <1>4, LenProperties DEF Ahead
<1>6. PeersFirst(Start)
  <2> SUFFICES ASSUME NEW i \in 1 .. Len(Start), NEW j \in 1 .. Len(Start), Start[i] = "peers",
                      Start[j] \in {"broadcast", "valve_peer"}
               PROVE  i < j
    BY DEF PeersFirst
  <2>0. Len(app) \in Nat
    BY <1>1, LenProperties
  <2>1. i = 4
    <3>1. CASE i <= 6
      BY <1>3, <1>4, <2>0, <3>1
    <3>2. CASE i > 6
      <4>1. Start[i] = app[i - 6] /\ i - 6 \in 1 .. Len(app)
        BY <1>4, <2>0, <3>2
      <4>2. QED
        BY <1>1, <4>1
    <3>3. QED
      BY <1>4, <2>0, <3>1, <3>2
  <2>2. CASE j <= 6
    BY <1>3, <1>4, <2>0, <2>1, <2>2
  <2>3. CASE j > 6
    BY <1>4, <2>0, <2>1, <2>3
  <2>4. QED
    BY <1>4, <2>0, <2>2, <2>3
<1>7. QED
  BY <1>4, <1>5, <1>6

\* What doing a step leaves to do.
LEMMA DoingSteps ==
  ASSUME NEW step, todo \in Seq(Steps), PeersFirst(todo), Doing(step)
  PROVE  /\ todo' \in Seq(Steps) /\ PeersFirst(todo')
         /\ Ahead(todo') => Ahead(todo)
         /\ Ahead(todo) => step = "peers" \/ Ahead(todo')
         /\ step = "peers" => Ahead(todo)
         /\ step \in {"broadcast", "valve_peer"} => ~Ahead(todo)
<1>1. todo # <<>> /\ todo[1] = step /\ todo' = Tail(todo)
  BY DEF Doing
<1>2. /\ Tail(todo) \in Seq(Steps) /\ Len(Tail(todo)) = Len(todo) - 1
      /\ \A i \in 1 .. Len(todo) - 1 : Tail(todo)[i] = todo[i + 1]
      /\ Len(todo) \in Nat \ {0}
  BY <1>1, HeadTailProperties, LenProperties, EmptySeq
<1>3. PeersFirst(todo')
  <2> SUFFICES ASSUME NEW i \in 1 .. Len(todo'), NEW j \in 1 .. Len(todo'), todo'[i] = "peers",
                      todo'[j] \in {"broadcast", "valve_peer"}
               PROVE  i < j
    BY DEF PeersFirst
  <2>1. todo[i + 1] = "peers" /\ todo[j + 1] \in {"broadcast", "valve_peer"}
    BY <1>1, <1>2
  <2>2. i + 1 \in 1 .. Len(todo) /\ j + 1 \in 1 .. Len(todo)
    BY <1>1, <1>2
  <2>3. i + 1 < j + 1
    BY <2>1, <2>2 DEF PeersFirst
  <2>4. QED
    BY <1>1, <1>2, <2>3
<1>4. Ahead(todo') => Ahead(todo)
  <2> SUFFICES ASSUME NEW i \in 1 .. Len(todo'), todo'[i] = "peers" PROVE Ahead(todo)
    BY DEF Ahead
  <2>1. i + 1 \in 1 .. Len(todo) /\ todo[i + 1] = "peers"
    BY <1>1, <1>2
  <2>2. QED
    BY <2>1 DEF Ahead
<1>5. ASSUME Ahead(todo), step # "peers" PROVE Ahead(todo')
  <2>1. PICK i \in 1 .. Len(todo) : todo[i] = "peers"
    BY <1>5 DEF Ahead
  <2>2. i - 1 \in 1 .. Len(todo') /\ todo'[i - 1] = "peers"
    BY <1>1, <1>2, <1>5, <2>1
  <2>3. QED
    BY <2>2 DEF Ahead
<1>6. step = "peers" => Ahead(todo)
  <2>1. 1 \in 1 .. Len(todo)
    BY <1>2
  <2>2. QED
    BY <1>1, <2>1 DEF Ahead
<1>7. ASSUME step \in {"broadcast", "valve_peer"}, Ahead(todo) PROVE FALSE
  <2>1. PICK i \in 1 .. Len(todo) : todo[i] = "peers"
    BY <1>7 DEF Ahead
  <2>2. i < 1
    BY <1>1, <1>2, <1>7, <2>1 DEF PeersFirst
  <2>3. QED
    BY <1>2, <2>2
<1>8. QED
  BY <1>1, <1>2, <1>3, <1>4, <1>5, <1>6, <1>7

-----------------------------------------------------------------------------
(* Types *)

LEMMA AddressesAre ==
  ASSUME mac \in BUILDS
  PROVE  /\ "broadcast" \in Addresses /\ NODES \subseteq Addresses
         /\ \A f \in Fields : mac[f] \in Addresses
                              => mac[f] \in NODES \cup {"placeholder", "zero", "broadcast"}
         /\ "broadcast" \notin NODES
BY EspNowAssumption DEF Addresses, NoNode

\* The type invariant is inductive.
THEOREM EspNowTypeCorrect == EspNowSpec => []EspNowTypeOK
<1>1. ASSUME EspNowInit PROVE EspNowTypeOK
  <2>1. Start \in Seq(Steps)
    BY <1>1, StartSteps DEF EspNowInit
  <2>2. RESETS \in Nat
    BY EspNowAssumption
  <2>3. NobodyToSendTo \in [{"cmd", "hvac", "valve"} -> BOOLEAN] /\ NoPeers \in [Addresses -> Keys]
    BY DEF NobodyToSendTo, NoPeers, Keys
  <2>4. <<>> \in Seq(Kinds) /\ {} \subseteq Kinds
    OBVIOUS
  <2>5. resets = 0
    BY <1>1 DEF EspNowInit
  <2>6. resets \in 0 .. RESETS
    BY <2>2, <2>5
  <2>7. /\ part \in PARTS /\ mac \in BUILDS /\ differs \in SUBSET Layouts /\ watched \in Kinds
        /\ todo = Start /\ have = NobodyToSendTo /\ peers = NoPeers /\ handlers = {}
        /\ queue = <<>>
    BY <1>1 DEF EspNowInit
  <2>8. QED
    BY <2>1, <2>3, <2>4, <2>6, <2>7 DEF EspNowTypeOK
<1>2. ASSUME EspNowTypeOK, [EspNowNext]_linkVars PROVE EspNowTypeOK'
  <2>0. RESETS \in Nat /\ RX_QUEUE_LEN \in Nat
    BY EspNowAssumption
  <2>1. CASE Boot
    <3>1. UNCHANGED <<part, mac, differs, watched, queue, resets>>
      BY <2>1 DEF Boot, fixedVars
    <3>2. ASSUME NEW step, Doing(step) PROVE todo' \in Seq(Steps)
      BY <1>2, <3>2, HeadTailProperties DEF Doing, EspNowTypeOK
    <3>3. /\ todo' \in Seq(Steps)
          /\ have' \in [{"cmd", "hvac", "valve"} -> BOOLEAN]
          /\ peers' \in [Addresses -> Keys]
          /\ handlers' \subseteq Kinds
      <4>0. /\ have \in [{"cmd", "hvac", "valve"} -> BOOLEAN]
            /\ peers \in [Addresses -> Keys]
            /\ handlers \subseteq Kinds
            /\ {"lmk", "valve_lmk", "open"} \subseteq Keys
        BY <1>2 DEF EspNowTypeOK, Keys
      <4>1. CASE ReadAddresses
        <5>1. Configured("cmd") \in BOOLEAN /\ Configured("hvac") \in BOOLEAN
          BY DEF Configured
        <5>2. have' = [have EXCEPT !["cmd"] = Configured("cmd"), !["hvac"] = Configured("hvac")]
          BY <4>1 DEF ReadAddresses
        <5>3. have' \in [{"cmd", "hvac", "valve"} -> BOOLEAN]
          BY <4>0, <5>1, <5>2
        <5>4. QED
          BY <3>2, <4>0, <4>1, <5>3 DEF ReadAddresses
      <4>2. CASE StartReceiving
        BY <3>2, <4>0, <4>2 DEF StartReceiving
      <4>3. CASE AddPeers
        BY <3>2, <4>0, <4>3 DEF AddPeers
      <4>4. CASE AddBroadcast
        BY <3>2, <4>0, <4>4 DEF AddBroadcast
      <4>5. CASE AddValvePeer
        BY <3>2, <4>0, <4>5 DEF AddValvePeer
      <4>6. CASE RegisterHandler
        BY <3>2, <4>0, <4>6 DEF RegisterHandler
      <4>7. QED
        BY <2>1, <4>1, <4>2, <4>3, <4>4, <4>5, <4>6 DEF Boot
    <3>4. QED
      BY <1>2, <3>1, <3>3 DEF EspNowTypeOK
  <2>2. ASSUME NEW k \in Kinds, Receive(k) PROVE EspNowTypeOK'
    <3>1. queue' \in Seq(Kinds)
      BY <1>2, <2>2, AppendProperties DEF Receive, EspNowTypeOK
    <3>2. QED
      BY <1>2, <2>2, <3>1 DEF Receive, EspNowTypeOK, fixedVars, bootVars
  <2>3. CASE Dispatch
    <3>1. queue' \in Seq(Kinds)
      BY <1>2, <2>3, HeadTailProperties DEF Dispatch, EspNowTypeOK
    <3>2. QED
      BY <1>2, <2>3, <3>1 DEF Dispatch, EspNowTypeOK, fixedVars, bootVars
  <2>4. CASE Reset
    <3>1. Start \in Seq(Steps)
      BY <1>2, StartSteps DEF EspNowTypeOK
    <3>2. NobodyToSendTo \in [{"cmd", "hvac", "valve"} -> BOOLEAN] /\ NoPeers \in [Addresses -> Keys]
      BY DEF NobodyToSendTo, NoPeers, Keys
    <3>3. /\ <<>> \in Seq(Kinds) /\ {} \subseteq Kinds
          /\ resets' \in 0 .. RESETS
      BY <1>2, <2>0, <2>4 DEF Reset, EspNowTypeOK
    <3>4. QED
      BY <1>2, <2>4, <3>1, <3>2, <3>3 DEF Reset, EspNowTypeOK, fixedVars
  <2>5. CASE UNCHANGED linkVars
    BY <1>2, <2>5 DEF linkVars, EspNowTypeOK
  <2>6. QED
    BY <1>2, <2>1, <2>2, <2>3, <2>4, <2>5 DEF EspNowNext
<1>3. QED
  BY <1>1, <1>2, PTL DEF EspNowSpec

-----------------------------------------------------------------------------
(* Keys *)

LinkFields == {"cmd", "hvac"}

\* What each step of the start leaves behind: the peers of the build are in the driver's table
\* before a second key is tried, and the valve node's address is in it under that key alone.
ValveIsLast == Ahead(todo) => ~ have["valve"]
LinkPeersAdded == \A f \in LinkFields : mac[f] \in NODES =>
  peers[mac[f]] = "lmk" \/ (Ahead(todo) /\ peers[mac[f]] = "none")
LinkPeersConfigured == \A f \in LinkFields : have[f] => Configured(f)
ValvePeerAdded == have["valve"] => mac["valve"] \in Unicast /\ peers[mac["valve"]] = "valve_lmk"
BroadcastOpen == peers["broadcast"] \in {"none", "open"}
KeyInv ==
  /\ PeersFirst(todo)
  /\ ValveIsLast /\ LinkPeersAdded /\ LinkPeersConfigured /\ ValvePeerAdded /\ BroadcastOpen

LEMMA KeyStart ==
  ASSUME part \in PARTS, mac \in BUILDS, todo = Start, have = NobodyToSendTo, peers = NoPeers
  PROVE  KeyInv
<1>1. PeersFirst(todo) /\ Ahead(todo)
  BY StartSteps
<1>2. "broadcast" \in Addresses /\ NODES \subseteq Addresses
  BY AddressesAre
<1>3. QED
  BY <1>1, <1>2 DEF KeyInv, ValveIsLast, LinkPeersAdded, LinkPeersConfigured, ValvePeerAdded,
     BroadcastOpen, NobodyToSendTo, NoPeers, LinkFields

\* A step of the start that leaves the driver's table and the fields alone.
LEMMA KeyIdleStep ==
  ASSUME EspNowTypeOK, KeyInv, NEW step \in Steps \ {"peers"}, Doing(step), peers' = peers,
         have' = have, UNCHANGED fixedVars
  PROVE  KeyInv'
<1>1. todo \in Seq(Steps) /\ PeersFirst(todo)
  BY DEF EspNowTypeOK, KeyInv
<1>2. PeersFirst(todo') /\ (Ahead(todo') <=> Ahead(todo))
  BY <1>1, DoingSteps
<1>3. mac' = mac
  BY DEF fixedVars
<1>4. QED
  BY <1>2, <1>3 DEF KeyInv, ValveIsLast, LinkPeersAdded, LinkPeersConfigured, ValvePeerAdded,
     BroadcastOpen, Configured

LEMMA KeyStep ==
  ASSUME EspNowTypeOK, KeyInv, [EspNowNext]_linkVars
  PROVE  KeyInv'
<1>0. /\ todo \in Seq(Steps) /\ PeersFirst(todo) /\ mac \in BUILDS /\ part \in PARTS
      /\ have \in [{"cmd", "hvac", "valve"} -> BOOLEAN] /\ peers \in [Addresses -> Keys]
  BY DEF EspNowTypeOK, KeyInv
<1>1. /\ "broadcast" \in Addresses /\ NODES \subseteq Addresses
      /\ "broadcast" \notin NODES
  BY <1>0, AddressesAre
<1>2. /\ ValveIsLast /\ LinkPeersAdded /\ LinkPeersConfigured /\ ValvePeerAdded /\ BroadcastOpen
  BY DEF KeyInv
<1>3. CASE Boot
  <2>0. mac' = mac /\ UNCHANGED fixedVars
    BY <1>3 DEF Boot, fixedVars
  <2>1. CASE ReadAddresses
    <3>1. /\ PeersFirst(todo') /\ (Ahead(todo') <=> Ahead(todo)) /\ peers' = peers
      BY <1>0, <2>1, DoingSteps DEF ReadAddresses
    <3>2. /\ have'["cmd"] = Configured("cmd") /\ have'["hvac"] = Configured("hvac")
          /\ have'["valve"] = have["valve"]
      BY <1>0, <2>1 DEF ReadAddresses
    <3>3. LinkPeersConfigured'
      BY <2>0, <3>2 DEF LinkPeersConfigured, LinkFields, Configured
    <3>4. QED
      BY <1>2, <2>0, <3>1, <3>2, <3>3
      DEF KeyInv, ValveIsLast, LinkPeersAdded, ValvePeerAdded, BroadcastOpen
  <2>2. CASE StartReceiving
    BY <2>0, <2>2, KeyIdleStep DEF StartReceiving, Steps
  <2>3. CASE AddPeers
    <3>1. /\ PeersFirst(todo') /\ have' = have /\ ~ have["valve"]
      BY <1>0, <1>2, <2>3, DoingSteps DEF AddPeers, ValveIsLast
    <3>2. \A f \in LinkFields : mac[f] \in NODES => peers'[mac[f]] = "lmk"
      BY <1>1, <2>3 DEF AddPeers, LinkFields
    <3>3. peers'["broadcast"] = peers["broadcast"]
      BY <1>1, <2>3 DEF AddPeers
    <3>4. QED
      BY <1>2, <2>0, <3>1, <3>2, <3>3
      DEF KeyInv, ValveIsLast, LinkPeersAdded, LinkPeersConfigured, ValvePeerAdded, BroadcastOpen,
          Configured
  <2>4. CASE AddBroadcast
    <3>1. /\ PeersFirst(todo') /\ have' = have /\ ~ Ahead(todo')
          /\ \A f \in LinkFields : mac[f] \in NODES => peers[mac[f]] = "lmk"
      BY <1>0, <1>2, <2>4, DoingSteps DEF AddBroadcast, LinkPeersAdded
    <3>2. /\ peers'["broadcast"] = "open"
          /\ \A a \in Addresses : a # "broadcast" => peers'[a] = peers[a]
      BY <1>0, <1>1, <2>4 DEF AddBroadcast
    <3>3. /\ have["valve"] => mac["valve"] # "broadcast"
          /\ \A f \in LinkFields : mac[f] \in NODES => mac[f] \in Addresses /\ mac[f] # "broadcast"
      BY <1>1, <1>2 DEF ValvePeerAdded, Unicast
    <3>4. QED
      BY <1>2, <2>0, <3>1, <3>2, <3>3
      DEF KeyInv, ValveIsLast, LinkPeersAdded, LinkPeersConfigured, ValvePeerAdded, BroadcastOpen,
          Configured, Unicast
  <2>5. CASE AddValvePeer
    <3>1. /\ PeersFirst(todo') /\ ~ Ahead(todo')
          /\ \A f \in LinkFields : mac[f] \in NODES => peers[mac[f]] = "lmk"
      BY <1>0, <1>2, <2>5, DoingSteps DEF AddValvePeer, LinkPeersAdded
    <3>2. CASE UNCHANGED <<have, peers>>
      BY <1>2, <2>0, <3>1, <3>2
      DEF KeyInv, ValveIsLast, LinkPeersAdded, LinkPeersConfigured, ValvePeerAdded, BroadcastOpen,
          Configured
    <3>3. CASE /\ mac["valve"] \in Unicast /\ peers[mac["valve"]] = "none"
               /\ have' = [have EXCEPT !["valve"] = TRUE]
               /\ peers' = [peers EXCEPT ![mac["valve"]] = "valve_lmk"]
      <4>1. /\ \A f \in LinkFields : have'[f] = have[f]
            /\ peers'[mac["valve"]] = "valve_lmk"
            /\ \A a \in Addresses : a # mac["valve"] => peers'[a] = peers[a]
        BY <1>0, <3>3 DEF LinkFields, Unicast
      <4>2. mac["valve"] # "broadcast"
        BY <3>3 DEF Unicast
      <4>3. \A f \in LinkFields : mac[f] \in NODES => mac[f] \in Addresses /\ mac[f] # mac["valve"]
        BY <1>1, <3>1, <3>3
      <4>4. LinkPeersAdded'
        BY <2>0, <3>1, <4>1, <4>3 DEF LinkPeersAdded
      <4>5. BroadcastOpen'
        BY <1>1, <1>2, <4>1, <4>2 DEF BroadcastOpen
      <4>6. QED
        BY <1>2, <2>0, <3>1, <3>3, <4>1, <4>4, <4>5
        DEF KeyInv, ValveIsLast, LinkPeersConfigured, ValvePeerAdded, Configured
    <3>4. QED
      BY <2>5, <3>2, <3>3 DEF AddValvePeer
  <2>6. CASE RegisterHandler
    <3>1. PICK k \in Kinds : Doing(k) /\ UNCHANGED <<have, peers>>
      BY <2>6 DEF RegisterHandler
    <3>2. k \in Steps \ {"peers"}
      BY KindsAre DEF Steps
    <3>3. QED
      BY <2>0, <3>1, <3>2, KeyIdleStep
  <2>7. QED
    BY <1>3, <2>1, <2>2, <2>3, <2>4, <2>5, <2>6 DEF Boot
<1>4. CASE Reset
  <2>1. /\ part' = part /\ mac' = mac
        /\ todo' = Start /\ Start' = Start /\ have' = NobodyToSendTo /\ peers' = NoPeers
    BY <1>4 DEF Reset, fixedVars, Start
  <2>2. PeersFirst(todo') /\ Ahead(todo')
    BY <1>0, <2>1, StartSteps
  <2>3. QED
    BY <1>1, <2>1, <2>2 DEF KeyInv, ValveIsLast, LinkPeersAdded, LinkPeersConfigured, ValvePeerAdded,
       BroadcastOpen, NobodyToSendTo, NoPeers, LinkFields
<1>5. CASE UNCHANGED <<fixedVars, bootVars>>
  BY <1>5 DEF fixedVars, bootVars, KeyInv, PeersFirst, ValveIsLast, LinkPeersAdded,
     LinkPeersConfigured, ValvePeerAdded, BroadcastOpen, Configured, Ahead
<1>6. QED
  BY <1>3, <1>4, <1>5 DEF EspNowNext, linkVars, fixedVars, bootVars, Receive, Dispatch

\* What the invariant says of a frame that leaves.
LEMMA KeyInvSuffices ==
  ASSUME EspNowTypeOK, KeyInv
  PROVE  SentUnderItsKey
<1>0. mac \in BUILDS /\ part \in PARTS
  BY DEF EspNowTypeOK
<1>1. \A f \in Fields : mac[f] \in Addresses
                         => mac[f] \in NODES \cup {"placeholder", "zero", "broadcast"}
  BY <1>0, AddressesAre
<1>2. /\ LinkPeersAdded /\ LinkPeersConfigured /\ ValvePeerAdded /\ BroadcastOpen
  BY DEF KeyInv
<1>3. ASSUME NEW f \in LinkFields, have[f], mac[f] \in Addresses
      PROVE  peers[mac[f]] \in {"none", IF mac[f] = "broadcast" THEN "open" ELSE "lmk"}
  <2>1. CASE mac[f] = "broadcast"
    BY <1>2, <2>1 DEF BroadcastOpen
  <2>2. CASE mac[f] # "broadcast"
    <3>1. mac[f] \in NODES
      BY <1>1, <1>2, <1>3, <2>2 DEF LinkPeersConfigured, Configured, LinkFields, Fields
    <3>2. QED
      BY <1>2, <1>3, <2>2, <3>1 DEF LinkPeersAdded
  <2>3. QED
    BY <2>1, <2>2
<1>4. SUFFICES ASSUME NEW k \in Sends[part]
               PROVE  SendKey(k) \in {"none",
                        CASE k = "telem" -> "open"
                          [] k = "valve_cmd" -> "valve_lmk"
                          [] OTHER -> IF mac[Target(k)] = "broadcast" THEN "open" ELSE "lmk"}
  BY DEF SentUnderItsKey
<1>5. CASE k = "telem"
  BY <1>2, <1>5 DEF SendKey, BroadcastOpen
<1>6. CASE k = "valve_cmd"
  <2>1. Target(k) = "valve"
    BY <1>6 DEF Target
  <2>2. QED
    BY <1>2, <1>6, <2>1 DEF SendKey, ValvePeerAdded
<1>7. CASE k \notin {"telem", "valve_cmd"}
  <2>1. Target(k) \in LinkFields
    BY <1>7 DEF Target, LinkFields
  <2>2. QED
    BY <1>3, <1>7, <2>1 DEF SendKey
<1>8. QED
  BY <1>5, <1>6, <1>7

\* Every frame that actuates leaves under the key its receiver has: the theorem behind
\* SentUnderItsKey, for any build, also one that names one node in two fields or a group address,
\* with the one exception that the property names, a command or thermostat peer that is the
\* broadcast address (espnow_link.c:205-233, 459-606).
THEOREM KeysKept == EspNowSpec => []SentUnderItsKey
<1>1. EspNowInit => KeyInv
  BY KeyStart DEF EspNowInit
<1>2. EspNowTypeOK /\ KeyInv /\ [EspNowNext]_linkVars => KeyInv'
  BY KeyStep
<1>3. EspNowTypeOK /\ KeyInv => SentUnderItsKey
  BY KeyInvSuffices
<1>4. QED
  BY <1>1, <1>2, <1>3, EspNowTypeCorrect, PTL DEF EspNowSpec

-----------------------------------------------------------------------------
(* The pins of a board (BoardIo) *)

\* The steps a start is made of.
BoardSteps == [do : {"pin", "init", "mode"}, pin : Pins \cup {"none"}, level : BOOLEAN]

\* A step that takes a pin down.
Clears(s, p) == s.do = "init" \/ s = PinWrite(p, FALSE)

\* The pin is high in the shadow, or the rest of the start raises it, for good.
Rises(q, p) ==
  \E n \in 1 .. Len(q) : q[n] = PinWrite(p, TRUE) /\ \A m \in n + 1 .. Len(q) : ~Clears(q[m], p)

\* Nothing left of the start takes the pin down.
Stays(q, p) == \A n \in 1 .. Len(q) : ~Clears(q[n], p)

\* A start ends with two output writes.
EndsInWrites(q) == \A n \in 1 .. Len(q) : n >= Len(q) - 1 => q[n].do = "pin"

\* A mode write is left.
ModeAhead(q) == \E n \in 1 .. Len(q) : q[n] = ModeWrite

\* The steps are steps.
LEMMA StepsOfAStart ==
  /\ \A p \in Pins, l \in BOOLEAN : PinWrite(p, l) \in BoardSteps
  /\ ChipInit \in BoardSteps /\ ModeWrite \in BoardSteps
BY DEF BoardSteps, PinWrite, ChipInit, ModeWrite

\* Two pieces of a start joined.
LEMMA Joined ==
  ASSUME NEW a \in Seq(BoardSteps), NEW b \in Seq(BoardSteps)
  PROVE  /\ a \o b \in Seq(BoardSteps) /\ Len(a \o b) = Len(a) + Len(b)
         /\ \A n \in 1 .. Len(a) : (a \o b)[n] = a[n]
         /\ \A n \in 1 .. Len(b) : (a \o b)[Len(a) + n] = b[n]
BY ConcatProperties, LenProperties

\* The start of a CH422G board, step by step.
LEMMA Ch422gSteps ==
  /\ Ch422gDisplayInit \in Seq(BoardSteps)
  /\ Len(Ch422gDisplayInit) = 6
  /\ Ch422gDisplayInit[1] = ChipInit
  /\ Ch422gDisplayInit[2] = PinWrite("LCD_RST", FALSE)
  /\ Ch422gDisplayInit[3] = PinWrite("LCD_RST", TRUE)
  /\ Ch422gDisplayInit[4] = PinWrite("TP_RST", FALSE)
  /\ Ch422gDisplayInit[5] = PinWrite("TP_RST", TRUE)
  /\ Ch422gDisplayInit[6] = PinWrite("DISP", TRUE)
<1> DEFINE a == ChipInit
           b == PinWrite("LCD_RST", FALSE)
           c == PinWrite("LCD_RST", TRUE)
           d == PinWrite("TP_RST", FALSE)
           e == PinWrite("TP_RST", TRUE)
           f == PinWrite("DISP", TRUE)
<1>1. a \in BoardSteps /\ b \in BoardSteps /\ c \in BoardSteps /\ d \in BoardSteps
      /\ e \in BoardSteps /\ f \in BoardSteps
  BY StepsOfAStart DEF Pins
<1>2. Ch422gDisplayInit = <<a>> \o <<b, c>> \o <<d, e>> \o <<f>>
  BY DEF Ch422gDisplayInit, ResetPulse
<1> HIDE DEF a, b, c, d, e, f
<1>3. /\ <<a>> \o <<b, c>> \in Seq(BoardSteps) /\ Len(<<a>> \o <<b, c>>) = 3
      /\ \A n \in 1 .. 3 : (<<a>> \o <<b, c>>)[n] = <<a, b, c>>[n]
  BY <1>1
<1>4. /\ <<a>> \o <<b, c>> \o <<d, e>> \in Seq(BoardSteps) /\ Len(<<a>> \o <<b, c>> \o <<d, e>>) = 5
      /\ \A n \in 1 .. 5 : (<<a>> \o <<b, c>> \o <<d, e>>)[n] = <<a, b, c, d, e>>[n]
  BY <1>1, <1>3
<1>5. /\ <<a>> \o <<b, c>> \o <<d, e>> \o <<f>> \in Seq(BoardSteps)
      /\ Len(<<a>> \o <<b, c>> \o <<d, e>> \o <<f>>) = 6
      /\ \A n \in 1 .. 6 : (<<a>> \o <<b, c>> \o <<d, e>> \o <<f>>)[n] = <<a, b, c, d, e, f>>[n]
  BY <1>1, <1>4
<1>6. /\ Ch422gDisplayInit \in Seq(BoardSteps) /\ Len(Ch422gDisplayInit) = 6
      /\ Ch422gDisplayInit[1] = a /\ Ch422gDisplayInit[2] = b /\ Ch422gDisplayInit[3] = c
      /\ Ch422gDisplayInit[4] = d /\ Ch422gDisplayInit[5] = e /\ Ch422gDisplayInit[6] = f
  BY <1>2, <1>5
<1>7. QED
  BY <1>6 DEF a, b, c, d, e, f

\* The start of the 7B, step by step.
LEMMA Lcd7bSteps ==
  /\ Lcd7bDisplayInit \in Seq(BoardSteps)
  /\ Len(Lcd7bDisplayInit) = 7
  /\ Lcd7bDisplayInit[1] = ChipInit
  /\ Lcd7bDisplayInit[2] = PinWrite("VDD", TRUE)
  /\ Lcd7bDisplayInit[3] = PinWrite("LCD_RST", FALSE)
  /\ Lcd7bDisplayInit[4] = PinWrite("LCD_RST", TRUE)
  /\ Lcd7bDisplayInit[5] = PinWrite("TP_RST", FALSE)
  /\ Lcd7bDisplayInit[6] = PinWrite("TP_RST", TRUE)
  /\ Lcd7bDisplayInit[7] = PinWrite("DISP", TRUE)
<1> DEFINE a == ChipInit
           v == PinWrite("VDD", TRUE)
           b == PinWrite("LCD_RST", FALSE)
           c == PinWrite("LCD_RST", TRUE)
           d == PinWrite("TP_RST", FALSE)
           e == PinWrite("TP_RST", TRUE)
           f == PinWrite("DISP", TRUE)
<1>1. a \in BoardSteps /\ v \in BoardSteps /\ b \in BoardSteps /\ c \in BoardSteps
      /\ d \in BoardSteps /\ e \in BoardSteps /\ f \in BoardSteps
  BY StepsOfAStart DEF Pins
<1>2. Lcd7bDisplayInit = <<a, v>> \o <<b, c>> \o <<d, e>> \o <<f>>
  BY DEF Lcd7bDisplayInit, ResetPulse
<1> HIDE DEF a, v, b, c, d, e, f
<1>3. /\ <<a, v>> \o <<b, c>> \in Seq(BoardSteps) /\ Len(<<a, v>> \o <<b, c>>) = 4
      /\ \A n \in 1 .. 4 : (<<a, v>> \o <<b, c>>)[n] = <<a, v, b, c>>[n]
  BY <1>1
<1>4. /\ <<a, v>> \o <<b, c>> \o <<d, e>> \in Seq(BoardSteps)
      /\ Len(<<a, v>> \o <<b, c>> \o <<d, e>>) = 6
      /\ \A n \in 1 .. 6 : (<<a, v>> \o <<b, c>> \o <<d, e>>)[n] = <<a, v, b, c, d, e>>[n]
  BY <1>1, <1>3
<1>5. /\ <<a, v>> \o <<b, c>> \o <<d, e>> \o <<f>> \in Seq(BoardSteps)
      /\ Len(<<a, v>> \o <<b, c>> \o <<d, e>> \o <<f>>) = 7
      /\ \A n \in 1 .. 7 : (<<a, v>> \o <<b, c>> \o <<d, e>> \o <<f>>)[n]
                             = <<a, v, b, c, d, e, f>>[n]
  BY <1>1, <1>4
<1>6. /\ Lcd7bDisplayInit \in Seq(BoardSteps) /\ Len(Lcd7bDisplayInit) = 7
      /\ Lcd7bDisplayInit[1] = a /\ Lcd7bDisplayInit[2] = v /\ Lcd7bDisplayInit[3] = b
      /\ Lcd7bDisplayInit[4] = c /\ Lcd7bDisplayInit[5] = d /\ Lcd7bDisplayInit[6] = e
      /\ Lcd7bDisplayInit[7] = f
  BY <1>2, <1>5
<1>7. QED
  BY <1>6 DEF a, v, b, c, d, e, f

\* What board_twai_init() adds.
LEMMA TwaiSteps ==
  /\ Lcd7bTwaiInit \in Seq(BoardSteps) /\ Len(Lcd7bTwaiInit) = 3
  /\ Lcd7bTwaiInit[1] = ModeWrite
  /\ Lcd7bTwaiInit[2] = PinWrite("USB_SEL", TRUE)
  /\ Lcd7bTwaiInit[3] = PinWrite("USB_SEL", TRUE)
  /\ Lcd7TwaiInit \in Seq(BoardSteps) /\ Len(Lcd7TwaiInit) = 1
  /\ Lcd7TwaiInit[1] = PinWrite("USB_SEL", TRUE)
<1> DEFINE m == ModeWrite
           u == PinWrite("USB_SEL", TRUE)
<1>1. m \in BoardSteps /\ u \in BoardSteps
  BY StepsOfAStart DEF Pins
<1>2. Lcd7bTwaiInit = <<m, u, u>> /\ Lcd7TwaiInit = <<u>>
  BY DEF Lcd7bTwaiInit, Lcd7TwaiInit
<1> HIDE DEF m, u
<1>3. /\ Lcd7bTwaiInit \in Seq(BoardSteps) /\ Len(Lcd7bTwaiInit) = 3
      /\ Lcd7bTwaiInit[1] = m /\ Lcd7bTwaiInit[2] = u /\ Lcd7bTwaiInit[3] = u
      /\ Lcd7TwaiInit \in Seq(BoardSteps) /\ Len(Lcd7TwaiInit) = 1 /\ Lcd7TwaiInit[1] = u
  BY <1>1, <1>2
<1>4. QED
  BY <1>3 DEF m, u

\* The steps of a start, whichever the panel: every pin that has to be held
\* is raised for good, and the start ends in two output writes.
LEMMA StartRaises ==
  ASSUME board \in {"lcd7b", "lcd7", "4_3b"}, can \in BOOLEAN
  PROVE  /\ BoardStart(board, can) \in Seq(BoardSteps)
         /\ Len(BoardStart(board, can)) >= 2
         /\ EndsInWrites(BoardStart(board, can))
         /\ \A p \in Held : Rises(BoardStart(board, can), p)
         /\ board = "lcd7b" /\ can => ModeAhead(BoardStart(board, can))
<1> DEFINE q == BoardStart(board, can)
<1>1. CASE board = "lcd7b" /\ can
  <2>1. q = Lcd7bDisplayInit \o Lcd7bTwaiInit
    BY <1>1 DEF BoardStart
  <2> HIDE DEF q
  <2>3. /\ q \in Seq(BoardSteps) /\ Len(q) = 10
        /\ \A n \in 1 .. 7 : q[n] = Lcd7bDisplayInit[n]
        /\ \A n \in 1 .. 3 : q[7 + n] = Lcd7bTwaiInit[n]
    <3>1. /\ Lcd7bDisplayInit \in Seq(BoardSteps) /\ Len(Lcd7bDisplayInit) = 7
          /\ Lcd7bTwaiInit \in Seq(BoardSteps) /\ Len(Lcd7bTwaiInit) = 3
      BY TwaiSteps, Lcd7bSteps
    <3>2. /\ q \in Seq(BoardSteps) /\ Len(q) = Len(Lcd7bDisplayInit) + Len(Lcd7bTwaiInit)
          /\ \A n \in 1 .. Len(Lcd7bDisplayInit) : q[n] = Lcd7bDisplayInit[n]
          /\ \A n \in 1 .. Len(Lcd7bTwaiInit) : q[Len(Lcd7bDisplayInit) + n] = Lcd7bTwaiInit[n]
      BY <2>1, <3>1, Joined
    <3>3. QED
      BY <3>1, <3>2
  <2>4. /\ q[1] = ChipInit /\ q[2] = PinWrite("VDD", TRUE) /\ q[3] = PinWrite("LCD_RST", FALSE)
        /\ q[4] = PinWrite("LCD_RST", TRUE) /\ q[5] = PinWrite("TP_RST", FALSE)
        /\ q[6] = PinWrite("TP_RST", TRUE) /\ q[7] = PinWrite("DISP", TRUE)
        /\ q[8] = ModeWrite /\ q[9] = PinWrite("USB_SEL", TRUE)
        /\ q[10] = PinWrite("USB_SEL", TRUE)
    <3>1. /\ q[1] = Lcd7bDisplayInit[1] /\ q[2] = Lcd7bDisplayInit[2]
          /\ q[3] = Lcd7bDisplayInit[3] /\ q[4] = Lcd7bDisplayInit[4]
          /\ q[5] = Lcd7bDisplayInit[5] /\ q[6] = Lcd7bDisplayInit[6]
          /\ q[7] = Lcd7bDisplayInit[7] /\ q[8] = Lcd7bTwaiInit[1]
          /\ q[9] = Lcd7bTwaiInit[2] /\ q[10] = Lcd7bTwaiInit[3]
      BY <2>3
    <3>2. QED
      BY <3>1, TwaiSteps, Lcd7bSteps
  <2>5. \A m \in 1 .. 10 : m \in {1, 2, 3, 4, 5, 6, 7, 8, 9, 10}
    OBVIOUS
  <2>6. Rises(q, "VDD")
    BY <2>3, <2>4, <2>5 DEF Rises, Clears, PinWrite, ChipInit, ModeWrite
  <2>7. Rises(q, "LCD_RST")
    BY <2>3, <2>4, <2>5 DEF Rises, Clears, PinWrite, ChipInit, ModeWrite
  <2>8. Rises(q, "TP_RST")
    BY <2>3, <2>4, <2>5 DEF Rises, Clears, PinWrite, ChipInit, ModeWrite
  <2>9. Rises(q, "USB_SEL")
    BY <2>3, <2>4, <2>5 DEF Rises, Clears, PinWrite, ChipInit, ModeWrite
  <2>10. EndsInWrites(q) /\ ModeAhead(q)
    BY <2>3, <2>4 DEF EndsInWrites, ModeAhead, PinWrite
  <2>11. Held = {"LCD_RST", "TP_RST", "VDD", "USB_SEL"}
    BY <1>1 DEF Held
  <2>12. QED
    BY <2>3, <2>6, <2>7, <2>8, <2>9, <2>10, <2>11 DEF q
<1>2. CASE board = "lcd7b" /\ ~can
  <2>1. q = Lcd7bDisplayInit
    BY <1>2, Lcd7bSteps, ConcatEmptySeq DEF BoardStart
  <2> HIDE DEF q
  <2>3. q \in Seq(BoardSteps) /\ Len(q) = 7
    BY <2>1, Lcd7bSteps
  <2>4. /\ q[1] = ChipInit /\ q[2] = PinWrite("VDD", TRUE) /\ q[3] = PinWrite("LCD_RST", FALSE)
        /\ q[4] = PinWrite("LCD_RST", TRUE) /\ q[5] = PinWrite("TP_RST", FALSE)
        /\ q[6] = PinWrite("TP_RST", TRUE) /\ q[7] = PinWrite("DISP", TRUE)
    BY <2>1, <2>3, Lcd7bSteps
  <2>5. \A m \in 1 .. 7 : m \in {1, 2, 3, 4, 5, 6, 7}
    OBVIOUS
  <2>6. Rises(q, "VDD")
    BY <2>3, <2>4, <2>5 DEF Rises, Clears, PinWrite, ChipInit, ModeWrite
  <2>7. Rises(q, "LCD_RST")
    BY <2>3, <2>4, <2>5 DEF Rises, Clears, PinWrite, ChipInit, ModeWrite
  <2>8. Rises(q, "TP_RST")
    BY <2>3, <2>4, <2>5 DEF Rises, Clears, PinWrite, ChipInit, ModeWrite
  <2>10. EndsInWrites(q)
    BY <2>3, <2>4 DEF EndsInWrites, PinWrite
  <2>11. QED
    BY <1>2, <2>3, <2>6, <2>7, <2>8, <2>10 DEF q, Held
<1>3. CASE board = "lcd7" /\ can
  <2>1. q = Ch422gDisplayInit \o Lcd7TwaiInit
    BY <1>3 DEF BoardStart
  <2> HIDE DEF q
  <2>3. /\ q \in Seq(BoardSteps) /\ Len(q) = 7
        /\ \A n \in 1 .. 6 : q[n] = Ch422gDisplayInit[n]
        /\ q[7] = Lcd7TwaiInit[1]
    <3>1. /\ Ch422gDisplayInit \in Seq(BoardSteps) /\ Len(Ch422gDisplayInit) = 6
          /\ Lcd7TwaiInit \in Seq(BoardSteps) /\ Len(Lcd7TwaiInit) = 1
      BY TwaiSteps, Ch422gSteps
    <3>2. /\ q \in Seq(BoardSteps) /\ Len(q) = Len(Ch422gDisplayInit) + Len(Lcd7TwaiInit)
          /\ \A n \in 1 .. Len(Ch422gDisplayInit) : q[n] = Ch422gDisplayInit[n]
          /\ \A n \in 1 .. Len(Lcd7TwaiInit) : q[Len(Ch422gDisplayInit) + n] = Lcd7TwaiInit[n]
      BY <2>1, <3>1, Joined
    <3>3. QED
      BY <3>1, <3>2
  <2>4. /\ q[1] = ChipInit /\ q[2] = PinWrite("LCD_RST", FALSE)
        /\ q[3] = PinWrite("LCD_RST", TRUE) /\ q[4] = PinWrite("TP_RST", FALSE)
        /\ q[5] = PinWrite("TP_RST", TRUE) /\ q[6] = PinWrite("DISP", TRUE)
        /\ q[7] = PinWrite("USB_SEL", TRUE)
    <3>1. /\ q[1] = Ch422gDisplayInit[1] /\ q[2] = Ch422gDisplayInit[2]
          /\ q[3] = Ch422gDisplayInit[3] /\ q[4] = Ch422gDisplayInit[4]
          /\ q[5] = Ch422gDisplayInit[5] /\ q[6] = Ch422gDisplayInit[6]
          /\ q[7] = Lcd7TwaiInit[1]
      BY <2>3
    <3>2. QED
      BY <3>1, TwaiSteps, Ch422gSteps
  <2>5. \A m \in 1 .. 7 : m \in {1, 2, 3, 4, 5, 6, 7}
    OBVIOUS
  <2>7. Rises(q, "LCD_RST")
    BY <2>3, <2>4, <2>5 DEF Rises, Clears, PinWrite, ChipInit, ModeWrite
  <2>8. Rises(q, "TP_RST")
    BY <2>3, <2>4, <2>5 DEF Rises, Clears, PinWrite, ChipInit, ModeWrite
  <2>9. Rises(q, "USB_SEL")
    BY <2>3, <2>4, <2>5 DEF Rises, Clears, PinWrite, ChipInit, ModeWrite
  <2>10. EndsInWrites(q)
    BY <2>3, <2>4 DEF EndsInWrites, PinWrite
  <2>11. Held = {"LCD_RST", "TP_RST", "USB_SEL"}
    BY <1>3 DEF Held
  <2>12. Len(q) >= 2 /\ board # "lcd7b" /\ \A p \in Held : Rises(q, p)
    BY <1>3, <2>3, <2>7, <2>8, <2>9, <2>11
  <2>13. QED
    BY <2>3, <2>10, <2>12 DEF q
<1>4. CASE board = "4_3b" \/ (board = "lcd7" /\ ~can)
  <2>1. q = Ch422gDisplayInit
    BY <1>4, Ch422gSteps, ConcatEmptySeq DEF BoardStart
  <2> HIDE DEF q
  <2>3. q \in Seq(BoardSteps) /\ Len(q) = 6
    BY <2>1, Ch422gSteps
  <2>4. /\ q[1] = ChipInit /\ q[2] = PinWrite("LCD_RST", FALSE)
        /\ q[3] = PinWrite("LCD_RST", TRUE) /\ q[4] = PinWrite("TP_RST", FALSE)
        /\ q[5] = PinWrite("TP_RST", TRUE) /\ q[6] = PinWrite("DISP", TRUE)
    BY <2>1, <2>3, Ch422gSteps
  <2>5. \A m \in 1 .. 6 : m \in {1, 2, 3, 4, 5, 6}
    OBVIOUS
  <2>7. Rises(q, "LCD_RST")
    BY <2>3, <2>4, <2>5 DEF Rises, Clears, PinWrite, ChipInit, ModeWrite
  <2>8. Rises(q, "TP_RST")
    BY <2>3, <2>4, <2>5 DEF Rises, Clears, PinWrite, ChipInit, ModeWrite
  <2>10. EndsInWrites(q)
    BY <2>3, <2>4 DEF EndsInWrites, PinWrite
  <2>11. Held = {"LCD_RST", "TP_RST"}
    BY <1>4 DEF Held
  <2>12. QED
    BY <1>4, <2>3, <2>7, <2>8, <2>10, <2>11 DEF q
<1>5. QED
  BY <1>1, <1>2, <1>3, <1>4

(***************************************************************************)
(* The inductive invariant.  A pin to be held is high in the shadow and    *)
(* nothing left of the start takes it down, or the rest of the start raises *)
(* it for good; what the expander may spoil (a pin let go, a write taken)   *)
(* is still to be undone by a mode write, or by one of the two output       *)
(* writes every start ends with.                                            *)
(***************************************************************************)
BoardInv ==
  /\ board \in {"lcd7b", "lcd7", "4_3b"} /\ can \in BOOLEAN
  /\ steps \in Seq(BoardSteps) /\ EndsInWrites(steps)
  /\ \A p \in Held : Rises(steps, p) \/ (p \in shadow /\ Stays(steps, p))
  /\ forgot \in BOOLEAN /\ absorbs \in BOOLEAN
  /\ forgot => board = "lcd7b" /\ can /\ ModeAhead(steps)
  /\ absorbs => Len(steps) >= 2
  /\ PinsHeld

\* A cold start is all ahead.
LEMMA BoardInvInit == BoardInit => BoardInv
<1> SUFFICES ASSUME BoardInit PROVE BoardInv
  OBVIOUS
<1>1. board \in {"lcd7b", "lcd7", "4_3b"} /\ can \in BOOLEAN
  BY BoardAssumption DEF BoardInit
<1> DEFINE q == BoardStart(board, can)
<1>2. /\ q \in Seq(BoardSteps) /\ Len(q) >= 2 /\ EndsInWrites(q)
      /\ \A p \in Held : Rises(q, p)
  BY <1>1, StartRaises
<1>3. steps = q /\ forgot = FALSE /\ absorbs = FALSE
  BY DEF BoardInit
<1> HIDE DEF q
<1>4. PinsHeld
  BY <1>2, <1>3 DEF PinsHeld
<1>5. QED
  BY <1>1, <1>2, <1>3, <1>4 DEF BoardInv

\* A restart puts the whole start ahead again.
LEMMA BoardRestartKeeps ==
  ASSUME BoardInv, BoardRestart
  PROVE  BoardInv'
<1> DEFINE q == BoardStart(board, can)
<1>1. /\ q \in Seq(BoardSteps) /\ Len(q) >= 2 /\ EndsInWrites(q)
      /\ \A p \in Held : Rises(q, p)
      /\ board = "lcd7b" /\ can => ModeAhead(q)
  BY StartRaises DEF BoardInv
<1>2. /\ steps' = q /\ board' = board /\ can' = can /\ Held' = Held
      /\ forgot' = forgot /\ absorbs' = absorbs
  BY DEF BoardRestart, chipVars, Held
<1> HIDE DEF q
<1>3. PinsHeld'
  BY <1>1, <1>2 DEF PinsHeld
<1>4. QED
  BY <1>1, <1>2, <1>3 DEF BoardInv

\* What is true of the rest of a start when its first step is taken off.
LEMMA TailKeeps ==
  ASSUME NEW q \in Seq(BoardSteps), q # <<>>, EndsInWrites(q)
  PROVE  /\ Head(q) \in BoardSteps /\ Tail(q) \in Seq(BoardSteps) /\ EndsInWrites(Tail(q))
         /\ Len(Tail(q)) = Len(q) - 1 /\ Head(q) = q[1]
         /\ \A n \in 1 .. Len(Tail(q)) : Tail(q)[n] = q[n + 1]
         /\ Tail(q) = <<>> <=> Len(q) = 1
         /\ Len(q) <= 2 => Head(q).do = "pin"
         /\ ModeAhead(q) /\ Head(q) # ModeWrite => ModeAhead(Tail(q))
         /\ \A p : Stays(q, p) => Stays(Tail(q), p) /\ ~Clears(Head(q), p)
         /\ \A p : Rises(q, p) =>
              \/ Rises(Tail(q), p)
              \/ Head(q) = PinWrite(p, TRUE) /\ Stays(Tail(q), p)
<1>1. /\ Head(q) \in BoardSteps /\ Tail(q) \in Seq(BoardSteps)
      /\ Len(Tail(q)) = Len(q) - 1 /\ Head(q) = q[1]
      /\ \A n \in 1 .. Len(Tail(q)) : Tail(q)[n] = q[n + 1]
  BY HeadTailProperties
<1>2. Len(q) \in Nat /\ Len(q) >= 1
  BY EmptySeq
<1> DEFINE t == Tail(q)
<1> HIDE DEF t
<1>3. /\ t \in Seq(BoardSteps) /\ Len(t) = Len(q) - 1
      /\ \A n \in 1 .. Len(t) : t[n] = q[n + 1]
  BY <1>1 DEF t
<1>4. EndsInWrites(t)
  BY <1>2, <1>3 DEF EndsInWrites
<1>5. t = <<>> <=> Len(q) = 1
  BY <1>2, <1>3, EmptySeq
<1>6. Len(q) <= 2 => q[1].do = "pin"
  BY <1>2 DEF EndsInWrites
<1>7. ModeAhead(q) /\ q[1] # ModeWrite => ModeAhead(t)
  <2> SUFFICES ASSUME ModeAhead(q), q[1] # ModeWrite PROVE ModeAhead(t)
    OBVIOUS
  <2>1. PICK n \in 1 .. Len(q) : q[n] = ModeWrite
    BY DEF ModeAhead
  <2>2. n # 1 /\ n - 1 \in 1 .. Len(t) /\ t[n - 1] = q[n]
    BY <1>2, <1>3, <2>1
  <2>3. QED
    BY <2>1, <2>2 DEF ModeAhead
<1>8. ASSUME NEW p, Stays(q, p)
      PROVE  Stays(t, p) /\ ~Clears(q[1], p)
  <2>1. \A n \in 1 .. Len(t) : n + 1 \in 1 .. Len(q)
    BY <1>2, <1>3
  <2>2. QED
    BY <1>2, <1>3, <1>8, <2>1 DEF Stays
<1>9. ASSUME NEW p, Rises(q, p)
      PROVE  Rises(t, p) \/ (q[1] = PinWrite(p, TRUE) /\ Stays(t, p))
  <2>1. PICK n \in 1 .. Len(q) :
          q[n] = PinWrite(p, TRUE) /\ \A m \in n + 1 .. Len(q) : ~Clears(q[m], p)
    BY <1>9 DEF Rises
  <2>2. CASE n = 1
    <3>1. \A m \in 1 .. Len(t) : m + 1 \in n + 1 .. Len(q) /\ t[m] = q[m + 1]
      BY <1>2, <1>3, <2>2
    <3>2. Stays(t, p)
      BY <2>1, <3>1 DEF Stays
    <3>3. QED
      BY <2>1, <2>2, <3>2
  <2>3. CASE n # 1
    <3>1. n - 1 \in 1 .. Len(t) /\ t[n - 1] = q[n]
      BY <1>2, <1>3, <2>3
    <3>2. \A m \in (n - 1) + 1 .. Len(t) : m + 1 \in n + 1 .. Len(q) /\ t[m] = q[m + 1]
      BY <1>2, <1>3, <2>3
    <3>3. QED
      BY <2>1, <3>1, <3>2 DEF Rises
  <2>4. QED
    BY <2>2, <2>3
<1>10. QED
  BY <1>1, <1>3, <1>4, <1>5, <1>6, <1>7, <1>8, <1>9 DEF t

\* A step of the start: a write, the mode or the reset of the expander.
LEMMA StartStepKeeps ==
  ASSUME BoardInv, StartStep
  PROVE  BoardInv'
<1> DEFINE s == Head(steps)
<1>1. /\ steps # <<>> /\ steps' = Tail(steps) /\ board' = board /\ can' = can /\ Held' = Held
      /\ shadow' = CASE s.do = "init" -> {}
                     [] s.do = "pin" -> WithPin(shadow, s.pin, s.level)
                     [] s.do = "mode" -> shadow
      /\ CASE s.do = "pin" -> OutputWritten(shadow')
           [] s.do = "mode" -> ModeWritten
           [] s.do = "init" ->
                /\ forgot' = FALSE /\ absorbs' = FALSE
                /\ latch' = IF board = "lcd7b" THEN latch ELSE {}
  BY DEF StartStep, Held
<1>2. steps \in Seq(BoardSteps) /\ EndsInWrites(steps)
  BY DEF BoardInv
<1>3. /\ s \in BoardSteps /\ steps' \in Seq(BoardSteps) /\ EndsInWrites(steps')
      /\ Len(steps') = Len(steps) - 1
      /\ steps' = <<>> <=> Len(steps) = 1
      /\ Len(steps) <= 2 => s.do = "pin"
      /\ ModeAhead(steps) /\ s # ModeWrite => ModeAhead(steps')
      /\ \A p : Stays(steps, p) => Stays(steps', p) /\ ~Clears(s, p)
      /\ \A p : Rises(steps, p) =>
           Rises(steps', p) \/ (s = PinWrite(p, TRUE) /\ Stays(steps', p))
  BY <1>1, <1>2, TailKeeps
<1>4. Len(steps) \in Nat /\ Len(steps') \in Nat
  BY <1>2, <1>3, LenProperties
<1> HIDE DEF s
<1>5. \A p \in Held : Rises(steps', p) \/ (p \in shadow' /\ Stays(steps', p))
  <2> SUFFICES ASSUME NEW p \in Held, ~Rises(steps', p)
               PROVE  p \in shadow' /\ Stays(steps', p)
    OBVIOUS
  <2>1. Stays(steps', p) /\ (s = PinWrite(p, TRUE) \/ (p \in shadow /\ ~Clears(s, p)))
    BY <1>3 DEF BoardInv
  <2>2. CASE s = PinWrite(p, TRUE)
    BY <1>1, <2>1, <2>2 DEF PinWrite, WithPin
  <2>3. CASE p \in shadow /\ ~Clears(s, p)
    <3>1. s.do # "init" /\ s # PinWrite(p, FALSE)
      BY <2>3 DEF Clears
    <3>2. CASE s.do = "pin"
      <4>1. s = [do |-> s.do, pin |-> s.pin, level |-> s.level] /\ s.level \in BOOLEAN
        BY <1>3 DEF BoardSteps
      <4>2. p = s.pin => s.level
        BY <3>1, <3>2, <4>1 DEF PinWrite
      <4>3. shadow' = WithPin(shadow, s.pin, s.level)
        BY <1>1, <3>2
      <4>4. QED
        BY <2>1, <2>3, <4>2, <4>3 DEF WithPin
    <3>3. CASE s.do = "mode"
      BY <1>1, <2>1, <2>3, <3>3
    <3>4. QED
      BY <1>3, <3>1, <3>2, <3>3 DEF BoardSteps
  <2>4. QED
    BY <2>1, <2>2, <2>3
<1>6. CASE s.do = "pin"
  <2>1. OutputWritten(shadow')
    BY <1>1, <1>6
  <2>2. s # ModeWrite
    BY <1>6 DEF ModeWrite
  <2>3. absorbs' = FALSE /\ forgot' = forgot
    BY <2>1 DEF OutputWritten
  <2>4. forgot' => board' = "lcd7b" /\ can' /\ ModeAhead(steps')
    BY <1>1, <1>3, <2>2, <2>3 DEF BoardInv
  <2>5. PinsHeld'
    <3> SUFFICES ASSUME steps' = <<>> PROVE Held' \subseteq latch'
      BY DEF PinsHeld
    <3>1. Len(steps) = 1 /\ Len(steps') = 0
      BY <1>3
    <3>2. ~absorbs /\ ~forgot
      BY <2>3, <2>4, <3>1 DEF BoardInv, ModeAhead
    <3>3. latch' = shadow'
      BY <2>1, <3>2 DEF OutputWritten
    <3>4. \A p : ~Rises(steps', p)
      BY <3>1 DEF Rises
    <3>5. QED
      BY <1>1, <1>5, <3>3, <3>4
  <2>6. QED
    BY <1>1, <1>3, <1>5, <2>3, <2>4, <2>5 DEF BoardInv
<1>7. CASE s.do # "pin"
  <2>1. Len(steps) > 2 /\ steps' # <<>> /\ Len(steps') >= 2
    BY <1>3, <1>4, <1>7
  <2>2. forgot' = FALSE /\ absorbs' \in BOOLEAN
    BY <1>1, <1>3, <1>7 DEF ModeWritten, BoardSteps
  <2>3. PinsHeld'
    BY <2>1 DEF PinsHeld
  <2>4. QED
    BY <1>1, <1>3, <1>5, <2>1, <2>2, <2>3 DEF BoardInv
<1>8. QED
  BY <1>6, <1>7

\* Every step of a board keeps the invariant.
LEMMA BoardInvStep == BoardInv /\ [BoardNext]_boardVars => BoardInv'
<1> SUFFICES ASSUME BoardInv, [BoardNext]_boardVars PROVE BoardInv'
  OBVIOUS
<1>1. CASE StartStep
  BY <1>1, StartStepKeeps
<1>2. CASE StartFails
  BY <1>2, BoardRestartKeeps DEF StartFails
<1>3. CASE BoardReset
  BY <1>3, BoardRestartKeeps DEF BoardReset
<1>4. CASE Forget
  <2>1. /\ board = "lcd7b" /\ can /\ ModeAhead(steps)
    BY <1>4, LenProperties DEF Forget, BoardInv, ModeAhead
  <2>2. steps # <<>>
    BY <2>1, EmptySeq DEF ModeAhead
  <2>3. /\ board' = board /\ can' = can /\ steps' = steps /\ shadow' = shadow
        /\ absorbs' = absorbs /\ forgot' = TRUE /\ Held' = Held
    BY <1>4 DEF Forget, Held
  <2>4. PinsHeld'
    BY <2>2, <2>3 DEF PinsHeld
  <2>5. QED
    BY <2>1, <2>3, <2>4 DEF BoardInv
<1>5. ASSUME NEW on \in BOOLEAN, Backlight(on)
      PROVE  BoardInv'
  <2>1. /\ steps = <<>> /\ steps' = steps /\ board' = board /\ can' = can /\ Held' = Held
        /\ shadow' = WithPin(shadow, "DISP", on)
        /\ OutputWritten(shadow') \/ UNCHANGED chipVars
    BY <1>5 DEF Backlight, Held
  <2>2. \A p : ~Rises(steps, p)
    BY <2>1 DEF Rises
  <2>3. ~forgot /\ ~absorbs
    BY <2>1 DEF BoardInv, ModeAhead
  <2>4. \A p \in Held : p # "DISP"
    BY DEF Held
  <2>5. Held \subseteq shadow /\ Held \subseteq shadow'
    BY <2>1, <2>2, <2>4 DEF BoardInv, WithPin
  <2>6. Held \subseteq latch' /\ forgot' = forgot /\ absorbs' = absorbs
    BY <2>1, <2>3, <2>5 DEF OutputWritten, chipVars, BoardInv, PinsHeld
  <2>7. PinsHeld'
    BY <2>1, <2>6 DEF PinsHeld
  <2>8. \A p \in Held : p \in shadow' /\ Stays(steps', p)
    BY <2>1, <2>5 DEF Stays
  <2>9. QED
    BY <2>1, <2>3, <2>6, <2>7, <2>8 DEF BoardInv
<1>6. CASE UNCHANGED boardVars
  BY <1>6 DEF boardVars, BoardInv, PinsHeld, Held
<1>7. QED
  BY <1>1, <1>2, <1>3, <1>4, <1>5, <1>6 DEF BoardNext

(* Whatever writes are lost and whenever the processor starts again, a panel *)
(* that is past its start drives its reset, supply and CAN pins high: the    *)
(* backlight is written from a shadow that has them (board_lcd7b.c, set_pin) *)
(* and the mux is written twice after a new mode write (board_twai_init).    *)
THEOREM PinsStayHeld == BoardSpec => []PinsHeld
<1>1. BoardInv => PinsHeld
  BY DEF BoardInv
<1>2. QED
  BY <1>1, BoardInvInit, BoardInvStep, PTL DEF BoardSpec
=============================================================================
