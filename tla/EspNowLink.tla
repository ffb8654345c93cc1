----------------------------- MODULE EspNowLink -----------------------------
(***************************************************************************)
(* One node of the coach's ESP-NOW network: how it comes up, what it hears *)
(* and what it sends.  The peers come from the addresses of the build, not *)
(* from the node's part, and app_main() then registers the handlers of that *)
(* part one after the other, while frames arrive already.  Nodes are       *)
(* flashed one at a time, so a neighbour may lay out a kind of frame       *)
(* differently.                                                            *)
(*                                                                         *)
(* External: the driver.  It refuses an encrypted group address and an     *)
(* address it has, may refuse any other, and delivers every broadcast, but *)
(* a unicast frame only from a peer it shares the key with.                *)
(*                                                                         *)
(* espnow_link_healthy(), which nothing calls, is left out, and with it    *)
(* when the last control frame came.                                       *)
(***************************************************************************)
EXTENDS Naturals, Sequences, FiniteSets

CONSTANTS
  NODES,           \* the addresses of other nodes
  BUILDS,          \* the address configurations looked at
  PARTS,           \* the nodes looked at
  RX_QUEUE_LEN,
  RESETS           \* resets of the node

(* What an address of the build may be, besides a node and the broadcast    *)
(* address; "group" is any other group address.                             *)
NoNode == {"unparsable", "placeholder", "zero", "group"}
Fields == {"cmd", "hvac", "rx1", "rx2", "valve"}

ASSUME EspNowAssumption ==
  /\ NODES \cap (NoNode \cup {"broadcast"}) = {}
  /\ BUILDS \subseteq [Fields -> NODES \cup NoNode \cup {"broadcast"}]
  /\ RX_QUEUE_LEN \in Nat \ {0}
  /\ RESETS \in Nat
  /\ PARTS \subseteq {"mid_coach", "hvac_panel", "bedroom_remote", "main_cabinet", "proxy", "valves"}

(* The frame kinds.  Kinds of one layout share a length. *)
Layout == [cmd |-> "control", status |-> "control", hvac_cmd |-> "control",
           telem |-> "telemetry", valve_cmd |-> "valve", valve_status |-> "valve",
           newer |-> "unknown"]
Kinds == DOMAIN Layout
Layouts == {"control", "telemetry", "valve"}

(* What app_main() does on each node after espnow_link_init(): the proxy  *)
(* handles no frame, and the valve node's is registered by its drive task. *)
ProxyMain == <<>>
ValvesMain == <<"valve_cmd">>
AppMain ==
  [mid_coach |-> <<"cmd", "telem", "valve_peer", "valve_status">>,
   hvac_panel |-> <<"hvac_cmd", "telem">>,
   bedroom_remote |-> <<"status", "telem">>,
   main_cabinet |-> <<"telem">>,
   proxy |-> ProxyMain,
   valves |-> ValvesMain]

(* What each node sends. *)
Sends ==
  [mid_coach |-> {"status", "valve_cmd", "telem"}, hvac_panel |-> {"telem"},
   bedroom_remote |-> {"cmd", "hvac_cmd"}, main_cabinet |-> {"hvac_cmd"},
   proxy |-> {"telem"}, valves |-> {"valve_status"}]

(* What espnow_link_init() does, in its order. *)
LinkInit == <<"addresses", "queue", "receive", "peers", "broadcast", "task">>
Steps == {"addresses", "queue", "receive", "peers", "broadcast", "task", "valve_peer"} \cup Kinds

VARIABLES
  part,      \* which node this is
  mac,       \* the addresses of its build
  differs,   \* the layouts a neighbour's build has in another length
  watched,   \* the kind a property follows
  todo,      \* what is left of the start
  have,      \* s_have_cmd_peer, s_have_hvac_peer, s_have_valve_peer
  peers,     \* the driver's table: address to key, or "none"
  handlers,  \* the kinds with a handler
  queue,     \* s_rx_queue: the frames' kinds
  resets

linkVars == <<part, mac, differs, watched, todo, have, peers, handlers, queue, resets>>
bootVars == <<todo, have, peers, handlers>>
fixedVars == <<part, mac, differs, watched>>

Addresses == NODES \cup {"placeholder", "zero", "broadcast"}
Keys == {"none", "lmk", "valve_lmk", "open"}

(* A field that names a node for espnow_link_init(). *)
Configured(f) == mac[f] \notin {"unparsable", "placeholder", "zero"}

NoPeers == [a \in Addresses |-> "none"]

(* What is left to do after a reset, and the peers a node has then. *)
Start == LinkInit \o AppMain[part]
NobodyToSendTo == [f \in {"cmd", "hvac", "valve"} |-> FALSE]

EspNowInit ==
  /\ part \in PARTS /\ mac \in BUILDS
  /\ differs \in SUBSET Layouts /\ watched \in Kinds
  /\ watched = "newer" \/ \E n \in DOMAIN AppMain[part] : watched = AppMain[part][n]
  /\ Cardinality(differs) <= 1
  /\ part # "mid_coach" => mac["valve"] = "placeholder"
  /\ todo = Start /\ have = NobodyToSendTo /\ peers = NoPeers /\ handlers = {}
  /\ queue = <<>>
  /\ resets = 0
-----------------------------------------------------------------------------
(***************************************************************************)
(* The start.                                                              *)
(***************************************************************************)
Doing(step) == todo # <<>> /\ Head(todo) = step /\ todo' = Tail(todo)

ReadAddresses ==
  /\ Doing("addresses")
  /\ have' = [have EXCEPT !["cmd"] = Configured("cmd"), !["hvac"] = Configured("hvac")]
  /\ UNCHANGED <<peers, handlers>>

StartReceiving == \E step \in {"queue", "receive", "task"} :
  Doing(step) /\ UNCHANGED <<have, peers, handlers>>

(* Every configured address under the shared key.  The driver refuses a group *)
(* address, the broadcast address too, which is only logged, and finds one     *)
(* that two fields name present.                                              *)
AddPeers ==
  /\ Doing("peers")
  /\ peers' = [a \in Addresses |->
       IF a \in NODES /\ \E f \in {"cmd", "hvac", "rx1", "rx2"} : mac[f] = a THEN "lmk"
       ELSE peers[a]]
  /\ UNCHANGED <<have, handlers>>

AddBroadcast ==
  /\ Doing("broadcast")
  /\ peers' = [peers EXCEPT !["broadcast"] = "open"]
  /\ UNCHANGED <<have, handlers>>

(* What the first octet of the valve node's address is looked at for. *)
Unicast == Addresses \ {"broadcast"}

(* Mutation of AddValvePeer: an address the driver has already is taken for success. *)
AddValvePeerAgain ==
  /\ Doing("valve_peer")
  /\ \/ /\ mac["valve"] \in Unicast
        /\ have' = [have EXCEPT !["valve"] = TRUE]
        /\ peers' = [peers EXCEPT ![mac["valve"]] = IF @ = "none" THEN "valve_lmk" ELSE @]
     \/ UNCHANGED <<have, peers>>
  /\ UNCHANGED handlers

(* Anything but a fresh unicast address leaves valve control off, and the start *)
(* goes on.                                                                     *)
AddValvePeer ==
  /\ Doing("valve_peer")
  /\ \/ /\ mac["valve"] \in Unicast /\ peers[mac["valve"]] = "none"
        /\ have' = [have EXCEPT !["valve"] = TRUE]
        /\ peers' = [peers EXCEPT ![mac["valve"]] = "valve_lmk"]
     \/ UNCHANGED <<have, peers>>
  /\ UNCHANGED handlers

RegisterHandler == \E k \in Kinds :
  /\ Doing(k)
  /\ handlers' = handlers \cup {k}
  /\ UNCHANGED <<have, peers>>

Boot ==
  /\ ReadAddresses \/ StartReceiving \/ AddPeers \/ AddBroadcast \/ AddValvePeer \/ RegisterHandler
  /\ UNCHANGED <<fixedVars, queue, resets>>
-----------------------------------------------------------------------------
(***************************************************************************)
(* Receiving.                                                              *)
(***************************************************************************)
Started(step) == \A n \in 1 .. Len(todo) : todo[n] # step

(* The key the senders of a kind use with this node. *)
KeyOf(k) == IF k = "valve_status" THEN "valve_lmk" ELSE "lmk"

(* The driver delivers broadcasts of anybody, and what it can decrypt. *)
Heard(k) == k \in {"telem", "newer"} \/ \E n \in NODES : peers[n] = KeyOf(k)

(* Kinds sent to a configured peer, which a neighbour's build may have made the *)
(* broadcast address.                                                           *)
MayBeBroadcast(k) == k \in {"cmd", "status", "hvac_cmd", "valve_status"}

(* Mutation of Fits: one length for every frame. *)
FitsControl(k, differing) == Layout[k] = "control" /\ Layout[k] \notin differing

(* expected_len(): known, and as long as this build's. *)
Fits(k, differing) == Layout[k] \in Layouts \ differing

(* espnow_recv_cb(): the queue drops the newest. *)
Receive(k) ==
  /\ Started("receive") /\ (Heard(k) \/ MayBeBroadcast(k))
  /\ queue' = IF Fits(k, differs) /\ Len(queue) < RX_QUEUE_LEN THEN Append(queue, k) ELSE queue
  /\ UNCHANGED <<fixedVars, bootVars, resets>>

(* espnow_rx_task(): a frame nobody handles vanishes. *)
Dispatch ==
  /\ Started("task") /\ queue # <<>>
  /\ queue' = Tail(queue)
  /\ UNCHANGED <<fixedVars, bootVars, resets>>
-----------------------------------------------------------------------------
(* The field a kind is sent to. *)
Target(k) == CASE k = "hvac_cmd" -> "hvac" [] k = "valve_cmd" -> "valve" [] OTHER -> "cmd"

(* What espnow_link_send_*() makes of a frame: the key it leaves under, or "none" *)
(* if the field is unset or the driver has no such peer.                           *)
SendKey(k) ==
  IF k = "telem" THEN peers["broadcast"]
  ELSE IF have[Target(k)] /\ mac[Target(k)] \in Addresses THEN peers[mac[Target(k)]]
  ELSE "none"
-----------------------------------------------------------------------------
Reset ==
  /\ resets < RESETS /\ resets' = resets + 1
  /\ todo' = Start /\ have' = NobodyToSendTo /\ peers' = NoPeers /\ handlers' = {}
  /\ queue' = <<>>
  /\ UNCHANGED fixedVars

EspNowNext == Boot \/ (\E k \in Kinds : Receive(k)) \/ Dispatch \/ Reset

(* The start and the receiving task run, and a kind whose frames keep coming *)
(* from a peer finds room in the queue once in a while.                      *)
EspNowFair ==
  /\ WF_linkVars(Boot) /\ WF_linkVars(Dispatch)
  /\ SF_linkVars(Len(queue) < RX_QUEUE_LEN /\ Heard(watched) /\ Receive(watched))

EspNowSpec == EspNowInit /\ [][EspNowNext]_linkVars
-----------------------------------------------------------------------------
EspNowTypeOK ==
  /\ part \in PARTS /\ mac \in BUILDS /\ differs \subseteq Layouts /\ watched \in Kinds
  /\ todo \in Seq(Steps)
  /\ have \in [{"cmd", "hvac", "valve"} -> BOOLEAN]
  /\ peers \in [Addresses -> Keys]
  /\ handlers \subseteq Kinds
  /\ queue \in Seq(Kinds)
  /\ resets \in 0 .. RESETS

(* A frame that actuates leaves under the key its receiver has: valve commands  *)
(* under the valve key and none else, even if two fields of the build name the  *)
(* same node, and the others under the shared key, unless the build has named   *)
(* the broadcast address as the peer they go to.                                *)
SentUnderItsKey == \A k \in Sends[part] : SendKey(k) \in {"none",
  CASE k = "telem" -> "open"
    [] k = "valve_cmd" -> "valve_lmk"
    [] OTHER -> IF mac[Target(k)] = "broadcast" THEN "open" ELSE "lmk"}

(* "Command/status frames actuate real loads and stay encrypted unicast": only  *)
(* telemetry leaves in the clear.                                               *)
ActuatingIsEncrypted == \A k \in Sends[part] \ {"telem"} : SendKey(k) # "open"

(* A kind of frame that keeps being sent keeps reaching its handler, whatever   *)
(* else is on the air, as long as sender and receiver agree on that kind.       *)
Expected == watched \in handlers /\ Heard(watched) /\ Layout[watched] \notin differs
FramesArrive ==
  []<>Expected => []<><<Dispatch /\ Head(queue) = watched>>_linkVars

(* A placeholder for the valve node's address leaves valve control off. *)
PlaceholderIsOff == mac["valve"] = "placeholder" => ~have["valve"]
=============================================================================
