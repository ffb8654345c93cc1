------------------------------ MODULE SolarPoll ------------------------------
(***************************************************************************)
(* The request and response exchange of renogy_solar_client.c over an      *)
(* open, subscribed link: the poll task sends one Modbus request a tick,   *)
(* the controller answers on some ids only, the answer arrives as one or   *)
(* several notifications, and the Bluetooth task reassembles them in the   *)
(* buffer the poll task clears.  A response is Units units long; a         *)
(* notification carries a run of them, and the checksum accepts a buffer   *)
(* only when it is the units of one response in order.                     *)
(***************************************************************************)
EXTENDS Naturals, Sequences

CONSTANTS
    Ids,       \* the device ids in the order they are tried
    Answers,   \* those the controller answers on
    Tags,      \* numbers of requests, reused in a circle: tags 0..Tags-1
    Units,     \* length of a response
    MissesBeforeIdRotate, StaleTicks,
    MaxFaults, \* losses, late answers and dropped links
    Backlog    \* requests unanswered, and notifications on their way, at most

ASSUME SolarAssumption ==
    /\ Ids \in Seq(Nat \ {0}) /\ Len(Ids) > 0
    /\ Tags \in Nat \ {0} /\ Units \in Nat \ {0} /\ StaleTicks \in Nat \ {0}
    /\ MissesBeforeIdRotate \in Nat \ {0} /\ MaxFaults \in Nat /\ Backlog \in Nat \ {0}

VARIABLES
    ready,                          \* s_state = SOLAR_READY
    pc,                             \* the poll task
    id, confirmed, misses, sent,    \* s_device_id, s_confirmed_id # 0, s_misses, poll_sent
    tag, asked, air,                \* next request; requests at the controller; notifications
    buf,                            \* s_buf: units <<tag, position>>
    stored, age,                    \* the response last stored (a set of tags), and its age
    faults

pollVars == <<ready, pc, id, confirmed, misses, sent, tag, asked, air, buf, stored, age, faults>>

IdSet == {Ids[i] : i \in 1..Len(Ids)}
UnitSet == (0..Tags - 1) \X (1..Units)
Requests == [tag : 0..Tags - 1, id : IdSet]
Runs == {r \in [tag : 0..Tags - 1, from : 1..Units, to : 1..Units] : r.from <= r.to}

SolarTypeOK ==
    /\ ready \in BOOLEAN /\ pc \in {"wait", "rotate", "send"}
    /\ id \in IdSet /\ confirmed \in BOOLEAN /\ sent \in BOOLEAN
    /\ misses \in 0..MissesBeforeIdRotate - 1
    /\ tag \in 0..Tags - 1
    /\ asked \in Seq(Requests) /\ Len(asked) <= Backlog
    /\ air \in Seq(Runs) /\ Len(air) <= Backlog
    /\ buf \in Seq(UnitSet) /\ Len(buf) < Units
    /\ stored \subseteq 0..Tags - 1 /\ age \in 0..StaleTicks
    /\ faults \in 0..MaxFaults

SolarInit ==
    /\ ready = TRUE /\ pc = "wait"
    /\ id = Ids[1] /\ confirmed = FALSE /\ misses = 0 /\ sent = FALSE
    /\ tag = 0 /\ asked = <<>> /\ air = <<>> /\ buf = <<>>
    /\ stored = {} /\ age = 0 /\ faults = 0

SolarFault(happened) == faults' = faults + (IF happened THEN 1 ELSE 0) /\ faults' <= MaxFaults

Fresh == stored # {} /\ age < StaleTicks   \* renogy_solar_get_status() succeeds

RunUnits(r) == [k \in 1..(r.to - r.from + 1) |-> <<r.tag, r.from + k - 1>>]

(* Mutation of Parses: the checksum is not compared. *)
Parses_Unchecked(b) == Len(b) = Units

(* renogy_parse_charging_info(): length and checksum hold for one response. *)
Parses(b) == \E t \in 0..Tags - 1 : b = [k \in 1..Units |-> <<t, k>>]

(* on_notify_data(): too much starts over, a full buffer is always emptied. *)
Appended(b, r) == IF Len(b) + (r.to - r.from + 1) > Units THEN <<>> ELSE b \o RunUnits(r)

---------------------------------------------------------------------------
(* The poll task.                                                          *)

Missed == sent /\ ~confirmed /\ ~(ready /\ Fresh)

(* A tick: nothing but poll_sent when the link is down. *)
SolarTick ==
    /\ pc = "wait"
    /\ age' = IF age < StaleTicks THEN age + 1 ELSE age
    /\ IF ready
       THEN /\ pc' = IF Missed /\ misses + 1 >= MissesBeforeIdRotate THEN "rotate" ELSE "send"
            /\ misses' = IF ~Missed THEN misses
                         ELSE IF misses + 1 >= MissesBeforeIdRotate THEN 0 ELSE misses + 1
            /\ UNCHANGED sent
       ELSE sent' = FALSE /\ UNCHANGED <<pc, misses>>
    /\ UNCHANGED <<ready, id, confirmed, tag, asked, air, buf, stored, faults>>

(* Mutation of NextId: the last candidate is never left. *)
NextId_Last(i) == IF \E k \in 1..Len(Ids) - 1 : Ids[k] = i
                  THEN Ids[1 + CHOOSE k \in 1..Len(Ids) - 1 : Ids[k] = i] ELSE i

(* The candidate after i; the first after the last. *)
NextId(i) == IF \E k \in 1..Len(Ids) - 1 : Ids[k] = i
             THEN Ids[1 + CHOOSE k \in 1..Len(Ids) - 1 : Ids[k] = i] ELSE Ids[1]

Rotate ==
    /\ pc = "rotate"
    /\ pc' = "send"
    /\ id' = NextId(id)
    /\ UNCHANGED <<ready, confirmed, misses, sent, tag, asked, air, buf, stored, age, faults>>

Cleared(b) == <<>>

Late == air # <<>> \/ \E i \in 1..Len(asked) : asked[i].id \in Answers

(* send_poll(): the buffer is emptied and the request written.  When a     *)
(* notification is being appended meanwhile by the Bluetooth task, the     *)
(* store of the new length may undo the emptying.                          *)
SendPoll ==
    /\ pc = "send" /\ Len(asked) < Backlog
    /\ pc' = "wait" /\ sent' = TRUE
    /\ SolarFault(Late)
    /\ \/ buf' = Cleared(buf) /\ UNCHANGED air
       \/ /\ air # <<>> /\ Len(Appended(buf, Head(air))) < Units
          /\ buf' = Appended(buf, Head(air)) /\ air' = Tail(air)
    /\ tag' = (tag + 1) % Tags
    /\ asked' = IF ready THEN Append(asked, [tag |-> tag, id |-> id]) ELSE asked
    /\ UNCHANGED <<ready, id, confirmed, misses, stored, age>>

---------------------------------------------------------------------------
(* The controller and the Bluetooth task.                                  *)

(* The controller takes a request: silence on a wrong id, else a response  *)
(* in one notification or in two.                                          *)
Answer ==
    /\ asked # <<>> /\ Len(air) + 1 < Backlog
    /\ asked' = Tail(asked)
    /\ LET t == Head(asked).tag IN
       IF Head(asked).id \notin Answers THEN UNCHANGED air
       ELSE \/ air' = Append(air, [tag |-> t, from |-> 1, to |-> Units])
            \/ \E k \in 1..Units - 1 :
                  air' = air \o <<[tag |-> t, from |-> 1, to |-> k],
                                  [tag |-> t, from |-> k + 1, to |-> Units]>>
    /\ UNCHANGED <<ready, pc, id, confirmed, misses, sent, tag, buf, stored, age, faults>>

Lose ==
    /\ air # <<>>
    /\ SolarFault(TRUE)
    /\ air' = Tail(air)
    /\ UNCHANGED <<ready, pc, id, confirmed, misses, sent, tag, asked, buf, stored, age>>

Notify ==
    /\ air # <<>>
    /\ air' = Tail(air)
    /\ LET b == Appended(buf, Head(air)) IN
       IF Len(b) < Units THEN buf' = b /\ UNCHANGED <<confirmed, misses, stored, age>>
       ELSE /\ buf' = <<>>
            /\ IF Parses(b)
               THEN /\ confirmed' = TRUE /\ misses' = 0 /\ age' = 0
                    /\ stored' = {b[k][1] : k \in 1..Units}
               ELSE UNCHANGED <<confirmed, misses, stored, age>>
    /\ UNCHANGED <<ready, pc, id, sent, tag, asked, faults>>

(* DISCONNECT, and the link subscribed again (ProxyBle has the steps). *)
LinkLost ==
    /\ ready
    /\ SolarFault(TRUE)
    /\ ready' = FALSE /\ stored' = {} /\ buf' = <<>> /\ asked' = <<>> /\ air' = <<>>
    /\ UNCHANGED <<pc, id, confirmed, misses, sent, tag, age>>

LinkBack ==
    /\ ~ready
    /\ ready' = TRUE /\ buf' = <<>>
    /\ UNCHANGED <<pc, id, confirmed, misses, sent, tag, asked, air, stored, age, faults>>

SolarTask == SolarTick \/ Rotate \/ SendPoll
SolarAir == Answer \/ Notify \/ LinkBack
SolarNext == SolarTask \/ SolarAir \/ Lose \/ LinkLost

(* The task ticks; requests are answered, notifications arrive, and a lost *)
(* link comes back.                                                        *)
SolarFair == /\ WF_pollVars(SolarTask) /\ SF_pollVars(Answer)
             /\ WF_pollVars(Notify) /\ WF_pollVars(LinkBack)

---------------------------------------------------------------------------
(* Properties.                                                             *)

(* What is stored was answered to one request: no reading is made of two   *)
(* responses, whatever is lost, late or torn.                              *)
StoredIsOneResponse == stored = {} \/ \E t \in 0..Tags - 1 : stored = {t}

(* Readings are for ever produced: no loss, late answer or torn clearing   *)
(* leaves the reassembly out of step for good, and a wrong id is not       *)
(* polled for ever, but for an answer that confirmed an id after the       *)
(* client had moved on to a wrong one.                                     *)
SolarKeepsReading == []<>(Fresh \/ (confirmed /\ id \notin Answers))

(* "Once the controller has answered, its real address is known": a client *)
(* that has been answered polls an id the controller answers on.           *)
ConfirmedIdAnswers == confirmed => id \in Answers
=============================================================================
