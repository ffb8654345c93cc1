------------------------------ MODULE JbdStream ------------------------------
(***************************************************************************)
(* A battery's request and response exchange in jbd_bms_client.c over a    *)
(* subscribed link: try_poll() empties the reassembly buffer and writes a  *)
(* request; the pack answers with a frame of its present reading, in two   *)
(* notifications; on_notify_data() takes a frame to end at the first end   *)
(* byte (0x77), wherever that byte is.  A byte is <<reading, position>>.   *)
(* The frame's first byte is the start byte, its last the end byte, and a  *)
(* reading may have an end byte among its data.                            *)
(***************************************************************************)
EXTENDS Naturals, Sequences

CONSTANTS
    PackReadings,       \* what the pack may measure
    EndInside,     \* the readings with an end byte in them, at position EndAt
    FrameLen, EndAt, Split,  \* length, that position, length of the first notification
    BufLen,        \* JBD_REASSEMBLE_BUF_LEN
    PollTicks,     \* task ticks between polls
    Changes,       \* how often the reading changes
    FrameFaults    \* notifications lost or late

ASSUME JbdStreamAssumption ==
    /\ EndInside \subseteq PackReadings
    /\ FrameLen \in Nat /\ EndAt \in 2..FrameLen - 1 /\ Split \in 1..FrameLen - 1
    /\ BufLen \in Nat /\ FrameLen <= BufLen
    /\ PollTicks \in Nat \ {0} /\ Changes \in Nat /\ FrameFaults \in Nat

HealthyWindow == 3 * PollTicks   \* JBD_HEALTHY_WINDOW_MS

VARIABLES
    measures,   \* what the pack measures now
    poll,       \* ticks until next_action_tick
    flying,     \* notifications on their way: <<reading, first, last>>
    buffer,     \* reassemble_buf[0 .. reassemble_len)
    status,     \* the reading stored, or {}
    since,      \* ticks since it was stored
    changed, missed   \* changes of the reading, and faults, so far

jbdVars == <<measures, poll, flying, buffer, status, since, changed, missed>>

FrameBytes == PackReadings \X (1..FrameLen)
IsStart(b) == b[2] = 1
IsEnd(b) == b[2] = FrameLen \/ (b[2] = EndAt /\ b[1] \in EndInside)

JbdStreamType ==
    /\ measures \in PackReadings /\ poll \in 0..PollTicks
    /\ flying \in Seq(PackReadings \X (1..FrameLen) \X (1..FrameLen)) /\ Len(flying) <= 4
    /\ buffer \in Seq(FrameBytes) /\ Len(buffer) <= BufLen
    /\ status \in SUBSET PackReadings /\ since \in 0..HealthyWindow
    /\ changed \in 0..Changes /\ missed \in 0..FrameFaults

JbdStreamInit ==
    /\ measures \in PackReadings
    /\ poll = 0 /\ flying = <<>> /\ buffer = <<>>
    /\ status = {} /\ since = 0
    /\ changed = 0 /\ missed = 0

(* jbd_bms_healthy() *)
Healthy == status # {} /\ since < HealthyWindow

---------------------------------------------------------------------------
(* Mutation of Parsed: neither length nor checksum is compared. *)
Parsed_Unchecked(buf) == IF Len(buf) > 1 THEN {buf[2][1]} ELSE {}

(* jbd_bms_parse_basic_info(): length and checksum agree for one frame.    *)
Parsed(buf) == {m \in PackReadings :
    Len(buf) >= FrameLen /\ \A k \in 1..FrameLen - 1 : buf[k] = <<m, k>>}

(* One byte; a set of one, [buffer, got]. *)
Fed(acc, b) ==
    {IF Len(buf) = 0 \/ ~IsEnd(b) THEN [buffer |-> buf, got |-> acc.got]
     ELSE [buffer |-> <<>>, got |-> IF Parsed(buf) = {} THEN acc.got ELSE Parsed(buf)]
     : buf \in {CASE acc.buffer = <<>> /\ ~IsStart(b) -> <<>>
                  [] Len(acc.buffer) = BufLen -> <<>>
                  [] OTHER -> Append(acc.buffer, b)}}

(* on_notify_data() on a notification, its byte "cut" seeing the buffer    *)
(* emptied by the client task (0: before all of them; the length: none).   *)
FedAll(run, cut) ==
    LET n == run[3] - run[2] + 1
        after[k \in 0..n] ==
          LET before == IF k = 0 THEN {[buffer |-> buffer, got |-> {}]}
                        ELSE UNION {Fed(acc, <<run[1], run[2] + k - 1>>) : acc \in after[k - 1]}
          IN IF k = cut /\ k < n THEN {[acc EXCEPT !.buffer = <<>>] : acc \in before} ELSE before
    IN after[n]

(* Mutation of StoreStatus: last_valid_tick is forgotten. *)
StoreStatus_NoTime(acc) ==
    /\ buffer' = acc.buffer
    /\ status' = IF acc.got = {} THEN status ELSE acc.got
    /\ UNCHANGED since

StoreStatus(acc) ==
    /\ buffer' = acc.buffer
    /\ status' = IF acc.got = {} THEN status ELSE acc.got
    /\ since' = IF acc.got = {} THEN since ELSE 0

JbdFault(happened) ==
    missed' = missed + (IF happened THEN 1 ELSE 0) /\ missed' <= FrameFaults

(* try_poll(): the buffer is emptied, the request written and answered.    *)
(* A notification may be in the making meanwhile on the Bluetooth task.    *)
JbdPoll ==
    /\ poll = 0 /\ Len(flying) < 3
    /\ JbdFault(flying # <<>>)
    /\ poll' = PollTicks
    /\ \/ /\ buffer' = <<>>
          /\ flying' = flying \o <<<<measures, 1, Split>>, <<measures, Split + 1, FrameLen>>>>
          /\ UNCHANGED <<status, since>>
       \/ /\ flying # <<>>
          /\ \E cut \in 0..FrameLen : \E acc \in FedAll(Head(flying), cut) : StoreStatus(acc)
          /\ flying' = Tail(flying) \o <<<<measures, 1, Split>>, <<measures, Split + 1, FrameLen>>>>
    /\ UNCHANGED <<measures, changed>>

JbdNotify ==
    /\ flying # <<>>
    /\ flying' = Tail(flying)
    /\ \E acc \in FedAll(Head(flying), FrameLen) : StoreStatus(acc)
    /\ UNCHANGED <<measures, poll, changed, missed>>

JbdLose ==
    /\ flying # <<>>
    /\ JbdFault(TRUE)
    /\ flying' = Tail(flying)
    /\ UNCHANGED <<measures, poll, buffer, status, since, changed>>

JbdTick ==
    /\ poll > 0
    /\ poll' = poll - 1
    /\ since' = IF since < HealthyWindow THEN since + 1 ELSE since
    /\ UNCHANGED <<measures, flying, buffer, status, changed, missed>>

Measure ==
    /\ changed < Changes
    /\ changed' = changed + 1
    /\ measures' \in PackReadings \ {measures}
    /\ UNCHANGED <<poll, flying, buffer, status, since, missed>>

JbdStreamNext == JbdPoll \/ JbdNotify \/ JbdLose \/ JbdTick \/ Measure

(* The task runs, and what was sent arrives before the next poll for ever  *)
(* after: not an assumption of FIFO delays but of an answering pack.       *)
JbdStreamFair == WF_jbdVars(JbdPoll) /\ WF_jbdVars(JbdNotify) /\ WF_jbdVars(JbdTick)

---------------------------------------------------------------------------
(* Properties.                                                             *)

(* What is stored is a whole frame, however the clearing of the buffer     *)
(* falls among the bytes of a late one, and none with an end byte inside.  *)
NoCutFrameStored == (\A m, n \in status : m = n) /\ status \cap EndInside = {}

(* A pack that settles on a reading without an end byte in it is healthy   *)
(* in the end, whatever was lost or cleared before.                        *)
PackHealthy == <>[](measures \notin EndInside) => []<>Healthy

(* "3x tolerates a missed poll or two before a pack is declared offline":  *)
(* a pack that is asked and answers is healthy again and again.            *)
AnsweringPackHealthy == []<>Healthy
=============================================================================
