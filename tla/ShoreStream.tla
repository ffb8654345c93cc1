----------------------------- MODULE ShoreStream -----------------------------
(***************************************************************************)
(* The telemetry stream of hughes_wd_client.c: the Watchdog sends a packet *)
(* for each line in turn, as notifications of Chunk bytes; the client      *)
(* finds packets by the three header bytes and keeps the last reading of   *)
(* each line with its age.  There is no checksum.  A byte is <<packet,     *)
(* position>>; a packet is named by its line and a turn.                   *)
(***************************************************************************)
EXTENDS Naturals, Sequences, FiniteSets, SequencesExt

CONSTANTS
    Turns,        \* turns of a line's packets, reused in a circle
    PacketLen, Chunk,  \* bytes of a packet, and of a notification
    LineIdAt,     \* the byte that tells the line
    StaleAfter,   \* ticks a reading is good for
    Losses        \* notifications and links lost in a behaviour

ASSUME ShoreStreamAssumption ==
    /\ Turns \in Nat \ {0, 1} /\ StaleAfter \in Nat \ {0} /\ Losses \in Nat
    /\ Chunk \in Nat /\ Chunk > 3 /\ PacketLen = 2 * Chunk
    /\ LineIdAt \in Chunk + 1..PacketLen

VARIABLES
    sending,   \* the next notification: [line, turn, half]
    held,      \* s_buf[0 .. s_buf_len)
    reading,   \* s_reading: per line the bytes it was made of, <<>> not valid
    old,       \* ticks since it was stored
    lost,      \* notifications and links lost so far
    stitched,  \* readings stored that are not one packet (for ShoreBogus)
    intact     \* whole packets received since the last loss, at most two (for InStep)

shoreVars == <<sending, held, reading, old, lost, stitched, intact>>

Lines == {1, 2}
PacketIds == [line : Lines, turn : 0..Turns - 1]
Bytes == PacketIds \X (1..PacketLen)

(* What a byte is on the wire.  The line id is 00 for line 1 and 01, which *)
(* is also the first byte of a header, for line 2; other bytes are no      *)
(* header bytes.                                                           *)
Wire(b) == CASE b[2] = 1 -> "HDR0" [] b[2] = 2 -> "HDR1" [] b[2] = 3 -> "HDR2"
             [] b[2] >= LineIdAt -> (IF b[1].line = 2 THEN "HDR0" ELSE "zero")
             [] OTHER -> "other"

OnePacket(s) == \E p \in PacketIds : s = [k \in 1..PacketLen |-> <<p, k>>]

ShoreStreamType ==
    /\ sending \in [line : Lines, turn : 0..Turns - 1, half : {1, 2}]
    /\ held \in Seq(Bytes) /\ Len(held) < PacketLen
    /\ \A l \in Lines : reading[l] \in Seq(Bytes) /\ Len(reading[l]) \in {0, PacketLen}
    /\ old \in [Lines -> 0..StaleAfter]
    /\ lost \in 0..Losses /\ stitched \in Nat /\ intact \in 0..2

ShoreStreamInit ==
    /\ sending = [line |-> 1, turn |-> 0, half |-> 1]
    /\ held = <<>>
    /\ reading = [l \in Lines |-> <<>>] /\ old = [l \in Lines |-> 0]
    /\ lost = 0 /\ stitched = 0 /\ intact = 0

(* hughes_wd_get_reading() succeeds. *)
Live(l) == reading[l] # <<>> /\ old[l] < StaleAfter

---------------------------------------------------------------------------
(* Reassembly.                                                             *)

(* Mutation of Collected: the second and third bytes are not looked at. *)
Collected_Unchecked(buf, b) ==
    IF buf = <<>> /\ Wire(b) # "HDR0" THEN <<>> ELSE Append(buf, b)

(* One byte: the header is checked as it is collected. *)
Collected(buf, b) ==
    IF \/ Len(buf) = 0 /\ Wire(b) # "HDR0"
       \/ Len(buf) = 1 /\ Wire(b) # "HDR1"
       \/ Len(buf) = 2 /\ Wire(b) # "HDR2"
    THEN IF Wire(b) = "HDR0" THEN <<b>> ELSE <<>>
    ELSE Append(buf, b)

(* hughes_wd_parse_packet(): anything but 00 is line 2. *)
LineOf(packet) == IF Wire(packet[LineIdAt]) = "zero" THEN 1 ELSE 2

(* A byte after those before, as a set of one: when a packet is full it is parsed, kept as  *)
(* the reading of its line, and the buffer is empty again.                 *)
Taken(acc, b) ==
    {[held |-> IF Len(buf) < PacketLen THEN buf ELSE <<>>,
      done |-> IF Len(buf) < PacketLen THEN acc.done ELSE Append(acc.done, buf)]
        : buf \in {Collected(acc.held, b)}}

(* on_notify_data(): the state after each byte, as a set of one. *)
NotifyData(bytes) ==
    LET after[k \in 0..Chunk] ==
          IF k = 0 THEN {[held |-> held, done |-> <<>>]}
          ELSE UNION {Taken(acc, bytes[k]) : acc \in after[k - 1]}
    IN after[Chunk]

Half(s) == [k \in 1..Chunk |-> <<[line |-> s.line, turn |-> s.turn], (s.half - 1) * Chunk + k>>]

(* The Watchdog sends the halves of a packet, and the lines in turn. *)
NextHalf(s) == CASE s.half = 1 -> [s EXCEPT !.half = 2]
                 [] s.half = 2 /\ s.line = 1 -> [s EXCEPT !.line = 2, !.half = 1]
                 [] OTHER -> [line |-> 1, turn |-> (s.turn + 1) % Turns, half |-> 1]

(* Mutation of StoreReading: every reading is kept as line 1's. *)
StoreReading_Line1(packets) ==
    /\ reading' = [reading EXCEPT ![1] = IF packets = <<>> THEN @ ELSE Last(packets)]
    /\ old' = [old EXCEPT ![1] = IF packets = <<>> THEN @ ELSE 0]

StoreReading(packets) ==
    LET now == {l \in Lines : \E i \in 1..Len(packets) : LineOf(packets[i]) = l} IN
    /\ reading' = [l \in Lines |->
          IF l \in now THEN Last(SelectSeq(packets, LAMBDA p : LineOf(p) = l)) ELSE reading[l]]
    /\ old' = [l \in Lines |-> IF l \in now THEN 0 ELSE old[l]]

ShoreNotify ==
    /\ \E r \in NotifyData(Half(sending)) :
          /\ held' = r.held
          /\ StoreReading(r.done)
          /\ stitched' = stitched + Cardinality({i \in 1..Len(r.done) : ~OnePacket(r.done[i])})
    /\ sending' = NextHalf(sending)
    /\ intact' = IF sending.half = 2 /\ intact < 2 THEN intact + 1 ELSE intact
    /\ UNCHANGED lost

(* A notification of the stream is lost. *)
ShoreLose ==
    /\ lost < Losses
    /\ lost' = lost + 1
    /\ sending' = NextHalf(sending)
    /\ intact' = 0
    /\ UNCHANGED <<held, reading, old, stitched>>

(* DISCONNECT: no reading is valid any more; connected again, the buffer   *)
(* is empty, and the stream comes in at either half of a packet.           *)
ShoreReconnect ==
    /\ lost < Losses
    /\ lost' = lost + 1
    /\ held' = <<>> /\ intact' = 0
    /\ reading' = [l \in Lines |-> <<>>]
    /\ \/ UNCHANGED sending
       \/ sending' = NextHalf(sending)
    /\ UNCHANGED <<old, stitched>>

ShoreAges ==
    /\ \E l \in Lines : old[l] < StaleAfter
    /\ old' = [l \in Lines |-> IF old[l] < StaleAfter THEN old[l] + 1 ELSE old[l]]
    /\ UNCHANGED <<sending, held, reading, lost, stitched, intact>>

ShoreStreamNext == ShoreNotify \/ ShoreLose \/ ShoreReconnect \/ ShoreAges

ShoreStreamFair == SF_shoreVars(ShoreNotify)

---------------------------------------------------------------------------
(* Properties.                                                             *)

(* A packet's head can be stitched to another's, as nothing but the header *)
(* is checked; but every such reading costs a lost notification, so it is  *)
(* not the stream that goes out of step.                                   *)
ShoreBogus == stitched <= lost

(* In step again: once a whole packet was received after a loss, all that  *)
(* is held is the start of the packet being sent, or the first byte of a   *)
(* header that was none (a line id 01).                                    *)
InStep == intact > 0 =>
    \/ Len(held) <= 1
    \/ held = [k \in 1..Chunk |-> <<[line |-> sending.line, turn |-> sending.turn], k>>]

(* Whatever is lost, both lines are read again and again. *)
ShoreKeepsReading == \A l \in Lines : []<>Live(l)

(* "Validate the header as it is being collected, so a mid-stream resync   *)
(* can't stitch the tail of one packet onto the head of the next and parse *)
(* it as real data."                                                       *)
StoredIsOnePacket == \A l \in Lines : reading[l] = <<>> \/ OnePacket(reading[l])
=============================================================================
