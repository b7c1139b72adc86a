---------------------------- MODULE NoiseChannel ----------------------------
(***************************************************************************)
(* The transport under every connection of the program (libp2p-noise as it *)
(* is vendored): two ends of a TCP connection exchange the messages of a   *)
(* handshake, each message a frame with its length in front, and then      *)
(* carry a stream of bytes in frames that are sealed one by one.           *)
(*                                                                         *)
(* Every action is what one poll does between two calls of the socket.     *)
(*                                                                         *)
(* Abstractions: a sealed byte is named by the frame it belongs to and its *)
(* place in it, and a frame opens only for who expects that very frame;    *)
(* bytes of the application are numbered in the order they are written;    *)
(* an identity is the end that has it.                                     *)
(***************************************************************************)
EXTENDS Naturals, Sequences, SequencesExt

CONSTANTS MaxBytes,   \* MaxBytes[p]: bound on what p's application writes
          MaxFrame,   \* MAX_FRAME_LEN
          Extra,      \* what sealing adds, at most EXTRA_ENCRYPT_SPACE
          Width,      \* lengths are numbers below Width, in two bytes
          Room,       \* bound on the bytes the connection holds in a direction
          Setups,     \* how the ends may be configured; see AllSetups
          MayBreak    \* whether processes may end and connections be reset

Sides == {"dialer", "listener"}
Other(p) == CHOOSE q \in Sides : q # p

Nobody == "nobody"

\* What ends may be configured with: the identity a dialer that knows the listener
\* expects, the format of payloads each sends, whether they understand the old one, the
\* table each looks the other up in, and the tables each is listed in.
AllSetups ==
    {s \in [pattern : {"IK", "IX", "XX"}, expected : {Nobody, "listener", "stranger"},
            old : [Sides -> BOOLEAN], lenient : BOOLEAN,
            check : [Sides -> {"nodes", "users", Nobody}],
            rows : [Sides -> SUBSET {"nodes", "users"}]] :
        s.pattern = "IK" <=> s.expected # Nobody}

ASSUME ConstantsAssumption ==
    /\ MaxBytes \in [Sides -> Nat]
    /\ {MaxFrame, Extra, Room} \subseteq Nat \ {0}
    /\ Width \in Nat /\ MaxFrame + Extra < Width
    /\ Setups \subseteq AllSetups
    /\ MayBreak \in BOOLEAN

VARIABLES setup,   \* what the ends are configured with; one of Setups
          wire,    \* wire[p]: bytes p has given to the socket and the other has not read
          link,    \* link[p]: "open", or "shut" after the end, for the peer to see
          broken,  \* broken[p]: "no", or "due" after a reset and "told" once p's socket
                   \* has reported it
          frames,  \* frames[p]: the payloads p has sealed
          w, r,    \* write_state and read_state of each end's NoiseFramed
          hs,      \* the handshake of each end
          out,     \* the buffers of each end's NoiseOutput
          peer, written, read

vars == <<setup, wire, link, broken, frames, w, r, hs, out, peer, written, read>>
app  == <<peer, written, read>>

-----------------------------------------------------------------------------
(* Handshakes.                                                             *)

\* mutant: the listener's messages at both ends
RoundTrip_Waits(p) == <<"recv_identity", "send_identity">>
\* The messages of an end: one round trip, or one and a half.
RoundTrip(p) ==
    IF p = "dialer" THEN <<"send_identity", "recv_identity">>
                    ELSE <<"recv_identity", "send_identity">>
OneAndAHalf(p) ==
    IF p = "dialer" THEN <<"send_empty", "recv_identity", "send_identity">>
                    ELSE <<"recv_empty", "send_identity", "recv_identity">>

\* How each pattern upgrades a connection: its messages, whether the end sends its
\* identity, and the identity it expects.
IX(p) == [script |-> RoundTrip(p), sends |-> TRUE, expects |-> Nobody]
XX(p) == [script |-> OneAndAHalf(p), sends |-> TRUE, expects |-> Nobody]
IK(p) == [script |-> RoundTrip(p), sends |-> p = "dialer",
          expects |-> IF p = "dialer" THEN setup.expected ELSE Nobody]
Upgrade(p) == CASE setup.pattern = "IX" -> IX(p) [] setup.pattern = "XX" -> XX(p) [] OTHER -> IK(p)

Step(p)  == IF hs[p].step <= Len(Upgrade(p).script) THEN Upgrade(p).script[hs[p].step] ELSE "finish"
Going(p) == hs[p].state = "going"
Alive(p) == hs[p].state \notin {"failed", "ended"}
Established(p) == Alive(p) /\ peer[p] # Nobody

\* A key pair is signed when it is made: the signature names who signed what.
Signature(p) == [by |-> p, over |-> p]
NoSignature  == [by |-> Nobody, over |-> Nobody]

Identity(p) == [kind |-> "identity", key |-> IF Upgrade(p).sends THEN p ELSE Nobody,
                sig |-> Signature(p), old |-> setup.old[p]]
Empty == [kind |-> "empty"]
Data(bytes) == [kind |-> "data", bytes |-> bytes]

Verified(key, sig, p) == sig = [by |-> key, over |-> Other(p)]

-----------------------------------------------------------------------------
(* Frames: writing.                                                        *)

\* A sealed payload: handshake messages are as short as a byte.
Length(payload) == IF payload.kind = "data" THEN Len(payload.bytes) + Extra ELSE 1

\* The byte of a frame: 1 and 2 are its length, modulo what two bytes hold.
Byte(p, k, i) == [frame |-> k, at |-> i, len |-> Length(frames[p][k]) % Width]

WReady == [state |-> "Ready", off |-> 0]

\* start_send, whose assertion that nothing is being written is a poll_ready before it.
StartSend(p, payload) ==
    /\ w[p].state = "Ready"
    /\ frames' = [frames EXCEPT ![p] = Append(@, payload)]
    /\ w' = [w EXCEPT ![p] = [state |-> "WriteLen", off |-> 0]]

\* What is left of the length, or of the data, of the frame that is being written.
Remaining(p) ==
    CASE w[p].state = "WriteLen"  -> 2 - w[p].off
      [] w[p].state = "WriteData" -> Length(frames[p][Len(frames[p])]) - w[p].off
      [] OTHER -> 0

\* poll_ready: the socket takes some of it.
WriteSome(p) ==
    \E n \in 1 .. Remaining(p) :
        LET first == IF w[p].state = "WriteLen" THEN w[p].off ELSE w[p].off + 2
            k     == Len(frames[p])
        IN  /\ Alive(p) /\ broken[p] = "no" /\ Len(wire[p]) + n <= Room
            /\ wire' = [wire EXCEPT ![p] = @ \o [i \in 1 .. n |-> Byte(p, k, first + i)]]
            /\ w' = [w EXCEPT ![p] =
                        IF n < Remaining(p)          THEN [@ EXCEPT !.off = w[p].off + n]
                        ELSE IF @.state = "WriteLen" THEN [state |-> "WriteData", off |-> 0]
                                                     ELSE WReady]
            /\ UNCHANGED <<setup, link, broken, frames, r, hs, out, app>>

\* The socket takes nothing: the end of this direction.  (An error leaves the state as it
\* is, for the next call to fail as well.)
WriteEof(p) ==
    /\ Alive(p) /\ Remaining(p) > 0 /\ (~Alive(Other(p)) \/ broken[p] # "no")
    /\ w' = [w EXCEPT ![p].state = "Eof"]
    /\ UNCHANGED <<setup, wire, link, broken, frames, r, hs, out, app>>

-----------------------------------------------------------------------------
(* Frames: reading.                                                        *)

\* read_state, the bytes of the part that is being read, the number of frames opened and
\* what the poll returned.
None   == [kind |-> "none"]
RReady == [state |-> "ReadLen", buf |-> <<>>, len |-> 0, opened |-> 0, item |-> None]

Whole(buf, k) == \A i \in DOMAIN buf : buf[i].frame = k /\ buf[i].at = i + 2

\* The lengths two bytes may stand for: anything, if they are not a frame's first.
Lengths(buf) ==
    IF buf[1].at = 1 /\ buf[2].at = 2 /\ buf[1].frame = buf[2].frame
    THEN {buf[1].len} ELSE 0 .. Width - 1

\* What is kept of a length when the socket has no more of it.  (Mutant: nothing.)
Kept_Nothing(buf) == <<>>
Kept(buf)         == buf

\* Who reads: a handshake that receives, or an application out of bytes.
Reading(p) ==
    /\ r[p].item = None
    /\ \/ Going(p) /\ Step(p) \in {"recv_empty", "recv_identity"}
       \/ Established(p) /\ out[p].recv = <<>> /\ hs[p].state = "done"

Taken(p, n) == SubSeq(wire[Other(p)], 1, n)
Take(p, n)  == wire' = [wire EXCEPT ![Other(p)] = SubSeq(@, n + 1, Len(@))]

ReadLen(p) ==
    /\ Reading(p) /\ r[p].state = "ReadLen"
    /\ \E n \in 1 .. 2 - Len(r[p].buf) :
        /\ n <= Len(wire[Other(p)])
        /\ Take(p, n)
        /\ LET buf == r[p].buf \o Taken(p, n)
           IN  IF Len(buf) < 2 THEN r' = [r EXCEPT ![p].buf = Kept(buf)]
               ELSE \E len \in Lengths(buf) :
                        r' = [r EXCEPT ![p].buf = <<>>, ![p].len = len,
                                       ![p].state = IF len = 0 THEN "ReadLen" ELSE "ReadData"]
    /\ UNCHANGED <<setup, link, broken, frames, w, hs, out, app>>

\* The last byte opens the frame, or does not.
ReadData(p) ==
    /\ Reading(p) /\ r[p].state = "ReadData"
    /\ \E n \in 1 .. r[p].len - Len(r[p].buf) :
        /\ n <= Len(wire[Other(p)])
        /\ Take(p, n)
        /\ LET buf  == r[p].buf \o Taken(p, n)
               k    == r[p].opened + 1
               opens == Whole(buf, k) /\ Len(buf) = Length(frames[Other(p)][k])
           IN  r' = [r EXCEPT ![p] =
                        IF Len(buf) < @.len THEN [@ EXCEPT !.buf = buf]
                        ELSE IF opens
                        THEN [RReady EXCEPT !.opened = k,
                                            !.item = [kind |-> "frame", payload |-> frames[Other(p)][k]]]
                        ELSE [@ EXCEPT !.state = "DecErr", !.item = [kind |-> "error"]]]
    /\ UNCHANGED <<setup, link, broken, frames, w, hs, out, app>>

\* An end of the stream between the bytes of a length counts as expected.
ReadEof(p) ==
    /\ Reading(p) /\ wire[Other(p)] = <<>> /\ link[Other(p)] = "shut" /\ broken[p] # "due"
    /\ r' = [r EXCEPT ![p].state = IF @ = "ReadLen" THEN "EofOk" ELSE "EofErr",
                      ![p].item = IF r[p].state = "ReadLen" THEN [kind |-> "eof"] ELSE [kind |-> "error"]]
    /\ UNCHANGED <<setup, wire, link, broken, frames, w, hs, out, app>>

\* A socket reports that its connection was reset, once, and is at its end then.
ReadReset(p) ==
    /\ Reading(p) /\ broken[p] = "due"
    /\ broken' = [broken EXCEPT ![p] = "told"]
    /\ r' = [r EXCEPT ![p].item = [kind |-> "error"]]
    /\ UNCHANGED <<setup, wire, link, frames, w, hs, out, app>>

-----------------------------------------------------------------------------
(* The steps of a handshake.                                               *)

\* An end that gives up drops its socket.
Fail(p) ==
    /\ hs' = [hs EXCEPT ![p].state = "failed"]
    /\ link' = [link EXCEPT ![p] = "shut"]

Advance(p, new) == hs' = [hs EXCEPT ![p] = [new EXCEPT !.step = @ + 1]]

Send(p) ==
    /\ Going(p) /\ Step(p) \in {"send_empty", "send_identity"} /\ ~hs[p].sent
    /\ StartSend(p, IF Step(p) = "send_empty" THEN Empty ELSE Identity(p))
    /\ hs' = [hs EXCEPT ![p].sent = TRUE]
    /\ UNCHANGED <<setup, wire, link, broken, r, out, app>>

\* send ends when the frame is out.
Sent(p) ==
    /\ Going(p) /\ hs[p].sent
    /\ \/ w[p].state = "Ready" /\ Advance(p, [hs[p] EXCEPT !.sent = FALSE]) /\ UNCHANGED link
       \/ w[p].state = "Eof" /\ Fail(p)
    /\ UNCHANGED <<setup, wire, broken, frames, w, r, out, app>>

\* A payload in the old format is not understood, unless the end is lenient.
Decodes(payload) == payload.kind = "identity" /\ (payload.old => setup.lenient)

\* mutant: a key is compared with one that was never known
Accepts_Known(p, payload) == hs[p].key = payload.key
Accepts(p, payload) ==
    payload.key = Nobody \/ hs[p].key \in {Nobody, payload.key}

Recv(p) ==
    /\ Going(p) /\ r[p].item # None
    /\ r' = [r EXCEPT ![p].item = None]
    /\ LET item == r[p].item
       IN  \/ /\ Step(p) = "recv_empty" /\ item = [kind |-> "frame", payload |-> Empty]
              /\ Advance(p, hs[p]) /\ UNCHANGED link
           \/ /\ Step(p) = "recv_identity" /\ item.kind = "frame"
              /\ Decodes(item.payload) /\ Accepts(p, item.payload)
              /\ Advance(p, [hs[p] EXCEPT !.key = IF item.payload.key = Nobody THEN @ ELSE item.payload.key,
                                          !.sig = item.payload.sig])
              /\ UNCHANGED link
           \/ /\ IF item.kind # "frame" THEN TRUE
                 ELSE IF Step(p) = "recv_empty" THEN item.payload # Empty
                 ELSE ~(Decodes(item.payload) /\ Accepts(p, item.payload))
              /\ Fail(p)
    /\ UNCHANGED <<setup, wire, broken, frames, w, out, app>>

\* The remote after its last message: a key that is proved, an unproved one or none.
Remote(p) ==
    IF hs[p].key = Nobody THEN Nobody
    ELSE IF Verified(hs[p].key, hs[p].sig, p) THEN hs[p].key ELSE "invalid"

\* The port of masters and nodes looks a peer up in the table of nodes, the port of
\* clients in that of users; a client admits any identity.
AdmitsNode(p) == "nodes" \in setup.rows[Other(p)]
AdmitsUser(p) == "users" \in setup.rows[Other(p)]
Admits(p) ==
    /\ Remote(p) \notin {Nobody, "invalid"}
    /\ setup.check[p] = "nodes" => AdmitsNode(p)
    /\ setup.check[p] = "users" => AdmitsUser(p)

\* The upgrade is complete: the peer is who it proved to be, and is admitted.
Finish(p) ==
    /\ Going(p) /\ Step(p) = "finish"
    /\ IF Admits(p)
       THEN /\ peer' = [peer EXCEPT ![p] = Remote(p)]
            /\ hs' = [hs EXCEPT ![p].state = "done"]
            /\ UNCHANGED link
       ELSE Fail(p) /\ UNCHANGED peer
    /\ UNCHANGED <<setup, wire, broken, frames, w, r, out, written, read>>

-----------------------------------------------------------------------------
(* The stream of bytes.                                                    *)

\* mutant: a buffer that never shrinks
Resized_Grown(buf, n) == IF n > Len(buf) THEN [i \in 1 .. n |-> IF i <= Len(buf) THEN buf[i] ELSE 0] ELSE buf
\* send_buffer of length n: what it held stays where it is not written.
Resized(buf, n) == [i \in 1 .. n |-> IF i <= Len(buf) THEN buf[i] ELSE 0]

Open(p) == Established(p) /\ link[p] = "open"

\* How much of n bytes goes into a buffer that holds off.  (Mutant: all.)
Took_All(off, n) == n
Took(off, n)     == IF n < MaxFrame - off THEN n ELSE MaxFrame - off

\* poll_write: a full buffer is sent first.
Buffered(p) ==
    IF out[p].fill = MaxFrame
    THEN StartSend(p, Data(out[p].send))
    ELSE UNCHANGED <<frames, w>>

AppWrite(p) ==
    /\ Open(p)
    /\ \E n \in 1 .. MaxBytes[p] - Len(written[p]) :
        LET off  == IF out[p].fill = MaxFrame THEN 0 ELSE out[p].fill
            took == Took(off, n)
            base == Len(written[p])
            old  == Resized(out[p].send, off + took)
        IN  /\ Buffered(p)
            /\ out' = [out EXCEPT ![p].fill = off + took,
                                  ![p].send = [i \in DOMAIN old |-> IF i \in off + 1 .. off + took
                                                                     THEN base + i - off ELSE old[i]]]
            /\ written' = [written EXCEPT ![p] = @ \o [i \in 1 .. took |-> base + i]]
    /\ UNCHANGED <<setup, wire, link, broken, r, hs, peer, read>>

\* poll_flush: what is buffered is sent.
Flush(p) ==
    /\ Open(p) /\ out[p].fill > 0
    /\ StartSend(p, Data(out[p].send))
    /\ out' = [out EXCEPT ![p].fill = 0]
    /\ UNCHANGED <<setup, wire, link, broken, r, hs, app>>

\* mutant: what is buffered is not flushed first
Flushed_Framed(p) == w[p].state = "Ready"
Flushed(p)        == out[p].fill = 0 /\ w[p].state = "Ready"

\* mutant: the socket stays open
Close_Open(p) ==
    /\ Open(p) /\ Flushed(p) /\ ~hs[p].closed
    /\ hs' = [hs EXCEPT ![p].closed = TRUE]
    /\ UNCHANGED <<setup, wire, link, broken, frames, w, r, out, app>>
\* poll_close: after a flush.
Close(p) ==
    /\ Open(p) /\ Flushed(p)
    /\ link' = [link EXCEPT ![p] = "shut"]
    /\ hs' = [hs EXCEPT ![p].closed = TRUE]
    /\ UNCHANGED <<setup, wire, broken, frames, w, r, out, app>>

\* poll_read: a frame becomes the buffer, and the buffer is handed out.
Refill(p) ==
    /\ Established(p) /\ r[p].item # None
    /\ IF r[p].item.kind = "frame"
       THEN /\ out' = [out EXCEPT ![p].recv = r[p].item.payload.bytes, ![p].taken = 0]
            /\ UNCHANGED hs
       ELSE hs' = [hs EXCEPT ![p].state = r[p].item.kind] /\ UNCHANGED out
    /\ r' = [r EXCEPT ![p].item = None]
    /\ UNCHANGED <<setup, wire, link, broken, frames, w, app>>

AppRead(p) ==
    /\ Established(p)
    /\ \E n \in 1 .. Len(out[p].recv) - out[p].taken :
        LET taken == out[p].taken + n
        IN  /\ read' = [read EXCEPT ![p] = @ \o SubSeq(out[p].recv, out[p].taken + 1, taken)]
            /\ out' = [out EXCEPT ![p].taken = taken,
                                  ![p].recv = IF taken = Len(@) THEN <<>> ELSE @]
    /\ UNCHANGED <<setup, wire, link, broken, frames, w, r, hs, peer, written>>

-----------------------------------------------------------------------------
(* What goes wrong.                                                        *)

\* A process ends: what its socket holds still arrives.
End(p) ==
    /\ MayBreak /\ Alive(p)
    /\ link' = [link EXCEPT ![p] = "shut"]
    /\ hs' = [hs EXCEPT ![p].state = "ended"]
    /\ UNCHANGED <<setup, wire, broken, frames, w, r, out, app>>

\* The connection is reset: what is under way is gone.
Reset ==
    /\ MayBreak /\ \A p \in Sides : broken[p] = "no" /\ Alive(p)
    /\ wire' = [p \in Sides |-> <<>>]
    /\ link' = [p \in Sides |-> "shut"]
    /\ broken' = [p \in Sides |-> "due"]
    /\ UNCHANGED <<setup, frames, w, r, hs, out, app>>

-----------------------------------------------------------------------------
Init ==
    /\ setup \in Setups
    /\ wire = [p \in Sides |-> <<>>] /\ link = [p \in Sides |-> "open"] /\ broken = [p \in Sides |-> "no"]
    /\ frames = [p \in Sides |-> <<>>]
    /\ w = [p \in Sides |-> WReady] /\ r = [p \in Sides |-> RReady]
    /\ hs = [p \in Sides |-> [step |-> 1, sent |-> FALSE, state |-> "going", closed |-> FALSE,
                              key |-> Upgrade(p).expects, sig |-> NoSignature]]
    /\ out = [p \in Sides |-> [send |-> <<>>, fill |-> 0, recv |-> <<>>, taken |-> 0]]
    /\ peer = [p \in Sides |-> Nobody]
    /\ written = [p \in Sides |-> <<>>] /\ read = [p \in Sides |-> <<>>]

Framing(p)   == WriteSome(p) \/ WriteEof(p) \/ ReadLen(p) \/ ReadData(p) \/ ReadEof(p) \/ ReadReset(p)
Handshake(p) == Send(p) \/ Sent(p) \/ Recv(p) \/ Finish(p)
Stream(p)    == AppWrite(p) \/ Flush(p) \/ Close(p) \/ Refill(p) \/ AppRead(p)

Next == (\E p \in Sides : Framing(p) \/ Handshake(p) \/ Stream(p) \/ End(p)) \/ Reset

Spec == Init /\ [][Next]_vars

\* The executor polls who can go on, and the application reads what has come.
Fairness == \A p \in Sides : /\ WF_vars(Framing(p)) /\ WF_vars(Handshake(p))
                             /\ WF_vars(Refill(p) \/ AppRead(p))

FairSpec == Spec /\ Fairness

-----------------------------------------------------------------------------
(* Properties.                                                             *)

\* Buffers and offsets are within the frames they belong to, and identities are known.
TypeOK ==
    /\ setup \in Setups /\ link \in [Sides -> {"open", "shut"}]
    /\ peer \in [Sides -> Sides \cup {Nobody, "stranger"}]
    /\ \A p \in Sides :
        /\ Len(wire[p]) <= Room
        /\ w[p].state \in {"Ready", "WriteLen", "WriteData", "Eof"}
        /\ r[p].state \in {"ReadLen", "ReadData", "EofOk", "EofErr", "DecErr"}
        /\ r[p].state = "ReadData" => Len(r[p].buf) < r[p].len /\ r[p].len < Width
        /\ out[p].fill <= Len(out[p].send) /\ Len(out[p].send) <= MaxFrame
        /\ out[p].taken <= Len(out[p].recv) \/ out[p].recv = <<>>

\* Whatever the polls interleave with, the two ends are a secure channel: no byte is
\* lost, doubled, reordered or left over from an earlier use of a buffer (io.rs
\* poll_read and poll_write), and none passes before identities are proved.
SC == INSTANCE SecureChannel
RefinesSecureChannel == SC!Spec

\* Frames are never cut in the wrong place: an end that cannot open one (framed.rs
\* DecErr) is never reached by what the other end sends, ends or resets.
NeverGarbled == \A p \in Sides : r[p].state # "DecErr"

\* An end that closes has flushed (io.rs poll_close): who reads up to the end has read
\* everything it wrote.
CloseDelivers ==
    \A p \in Sides : hs[p].state = "eof" /\ hs[Other(p)].closed /\ broken[p] = "no" =>
                        read[p] = written[Other(p)]

\* An upgrade fails only for a reason: a process that ended, a reset, an unexpected or
\* unlisted peer, or the old format of payloads where it is not understood.
FailsForAReason ==
    (\E p \in Sides : hs[p].state = "failed") =>
        \/ \E p \in Sides : hs[p].state = "ended" \/ broken[p] # "no"
                             \/ setup.check[p] \notin setup.rows[Other(p)] \cup {Nobody}
        \/ setup.expected = "stranger"
        \/ ~setup.lenient /\ \E p \in Sides : setup.old[p]

\* No pattern lets both ends wait for each other: every upgrade completes or fails
\* (handshake.rs rt1_* and rt15_*).
NobodyHangs == <>(\A p \in Sides : hs[p].state # "going")

\* Who stays reads up to the end the other made, if nothing breaks (framed.rs poll_next
\* and poll_close): no reader waits for bytes that were left in a buffer.
EndIsRead ==
    <>[](\A p \in Sides : hs[p].closed /\ Established(Other(p)) /\ broken[p] = "no" =>
                                hs[Other(p)].state = "eof")
=============================================================================
