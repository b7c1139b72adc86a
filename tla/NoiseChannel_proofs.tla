-------------------------- MODULE NoiseChannel_proofs --------------------------
(***************************************************************************)
(* Proofs about NoiseChannel, for any lengths of frames, room on the wire, *)
(* bytes to write and ways to configure the ends.                          *)
(*                                                                         *)
(* The two directions of a connection are alike.  What is on the wire is   *)
(* a run of bytes between the place of the writer and that of the reader   *)
(* (Flow): every byte tells the place of those behind it.  What the reader *)
(* has handed out are the numbers up to the end of the last frame it used  *)
(* (Cargo, Unpacked), and a handshake counts the frames of both ends       *)
(* (Hand).                                                                 *)
(***************************************************************************)
EXTENDS NoiseChannel, SequenceTheorems, TLAPS

Bytes == [frame : Nat, at : Nat, len : Nat]
Names == Sides \cup {Nobody, "stranger"}
Sigs  == [by : Names, over : Names]
Payloads == {Empty} \cup [kind : {"identity"}, key : Names, sig : Sigs, old : BOOLEAN]
                    \cup [kind : {"data"}, bytes : Seq(Nat)]
Items == [kind : {"none", "eof", "error"}] \cup [kind : {"frame"}, payload : Payloads]

Writers == [state : {"Ready", "WriteLen", "WriteData", "Eof"}, off : Nat]
Readers == [state : {"ReadLen", "ReadData", "EofOk", "EofErr", "DecErr"}, buf : Seq(Bytes),
            len : Nat, opened : Nat, item : Items]
Hands   == [step : Nat, sent : BOOLEAN, closed : BOOLEAN, key : Names, sig : Sigs,
            state : {"going", "done", "failed", "ended", "eof", "error"}]
Buffers == [send : Seq(Nat), fill : Nat, recv : Seq(Nat), taken : Nat]

Typed ==
    /\ setup \in Setups
    /\ wire \in [Sides -> Seq(Bytes)]
    /\ link \in [Sides -> {"open", "shut"}] /\ broken \in [Sides -> {"no", "due", "told"}]
    /\ frames \in [Sides -> Seq(Payloads)]
    /\ w \in [Sides -> Writers] /\ r \in [Sides -> Readers]
    /\ hs \in [Sides -> Hands] /\ out \in [Sides -> Buffers]
    /\ peer \in [Sides -> Names]
    /\ written \in [Sides -> Seq(Nat)] /\ read \in [Sides -> Seq(Nat)]

-----------------------------------------------------------------------------
(* Frames.                                                                 *)

\* The messages of the handshake that p sends, before any data.
Hello(p) ==
    IF setup.pattern = "XX" /\ p = "dialer" THEN <<Empty, Identity(p)>> ELSE <<Identity(p)>>

Framed(p) ==
    \A k \in DOMAIN frames[p] :
        IF k <= Len(Hello(p)) THEN frames[p][k] = Hello(p)[k]
        ELSE /\ frames[p][k].kind = "data" /\ frames[p][k].bytes \in Seq(Nat)
             /\ Len(frames[p][k].bytes) \in 1 .. MaxFrame

-----------------------------------------------------------------------------
(* The bytes under way from p.                                             *)

\* The place of the next byte that p writes, and that q reads.
Writing(p)  == w[p].state # "Eof" /\ broken[p] = "no"
OutFrame(p) == IF w[p].state = "Ready" THEN Len(frames[p]) + 1 ELSE Len(frames[p])
OutAt(p)    == CASE w[p].state = "WriteLen"  -> w[p].off + 1
                 [] w[p].state = "WriteData" -> w[p].off + 3
                 [] OTHER -> 1

Readable(q) == r[q].state \in {"ReadLen", "ReadData"}
InFrame(q)  == r[q].opened + 1
InAt(q)     == IF r[q].state = "ReadLen" THEN Len(r[q].buf) + 1 ELSE Len(r[q].buf) + 3

\* Place at of frame f is d bytes after the byte b.
Left(p, b) == Length(frames[p][b.frame]) + 2 - b.at
After(p, b, d, f, at) ==
    /\ d <= Left(p, b) => f = b.frame /\ at = b.at + d
    /\ d = Left(p, b) + 1 => f = b.frame + 1 /\ at = 1

Place(p, b) ==
    /\ b.frame \in DOMAIN frames[p]
    /\ b.at \in 1 .. Length(frames[p][b.frame]) + 2
    /\ b.len = Length(frames[p][b.frame])

OnWire(p) ==
    /\ broken[p] # "no" => wire[p] = <<>>
    /\ \A i \in DOMAIN wire[p] : Place(p, wire[p][i])
    /\ \A i, j \in DOMAIN wire[p] :
            i <= j => After(p, wire[p][i], j - i, wire[p][j].frame, wire[p][j].at)
    /\ Writing(p) => \A i \in DOMAIN wire[p] :
            After(p, wire[p][i], Len(wire[p]) + 1 - i, OutFrame(p), OutAt(p))

\* p's place is within its last frame, q's within the one it expects, and what is between
\* them is on the wire.
WriterAt(p) ==
    /\ w[p].state \in {"WriteLen", "WriteData"} => frames[p] # <<>>
    /\ w[p].state = "WriteLen" => w[p].off \in {0, 1}
    /\ w[p].state = "WriteData" => w[p].off < Length(frames[p][Len(frames[p])])

ReaderAt(p, q) ==
    /\ r[q].opened <= Len(frames[p])
    /\ r[q].state # "DecErr"
    /\ r[q].state = "ReadLen" =>
        /\ Len(r[q].buf) <= 1
        /\ \A i \in DOMAIN r[q].buf :
            /\ r[q].opened + 1 \in DOMAIN frames[p]
            /\ r[q].buf[i] = [frame |-> r[q].opened + 1, at |-> i,
                              len |-> Length(frames[p][r[q].opened + 1])]
    /\ r[q].state = "ReadData" =>
        /\ r[q].opened + 1 \in DOMAIN frames[p]
        /\ r[q].len = Length(frames[p][r[q].opened + 1])
        /\ Len(r[q].buf) < r[q].len
        /\ Whole(r[q].buf, r[q].opened + 1)

Meets(p, q) ==
    Readable(q) =>
        /\ wire[p] # <<>> => wire[p][1].frame = InFrame(q) /\ wire[p][1].at = InAt(q)
        /\ wire[p] = <<>> /\ Writing(p) => OutFrame(p) = InFrame(q) /\ OutAt(p) = InAt(q)

Flow(p) == Framed(p) /\ OnWire(p) /\ WriterAt(p) /\ ReaderAt(p, Other(p)) /\ Meets(p, Other(p))

-----------------------------------------------------------------------------
(* The bytes of the application.                                           *)

\* The last byte of p's application in its first k frames.
EndOf(p, k) ==
    IF k <= Len(Hello(p)) THEN 0 ELSE frames[p][k].bytes[Len(frames[p][k].bytes)]

Numbered(s) == \A i \in DOMAIN s : s[i] = i

Cargo(p) ==
    /\ Numbered(written[p])
    /\ \A k \in DOMAIN frames[p] : k > Len(Hello(p)) =>
            \A i \in DOMAIN frames[p][k].bytes : frames[p][k].bytes[i] = EndOf(p, k - 1) + i
    /\ out[p].fill <= Len(written[p]) /\ out[p].fill <= Len(out[p].send)
    /\ Len(out[p].send) <= MaxFrame
    /\ \A k \in 0 .. Len(frames[p]) :
            EndOf(p, k) \in Nat /\ EndOf(p, k) <= Len(written[p]) - out[p].fill
    /\ EndOf(p, Len(frames[p])) = Len(written[p]) - out[p].fill
    /\ out[p].fill > 0 =>
        /\ Len(out[p].send) = out[p].fill
        /\ \A i \in 1 .. out[p].fill : out[p].send[i] = Len(written[p]) - out[p].fill + i

\* The frames q is done with but for what its buffer holds.
Used(q) == IF r[q].item.kind = "frame" THEN r[q].opened - 1 ELSE r[q].opened

Unpacked(p, q) ==
    /\ Numbered(read[q])
    /\ r[q].item.kind = "frame" =>
        /\ r[q].opened \in DOMAIN frames[p]
        /\ r[q].item.payload = frames[p][r[q].opened]
        /\ out[q].recv = <<>>
    /\ out[q].recv = <<>> => Len(read[q]) = EndOf(p, Used(q))
    /\ out[q].recv # <<>> =>
        /\ r[q].opened \in DOMAIN frames[p] /\ r[q].opened > Len(Hello(p))
        /\ out[q].recv = frames[p][r[q].opened].bytes
        /\ out[q].taken < Len(out[q].recv)
        /\ Len(read[q]) = EndOf(p, r[q].opened - 1) + out[q].taken

-----------------------------------------------------------------------------
(* Handshakes.                                                             *)

\* What p has sent and received before a step.
Sends(p, s) ==
    IF p = "dialer" THEN IF setup.pattern = "XX" /\ s > 3 THEN 2 ELSE IF s > 1 THEN 1 ELSE 0
                    ELSE IF s > 2 THEN 1 ELSE 0
Recvs(p, s) ==
    IF p = "listener" THEN IF setup.pattern = "XX" /\ s > 3 THEN 2 ELSE IF s > 1 THEN 1 ELSE 0
                      ELSE IF s > 2 THEN 1 ELSE 0

\* Whether it has received the other's identity.
Knows(p, s) == s > IF p = "dialer" THEN 2 ELSE IF setup.pattern = "XX" THEN 3 ELSE 1

InHandshake(p) ==
    /\ peer[p] = Nobody /\ ~hs[p].closed
    /\ hs[p].step \in 1 .. Len(Upgrade(p).script) + 1
    /\ hs[p].sent => Step(p) \in {"send_empty", "send_identity"}
    /\ Len(frames[p]) = Sends(p, hs[p].step) + (IF hs[p].sent THEN 1 ELSE 0)
    /\ Used(p) = Recvs(p, hs[p].step)
    /\ r[p].item.kind # "none" => Step(p) \in {"recv_empty", "recv_identity"}
    /\ out[p].recv = <<>>
    /\ hs[p].sig = IF Knows(p, hs[p].step) THEN Signature(Other(p)) ELSE NoSignature
    /\ hs[p].key = IF Knows(p, hs[p].step) /\ Upgrade(Other(p)).sends
                  THEN Other(p) ELSE Upgrade(p).expects

Upgraded(p) ==
    /\ peer[p] = Other(p)
    /\ Len(frames[p]) >= Len(Hello(p)) /\ Used(p) >= Len(Hello(Other(p)))

Hand(p) ==
    /\ Going(p) => InHandshake(p)
    /\ hs[p].state \in {"done", "eof", "error"} => Upgraded(p)
    /\ peer[p] \in {Nobody, Other(p)}
    /\ hs[p].closed =>
        /\ link[p] = "shut" /\ out[p].fill = 0 /\ w[p].state = "Ready"
        /\ Len(frames[p]) >= Len(Hello(p))
    /\ hs[p].state \in {"eof", "error"} => r[p].item.kind = "none"
    /\ Going(p) \/ hs[p].state = "done" => Readable(p) \/ r[p].item.kind \in {"eof", "error"}
    /\ r[p].item.kind = "eof" \/ hs[p].state = "eof" =>
        /\ link[Other(p)] = "shut"
        /\ hs[Other(p)].closed /\ broken[p] = "no" =>
                r[p].opened = Len(frames[Other(p)]) /\ out[p].recv = <<>>

-----------------------------------------------------------------------------
(* Failures.                                                               *)

Reason ==
    \/ \E p \in Sides : hs[p].state = "ended" \/ broken[p] # "no"
                         \/ setup.check[p] \notin setup.rows[Other(p)] \cup {Nobody}
    \/ setup.expected = "stranger"
    \/ ~setup.lenient /\ \E p \in Sides : setup.old[p]

Sound(p) ==
    /\ hs[p].state # "failed"
    /\ w[p].state # "Eof"
    /\ link[p] = "shut" => hs[p].closed
    /\ Going(p) => r[p].item.kind \in {"none", "frame"}

Explained == Reason \/ \A p \in Sides : Sound(p)

BothBroken == \A p \in Sides : broken[p] = "no" => broken[Other(p)] = "no"

NInv ==
    /\ Typed /\ BothBroken
    /\ \A p \in Sides : Len(wire[p]) <= Room /\ Flow(p)
    /\ \A p \in Sides : Cargo(p) /\ Unpacked(Other(p), p)
    /\ \A p \in Sides : Hand(p)
    /\ Explained

-----------------------------------------------------------------------------
(* Ends, lengths and sequences.                                            *)

LEMMA TwoSides ==
  /\ Other("dialer") = "listener" /\ Other("listener") = "dialer"
  /\ \A p \in Sides : /\ Other(p) \in Sides /\ Other(p) # p /\ Other(Other(p)) = p
                      /\ \A q \in Sides : q = p \/ q = Other(p)
  /\ Sides \subseteq Names /\ Nobody \in Names /\ Nobody \notin Sides
<1>1. Other("dialer") = "listener" /\ Other("listener") = "dialer"
  BY DEF Other, Sides
<1> QED
  BY <1>1 DEF Sides, Names, Nobody

LEMMA Constants ==
  /\ MaxFrame \in Nat /\ MaxFrame >= 1 /\ Extra \in Nat /\ Extra >= 1 /\ Room \in Nat
  /\ Width \in Nat /\ MaxFrame + Extra < Width
  /\ \A p \in Sides : MaxBytes[p] \in Nat
  BY ConstantsAssumption

LEMMA SetupIs ==
  ASSUME Typed
  PROVE  /\ setup.pattern \in {"IK", "IX", "XX"} /\ setup.expected \in {Nobody, "listener", "stranger"}
         /\ \A p \in Sides : /\ setup.old[p] \in BOOLEAN /\ setup.check[p] \in {"nodes", "users", Nobody}
         /\ setup.lenient \in BOOLEAN
         /\ setup.pattern = "IK" <=> setup.expected # Nobody
  BY ConstantsAssumption DEF Typed, AllSetups

LEMMA UpgradeIs ==
  ASSUME Typed, NEW p \in Sides
  PROVE  /\ Upgrade(p).script = IF setup.pattern = "XX" THEN OneAndAHalf(p) ELSE RoundTrip(p)
         /\ Upgrade(p).sends = (setup.pattern # "IK" \/ p = "dialer")
         /\ Upgrade(p).expects = IF p = "dialer" THEN setup.expected ELSE Nobody
         /\ Upgrade(p).expects \in Names
<1>1. CASE setup.pattern = "XX"
  BY <1>1, SetupIs DEF Upgrade, XX, Names
<1>2. CASE setup.pattern = "IX"
  BY <1>2, SetupIs DEF Upgrade, IX, Names
<1>3. CASE setup.pattern = "IK"
  BY <1>3, SetupIs DEF Upgrade, IK, Names, Sides
<1> QED
  BY <1>1, <1>2, <1>3, SetupIs

LEMMA SignatureIs ==
  /\ \A p \in Sides : Signature(p) \in Sigs /\ Signature(p).by = p /\ Signature(p).over = p
  /\ NoSignature \in Sigs /\ NoSignature.over = Nobody
  BY TwoSides DEF Signature, NoSignature, Sigs

LEMMA IdentityIs ==
  ASSUME Typed, NEW p \in Sides
  PROVE  /\ Identity(p) \in Payloads /\ Empty \in Payloads
         /\ Identity(p).kind = "identity" /\ Identity(p).sig = Signature(p)
         /\ Identity(p).key = IF Upgrade(p).sends THEN p ELSE Nobody
         /\ Identity(p).old = setup.old[p]
         /\ Identity(p) # Empty /\ Empty.kind = "empty"
<1>1. /\ Identity(p).kind = "identity" /\ Identity(p).sig = Signature(p)
      /\ Identity(p).key = IF Upgrade(p).sends THEN p ELSE Nobody
      /\ Identity(p).old = setup.old[p]
  BY DEF Identity
<1>2. Identity(p) \in Payloads
  BY SetupIs, SignatureIs, TwoSides DEF Identity, Payloads
<1>3. Empty \in Payloads /\ Empty.kind = "empty"
  BY DEF Payloads, Empty
<1> QED
  BY <1>1, <1>2, <1>3

LEMMA HelloIs ==
  ASSUME Typed, NEW p \in Sides
  PROVE  /\ Len(Hello(p)) = IF setup.pattern = "XX" /\ p = "dialer" THEN 2 ELSE 1
         /\ Hello(p)[Len(Hello(p))] = Identity(p)
         /\ Len(Hello(p)) = 2 => Hello(p)[1] = Empty
         /\ \A k \in 1 .. Len(Hello(p)) : Hello(p)[k].kind # "data"
<1>1. CASE setup.pattern = "XX" /\ p = "dialer"
  <2>1. Hello(p) = <<Empty, Identity(p)>>
    BY <1>1 DEF Hello
  <2>2. Len(Hello(p)) = 2 /\ Hello(p)[1] = Empty /\ Hello(p)[2] = Identity(p)
    BY <2>1
  <2> QED
    BY <1>1, <2>2, IdentityIs
<1>2. CASE ~(setup.pattern = "XX" /\ p = "dialer")
  <2>1. Hello(p) = <<Identity(p)>>
    BY <1>2 DEF Hello
  <2>2. Len(Hello(p)) = 1 /\ Hello(p)[1] = Identity(p)
    BY <2>1
  <2> QED
    BY <1>2, <2>2, IdentityIs
<1> QED
  BY <1>1, <1>2

\* Every frame has a length that two bytes can hold, and is not empty.
LEMMA LengthIs ==
  ASSUME Typed, NEW p \in Sides, Framed(p)
  PROVE  \A k \in DOMAIN frames[p] :
            /\ k \in Nat /\ k >= 1 /\ k <= Len(frames[p])
            /\ Length(frames[p][k]) \in Nat /\ Length(frames[p][k]) >= 1
            /\ Length(frames[p][k]) < Width
            /\ Length(frames[p][k]) % Width = Length(frames[p][k])
<1> SUFFICES ASSUME NEW k \in DOMAIN frames[p]
             PROVE  /\ k \in Nat /\ k >= 1 /\ k <= Len(frames[p])
                    /\ Length(frames[p][k]) \in Nat /\ Length(frames[p][k]) >= 1
                    /\ Length(frames[p][k]) < Width
                    /\ Length(frames[p][k]) % Width = Length(frames[p][k])
  OBVIOUS
<1>1. k \in Nat /\ k >= 1 /\ k <= Len(frames[p])
  <2>1. frames[p] \in Seq(Payloads)
    BY DEF Typed
  <2> QED
    BY <2>1
<1>2. Length(frames[p][k]) \in Nat /\ Length(frames[p][k]) >= 1 /\ Length(frames[p][k]) < Width
  <2>1. CASE k <= Len(Hello(p))
    <3>1. frames[p][k].kind # "data"
      BY <1>1, <2>1, HelloIs DEF Framed
    <3> QED
      BY <3>1, Constants DEF Length
  <2>2. CASE ~(k <= Len(Hello(p)))
    <3>1. frames[p][k].kind = "data" /\ Len(frames[p][k].bytes) \in 1 .. MaxFrame
      BY <2>2 DEF Framed
    <3> QED
      BY <3>1, Constants DEF Length
  <2> QED
    BY <2>1, <2>2
<1> QED
  BY <1>1, <1>2, Constants

\* What is left of a sequence whose first bytes are taken.
LEMMA TakenIs ==
  ASSUME NEW S, NEW s \in Seq(S), NEW n \in Nat, n <= Len(s)
  PROVE  /\ SubSeq(s, 1, n) \in Seq(S) /\ Len(SubSeq(s, 1, n)) = n
         /\ \A i \in 1 .. n : SubSeq(s, 1, n)[i] = s[i]
         /\ SubSeq(s, n + 1, Len(s)) \in Seq(S) /\ Len(SubSeq(s, n + 1, Len(s))) = Len(s) - n
         /\ \A i \in 1 .. Len(s) - n : SubSeq(s, n + 1, Len(s))[i] = s[n + i]
<1>1. Len(s) \in Nat /\ \A i \in 1 .. Len(s) : s[i] \in S
  OBVIOUS
<1>2. /\ SubSeq(s, 1, n) \in Seq(S) /\ Len(SubSeq(s, 1, n)) = n
      /\ \A i \in 1 .. n : SubSeq(s, 1, n)[i] = s[i]
  <2>1. \A i \in 1 .. n : s[i] \in S
    BY <1>1
  <2>2. /\ SubSeq(s, 1, n) \in Seq(S)
        /\ Len(SubSeq(s, 1, n)) = IF 1 <= n THEN n - 1 + 1 ELSE 0
        /\ \A i \in 1 .. n - 1 + 1 : SubSeq(s, 1, n)[i] = s[1 + i - 1]
    BY <2>1, SubSeqProperties
  <2> QED
    BY <2>2
<1>3. /\ SubSeq(s, n + 1, Len(s)) \in Seq(S) /\ Len(SubSeq(s, n + 1, Len(s))) = Len(s) - n
      /\ \A i \in 1 .. Len(s) - n : SubSeq(s, n + 1, Len(s))[i] = s[n + i]
  <2>1. \A i \in n + 1 .. Len(s) : s[i] \in S
    BY <1>1
  <2> DEFINE m == n + 1
             l == Len(s)
  <2>2. m \in Int /\ l \in Int /\ \A i \in m .. l : s[i] \in S
    BY <1>1, <2>1
  <2> HIDE DEF m, l
  <2>3. /\ SubSeq(s, m, l) \in Seq(S)
        /\ Len(SubSeq(s, m, l)) = IF m <= l THEN l - m + 1 ELSE 0
        /\ \A i \in 1 .. l - m + 1 : SubSeq(s, m, l)[i] = s[m + i - 1]
    BY <2>2, SubSeqProperties
  <2> QED
    BY <1>1, <2>3 DEF m, l
<1> QED
  BY <1>2, <1>3

-----------------------------------------------------------------------------
(* Steps that leave the bytes of a direction alone.                        *)

LEMMA SetupKept ==
  ASSUME UNCHANGED setup
  PROVE  /\ \A p : Upgrade(p)' = Upgrade(p)
         /\ \A p : Identity(p)' = Identity(p) /\ Hello(p)' = Hello(p)
         /\ \A p, s : Sends(p, s)' = Sends(p, s) /\ Recvs(p, s)' = Recvs(p, s)
                      /\ Knows(p, s)' = Knows(p, s)
<1>1. \A p : Upgrade(p)' = Upgrade(p)
  BY DEF Upgrade, IX, XX, IK
<1>2. \A p : Identity(p)' = Identity(p)
  BY <1>1 DEF Identity
<1>3. \A p : Hello(p)' = Hello(p)
  BY <1>2 DEF Hello
<1>4. \A p, s : Sends(p, s)' = Sends(p, s) /\ Recvs(p, s)' = Recvs(p, s)
                /\ Knows(p, s)' = Knows(p, s)
  BY DEF Sends, Recvs, Knows
<1> QED
  BY <1>1, <1>2, <1>3, <1>4

\* Frames that are there stay as they are.
Longer(p) ==
    /\ Len(frames[p]) <= Len(frames[p])'
    /\ \A k \in DOMAIN frames[p] : k \in DOMAIN frames'[p] /\ frames'[p][k] = frames[p][k]

SameReader(q) ==
    /\ r'[q].state = r[q].state /\ r'[q].buf = r[q].buf
    /\ r'[q].len = r[q].len /\ r'[q].opened = r[q].opened

LEMMA FlowKept ==
  ASSUME NEW p \in Sides, Typed, Typed', Flow(p), UNCHANGED setup, Longer(p), Framed(p)', WriterAt(p)',
         wire'[p] = wire[p], broken'[p] = broken[p], SameReader(Other(p)),
         Writing(p)' => Writing(p) /\ OutFrame(p)' = OutFrame(p) /\ OutAt(p)' = OutAt(p)
  PROVE  Flow(p)'
<1> DEFINE q == Other(p)
<1>1. q \in Sides
  BY TwoSides
<1>2. \A i \in DOMAIN wire[p] : Place(p, wire[p][i]) /\ Place(p, wire[p][i])'
                                /\ Left(p, wire[p][i])' = Left(p, wire[p][i])
  <2>1. \A i \in DOMAIN wire[p] : Place(p, wire[p][i])
    BY DEF Flow, OnWire
  <2>2. \A b : Place(p, b) => frames'[p][b.frame] = frames[p][b.frame] /\ b.frame \in DOMAIN frames'[p]
    BY DEF Place, Longer
  <2> QED
    BY <2>1, <2>2 DEF Place, Left
<1>3. \A i \in DOMAIN wire[p] : \A d, f, a :
        After(p, wire[p][i], d, f, a)' <=> After(p, wire[p][i], d, f, a)
  BY <1>2 DEF After
<1>4. OnWire(p)'
  <2>1. \A i, j \in DOMAIN wire[p] :
            i <= j => After(p, wire[p][i], j - i, wire[p][j].frame, wire[p][j].at)'
    BY <1>3 DEF Flow, OnWire
  <2>2. Writing(p)' => \A i \in DOMAIN wire[p] :
            After(p, wire[p][i], Len(wire[p]) + 1 - i, OutFrame(p), OutAt(p))'
    <3> SUFFICES ASSUME Writing(p)', NEW i \in DOMAIN wire[p]
                 PROVE  After(p, wire[p][i], Len(wire[p]) + 1 - i, OutFrame(p), OutAt(p))'
      OBVIOUS
    <3>1. After(p, wire[p][i], Len(wire[p]) + 1 - i, OutFrame(p), OutAt(p))
      BY DEF Flow, OnWire
    <3>2. OutFrame(p)' = OutFrame(p) /\ OutAt(p)' = OutAt(p)
      OBVIOUS
    <3> QED
      BY <1>2, <3>1, <3>2 DEF After
  <2> QED
    BY <1>2, <2>1, <2>2 DEF Flow, OnWire
<1>5. ReaderAt(p, q)'
  <2> DEFINE k == r[q].opened + 1
  <2>1. ReaderAt(p, q) /\ SameReader(q)
    BY DEF Flow
  <2>2. k \in DOMAIN frames[p] => k \in DOMAIN frames'[p] /\ frames'[p][k] = frames[p][k]
    BY DEF Longer
  <2>3. r'[q].opened <= Len(frames'[p])
    <3>1. r[q] \in Readers /\ frames[p] \in Seq(Payloads) /\ frames'[p] \in Seq(Payloads)
      BY <1>1 DEF Typed
    <3>2. r[q].opened \in Nat /\ Len(frames[p]) \in Nat /\ Len(frames'[p]) \in Nat
      BY <3>1 DEF Readers
    <3>3. r[q].opened <= Len(frames[p]) /\ Len(frames[p]) <= Len(frames'[p])
      BY <2>1 DEF ReaderAt, Longer
    <3> QED
      BY <2>1, <3>2, <3>3 DEF SameReader
  <2>4. r'[q].state = "ReadLen" =>
          /\ Len(r'[q].buf) <= 1
          /\ \A i \in DOMAIN r'[q].buf :
              /\ r'[q].opened + 1 \in DOMAIN frames'[p]
              /\ r'[q].buf[i] = [frame |-> r'[q].opened + 1, at |-> i,
                                len |-> Length(frames'[p][r'[q].opened + 1])]
    BY <2>1, <2>2 DEF ReaderAt, SameReader
  <2>5. r'[q].state = "ReadData" =>
          /\ r'[q].opened + 1 \in DOMAIN frames'[p]
          /\ r'[q].len = Length(frames'[p][r'[q].opened + 1])
          /\ Len(r'[q].buf) < r'[q].len
          /\ Whole(r'[q].buf, r'[q].opened + 1)
    BY <2>1, <2>2 DEF ReaderAt, SameReader
  <2> QED
    BY <2>1, <2>3, <2>4, <2>5 DEF ReaderAt, SameReader
<1>6. Meets(p, q)'
  BY DEF Flow, Meets, SameReader, Readable, InFrame, InAt
<1> QED
  BY <1>4, <1>5, <1>6 DEF Flow

-----------------------------------------------------------------------------
(* Places on the wire.                                                     *)

\* What is e bytes after a place that is d bytes after b is d + e bytes after b.
LEMMA AfterAfter ==
  ASSUME NEW p \in Sides, NEW b, NEW c, NEW d \in Nat, NEW e \in Nat, NEW f, NEW at,
         b.at \in Nat, c.at \in Nat, Length(frames[p][b.frame]) \in Nat,
         Length(frames[p][c.frame]) \in Nat, Left(p, c) >= 0,
         After(p, b, d, c.frame, c.at), After(p, c, e, f, at)
  PROVE  After(p, b, d + e, f, at)
<1> DEFINE m == Left(p, b)
           l == Left(p, c)
<1>1. m \in Int /\ l \in Int
  BY DEF Left
<1>2. CASE d <= m
  <2>1. c.frame = b.frame /\ c.at = b.at + d
    BY <1>2 DEF After
  <2>2. l = m - d
    BY <2>1 DEF Left
  <2>3. d + e <= m => f = b.frame /\ at = b.at + (d + e)
    <3>1. d + e <= m => e <= l
      BY <1>1, <2>2
    <3> QED
      BY <2>1, <3>1 DEF After
  <2>4. d + e = m + 1 => f = b.frame + 1 /\ at = 1
    <3>1. d + e = m + 1 => e = l + 1
      BY <1>1, <2>2
    <3> QED
      BY <2>1, <3>1 DEF After
  <2> QED
    BY <2>3, <2>4 DEF After
<1>3. CASE d = m + 1
  <2>1. e = 0 => f = c.frame /\ at = c.at
    BY DEF After
  <2>2. c.frame = b.frame + 1 /\ c.at = 1
    BY <1>3 DEF After
  <2>3. ~(d + e <= m) /\ (d + e = m + 1 => e = 0)
    BY <1>1, <1>3
  <2> QED
    BY <2>1, <2>2, <2>3 DEF After
<1>4. CASE d > m + 1
  <2>1. ~(d + e <= m) /\ d + e # m + 1
    BY <1>1, <1>4
  <2> QED
    BY <2>1 DEF After
<1> QED
  BY <1>1, <1>2, <1>3, <1>4

\* Who takes n bytes of a frame finds them in their places, and the next one behind them.
LEMMA RunRead ==
  ASSUME NEW p \in Sides, NEW q, q = Other(p), Typed, Flow(p), Readable(q),
         NEW n \in Nat, n >= 1, n <= Len(wire[p]),
         NEW k, k = InFrame(q), NEW a \in Nat, a = InAt(q), a >= 1,
         NEW l, l = Length(frames[p][k]), a + n <= l + 3
  PROVE  /\ k \in DOMAIN frames[p]
         /\ \A j \in 1 .. n : wire[p][j] = [frame |-> k, at |-> a + j - 1, len |-> l]
         /\ a + n = l + 3 =>
              /\ n < Len(wire[p]) => wire[p][n + 1].frame = k + 1 /\ wire[p][n + 1].at = 1
              /\ n = Len(wire[p]) /\ Writing(p) => OutFrame(p) = k + 1 /\ OutAt(p) = 1
         /\ a + n # l + 3 =>
              /\ n < Len(wire[p]) => wire[p][n + 1].frame = k /\ wire[p][n + 1].at = a + n
              /\ n = Len(wire[p]) /\ Writing(p) => OutFrame(p) = k /\ OutAt(p) = a + n
<1> DEFINE s == wire[p]
<1>1. s \in Seq(Bytes) /\ Len(s) \in Nat /\ DOMAIN s = 1 .. Len(s)
  BY DEF Typed
<1>2. 1 \in DOMAIN s /\ s # <<>>
  BY <1>1
<1>3. s[1].frame = k /\ s[1].at = a
  BY <1>2 DEF Flow, Meets
<1>4. k \in DOMAIN frames[p] /\ l \in Nat
  BY <1>2, <1>3, LengthIs DEF Flow, OnWire, Place
<1>5. Left(p, s[1]) = l + 2 - a
  BY <1>3 DEF Left
<1>6. ASSUME NEW j \in 1 .. n
      PROVE  s[j] = [frame |-> k, at |-> a + j - 1, len |-> l]
  <2>1. j \in DOMAIN s /\ 1 <= j /\ j - 1 <= Left(p, s[1])
    BY <1>1, <1>4, <1>5
  <2>2. After(p, s[1], j - 1, s[j].frame, s[j].at)
    BY <1>2, <2>1 DEF Flow, OnWire
  <2>3. s[j].frame = k /\ s[j].at = a + (j - 1)
    BY <1>3, <2>1, <2>2 DEF After
  <2>4. s[j].len = l
    BY <2>1, <2>3 DEF Flow, OnWire, Place
  <2>5. s[j] \in Bytes
    BY <1>1, <2>1
  <2> QED
    BY <2>3, <2>4, <2>5 DEF Bytes
<1>7. ASSUME NEW f, NEW at, After(p, s[1], n, f, at)
      PROVE  /\ a + n = l + 3 => f = k + 1 /\ at = 1
             /\ a + n # l + 3 => f = k /\ at = a + n
  <2>1. CASE a + n = l + 3
    <3>1. n = Left(p, s[1]) + 1
      BY <1>4, <1>5, <2>1
    <3> QED
      BY <1>3, <1>7, <2>1, <3>1 DEF After
  <2>2. CASE a + n # l + 3
    <3>1. n <= Left(p, s[1])
      BY <1>4, <1>5, <2>2
    <3> QED
      BY <1>3, <1>7, <2>2, <3>1 DEF After
  <2> QED
    BY <2>1, <2>2
<1>8. n < Len(s) => After(p, s[1], n, s[n + 1].frame, s[n + 1].at)
  <2> SUFFICES ASSUME n < Len(s) PROVE After(p, s[1], n, s[n + 1].frame, s[n + 1].at)
    OBVIOUS
  <2>1. n + 1 \in DOMAIN s /\ 1 <= n + 1 /\ (n + 1) - 1 = n
    BY <1>1
  <2>2. After(p, s[1], (n + 1) - 1, s[n + 1].frame, s[n + 1].at)
    BY <1>2, <2>1 DEF Flow, OnWire
  <2> QED
    BY <2>1, <2>2
<1>9. n = Len(s) /\ Writing(p) => After(p, s[1], n, OutFrame(p), OutAt(p))
  <2> SUFFICES ASSUME n = Len(s), Writing(p) PROVE After(p, s[1], n, OutFrame(p), OutAt(p))
    OBVIOUS
  <2>1. After(p, s[1], Len(s) + 1 - 1, OutFrame(p), OutAt(p))
    BY <1>2 DEF Flow, OnWire
  <2>2. Len(s) + 1 - 1 = n
    BY <1>1
  <2> QED
    BY <2>1, <2>2
<1> HIDE DEF s
<1>10. /\ n < Len(s) => (a + n = l + 3 => s[n + 1].frame = k + 1 /\ s[n + 1].at = 1)
                        /\ (a + n # l + 3 => s[n + 1].frame = k /\ s[n + 1].at = a + n)
       /\ n = Len(s) /\ Writing(p) => (a + n = l + 3 => OutFrame(p) = k + 1 /\ OutAt(p) = 1)
                        /\ (a + n # l + 3 => OutFrame(p) = k /\ OutAt(p) = a + n)
  BY <1>7, <1>8, <1>9
<1> QED
  BY <1>4, <1>6, <1>10 DEF s

\* The first n bytes on the wire are those of frame k from its place a on.
Run(p, k, a, l, n) == \A j \in 1 .. n : wire[p][j] = [frame |-> k, at |-> a + j - 1, len |-> l]

LEMMA RunIs ==
  ASSUME NEW p \in Sides, NEW q, q = Other(p), Typed, Flow(p), Readable(q),
         NEW n, n \in Nat, n >= 1, n <= Len(wire[p]),
         NEW k, k = InFrame(q), NEW a, a \in Nat, a = InAt(q), a >= 1,
         NEW l, l = Length(frames[p][k]), a + n <= l + 3
  PROVE  Run(p, k, a, l, n)
  BY RunRead DEF Run

LEMMA WireTaken ==
  ASSUME NEW p \in Sides, Typed, OnWire(p), NEW n \in Nat, n <= Len(wire[p]),
         wire'[p] = SubSeq(wire[p], n + 1, Len(wire[p])), UNCHANGED <<setup, frames, w, broken>>
  PROVE  /\ OnWire(p)' /\ wire'[p] \in Seq(Bytes) /\ Len(wire'[p]) = Len(wire[p]) - n
         /\ n < Len(wire[p]) => wire'[p][1] = wire[p][n + 1]
<1> PICK t : t = wire'[p]
  OBVIOUS
<1> DEFINE s == wire[p]
<1>1. s \in Seq(Bytes)
  BY DEF Typed
<1>2. /\ t \in Seq(Bytes) /\ Len(t) = Len(s) - n
      /\ \A i \in 1 .. Len(s) - n : t[i] = s[n + i]
  <2> HIDE DEF s
  <2> QED
    BY <1>1, TakenIs DEF s
<1>3. DOMAIN t = 1 .. Len(s) - n /\ DOMAIN s = 1 .. Len(s) /\ Len(s) \in Nat
  BY <1>1, <1>2
<1>4. \A i \in DOMAIN t : n + i \in DOMAIN s /\ t[i] = s[n + i] /\ i \in Nat
  <2> SUFFICES ASSUME NEW i \in DOMAIN t PROVE n + i \in DOMAIN s /\ t[i] = s[n + i] /\ i \in Nat
    OBVIOUS
  <2>1. PICK m : m = Len(s)
    OBVIOUS
  <2> HIDE DEF s
  <2>2. i \in 1 .. m - n /\ m \in Nat
    BY <1>3, <2>1
  <2>3. i \in Nat /\ n + i \in 1 .. m
    BY <2>2
  <2> QED
    BY <1>2, <1>3, <2>1, <2>2, <2>3
<1>5. broken[p] # "no" => t = <<>>
  <2> SUFFICES ASSUME broken[p] # "no" PROVE t = <<>>
    OBVIOUS
  <2>1. s = <<>>
    BY DEF OnWire
  <2>2. Len(s) = 0
    BY <2>1
  <2>3. Len(t) = 0
    BY <1>2, <1>3, <2>2
  <2> QED
    BY <1>2, <2>3, EmptySeq
<1>6. \A i \in DOMAIN t : Place(p, t[i])
  BY <1>4 DEF OnWire
<1>7. \A i, j \in DOMAIN t : i <= j => After(p, t[i], j - i, t[j].frame, t[j].at)
  <2> SUFFICES ASSUME NEW i \in DOMAIN t, NEW j \in DOMAIN t, i <= j
               PROVE  After(p, t[i], j - i, t[j].frame, t[j].at)
    OBVIOUS
  <2> DEFINE x == n + i
             y == n + j
  <2>1. x \in DOMAIN s /\ y \in DOMAIN s /\ x <= y
    BY <1>4
  <2> HIDE DEF x, y
  <2>2. After(p, s[x], y - x, s[y].frame, s[y].at)
    BY <2>1 DEF OnWire
  <2>3. After(p, s[n + i], (n + j) - (n + i), s[n + j].frame, s[n + j].at)
    BY <2>2 DEF x, y
  <2>4. (n + j) - (n + i) = j - i
    BY <1>4
  <2> QED
    BY <1>4, <2>3, <2>4
<1>8. Writing(p) => \A i \in DOMAIN t : After(p, t[i], Len(t) + 1 - i, OutFrame(p), OutAt(p))
  <2> SUFFICES ASSUME Writing(p), NEW i \in DOMAIN t
               PROVE  After(p, t[i], Len(t) + 1 - i, OutFrame(p), OutAt(p))
    OBVIOUS
  <2>1. After(p, s[n + i], Len(s) + 1 - (n + i), OutFrame(p), OutAt(p))
    BY <1>4 DEF OnWire
  <2>2. Len(s) + 1 - (n + i) = Len(t) + 1 - i
    BY <1>2, <1>3, <1>4
  <2> QED
    BY <1>4, <2>1, <2>2
<1>9. Writing(p)' = Writing(p) /\ OutFrame(p)' = OutFrame(p) /\ OutAt(p)' = OutAt(p)
  BY DEF Writing, OutFrame, OutAt
<1>10. \A b : Place(p, b)' = Place(p, b) /\ \A d, f, at : After(p, b, d, f, at)' = After(p, b, d, f, at)
  BY DEF Place, After, Left
<1>11. OnWire(p)'
  <2>1. broken'[p] = broken[p]
    OBVIOUS
  <2>2. \A i \in DOMAIN t : Place(p, t[i])'
    BY <1>6 DEF Place
  <2>3. \A i, j \in DOMAIN t : i <= j => After(p, t[i], j - i, t[j].frame, t[j].at)'
    BY <1>7 DEF After, Left
  <2>4. Writing(p)' => \A i \in DOMAIN t : After(p, t[i], Len(t) + 1 - i, OutFrame(p), OutAt(p))'
    BY <1>8, <1>9 DEF After, Left
  <2> QED
    BY <1>5, <2>1, <2>2, <2>3, <2>4 DEF OnWire
<1>12. n < Len(s) => t[1] = s[n + 1]
  BY <1>2, <1>3
<1> QED
  BY <1>2, <1>11, <1>12

\* Where there is a byte for the reader, there is the frame it expects.
LEMMA FrameIsThere ==
  ASSUME NEW p \in Sides, NEW q, q = Other(p), Typed, Flow(p), Readable(q), Len(wire[p]) >= 1,
         NEW k, k = InFrame(q)
  PROVE  /\ k \in DOMAIN frames[p] /\ Length(frames[p][k]) \in Nat
         /\ Length(frames[p][k]) >= 1 /\ Length(frames[p][k]) < Width
<1>1. wire[p] \in Seq(Bytes)
  BY DEF Typed
<1>2. 1 \in DOMAIN wire[p] /\ wire[p] # <<>>
  BY <1>1
<1>3. wire[p][1].frame = k /\ wire[p][1].frame \in DOMAIN frames[p]
  BY <1>2 DEF Flow, Meets, OnWire, Place
<1> QED
  BY <1>3, LengthIs DEF Flow

\* What the steps of a reader leave to show.
Reads(q, n, new) ==
    /\ n \in Nat /\ n <= Len(wire[Other(q)])
    /\ Take(q, n)
    /\ new \in Readers /\ r' = [r EXCEPT ![q] = new]
    /\ UNCHANGED <<setup, link, broken, frames, w, hs, out, app>>

LEMMA ReadsFlow ==
  ASSUME NEW q \in Sides, Typed, \A p \in Sides : Flow(p), NEW n, NEW new, Reads(q, n, new),
         Framed(Other(q))' => ReaderAt(Other(q), q)' /\ Meets(Other(q), q)'
  PROVE  Typed' /\ (\A p \in Sides : Flow(p)') /\ \A p \in Sides : Len(wire'[p]) <= Len(wire[p])
<1> DEFINE p == Other(q)
<1>1. p \in Sides /\ Other(p) = q /\ p # q
  BY TwoSides
<1>2. wire' = [wire EXCEPT ![p] = SubSeq(wire[p], n + 1, Len(wire[p]))]
  BY DEF Reads, Take
<1>3. wire'[p] = SubSeq(wire[p], n + 1, Len(wire[p])) /\ wire'[q] = wire[q]
  BY <1>1, <1>2 DEF Typed
<1>4. n \in Nat /\ n <= Len(wire[p]) /\ UNCHANGED <<setup, link, broken, frames, w, hs, out, peer, written, read>>
  BY DEF Reads, app
<1>5. OnWire(p)' /\ wire'[p] \in Seq(Bytes) /\ Len(wire'[p]) = Len(wire[p]) - n
  BY <1>1, <1>3, <1>4, WireTaken DEF Flow
<1>6. Typed'
  <2>1. wire' \in [Sides -> Seq(Bytes)]
    BY <1>2, <1>3, <1>5 DEF Typed
  <2>2. r' \in [Sides -> Readers]
    BY DEF Reads, Typed
  <2> QED
    BY <1>4, <2>1, <2>2 DEF Typed
<1>7. Framed(p)' /\ Framed(q)' /\ WriterAt(p)' /\ WriterAt(q)'
  <2>1. Hello(p)' = Hello(p) /\ Hello(q)' = Hello(q)
    BY <1>4, SetupKept
  <2> QED
    BY <1>1, <1>4, <2>1 DEF Flow, Framed, WriterAt
<1>8. Flow(p)'
  BY <1>1, <1>5, <1>7 DEF Flow
<1>9. Flow(q)'
  <2>1. Longer(q)
    <3>1. frames[q] \in Seq(Payloads) /\ Len(frames[q]) \in Nat
      BY DEF Typed
    <3> QED
      BY <1>4, <3>1 DEF Longer
  <2>2. SameReader(Other(q))
    BY <1>1 DEF SameReader, Reads, Typed
  <2>3. Writing(q)' => Writing(q) /\ OutFrame(q)' = OutFrame(q) /\ OutAt(q)' = OutAt(q)
    BY <1>4 DEF Writing, OutFrame, OutAt
  <2>4. wire'[q] = wire[q] /\ broken'[q] = broken[q] /\ UNCHANGED setup
    BY <1>3, <1>4
  <2> QED
    BY <1>6, <1>7, <2>1, <2>2, <2>3, <2>4, FlowKept
<1>10. \A x \in Sides : Len(wire'[x]) <= Len(wire[x])
  <2>1. Len(wire[p]) \in Nat /\ Len(wire[q]) \in Nat
    <3>1. wire[p] \in Seq(Bytes) /\ wire[q] \in Seq(Bytes)
      BY <1>1 DEF Typed
    <3> QED
      BY <3>1
  <2> QED
    BY <1>3, <1>4, <1>5, <2>1, TwoSides
<1> QED
  BY <1>6, <1>8, <1>9, <1>10, TwoSides

-----------------------------------------------------------------------------
(* Reading.                                                                *)

\* The reader's next place is that of the next byte.
LEMMA ReadsMeet ==
  ASSUME NEW q \in Sides, NEW p, p = Other(q), Typed, Flow(p), Readable(q), NEW n, NEW new,
         Reads(q, n, new), n >= 1,
         NEW k, k = InFrame(q), NEW a \in Nat, a = InAt(q), a >= 1,
         NEW l, l = Length(frames[p][k]), a + n <= l + 3,
         a + n = l + 3 => InFrame(q)' = k + 1 /\ InAt(q)' = 1,
         a + n # l + 3 => InFrame(q)' = k /\ InAt(q)' = a + n
  PROVE  Meets(p, q)'
<1>1. p \in Sides /\ Other(p) = q /\ q # p
  BY TwoSides
<1>2. n \in Nat /\ n <= Len(wire[p]) /\ UNCHANGED <<setup, frames, w, broken>>
  BY DEF Reads
<1>3. wire[p] \in Seq(Bytes) /\ Len(wire[p]) \in Nat
  BY <1>1 DEF Typed
<1>4. wire'[p] = SubSeq(wire[p], n + 1, Len(wire[p]))
  BY <1>1 DEF Reads, Take, Typed
<1>5. /\ wire'[p] \in Seq(Bytes) /\ Len(wire'[p]) = Len(wire[p]) - n
      /\ n < Len(wire[p]) => wire'[p][1] = wire[p][n + 1]
  <2>1. OnWire(p)
    BY DEF Flow
  <2> QED
    BY <1>1, <1>2, <1>4, <2>1, WireTaken
<1>6. /\ a + n = l + 3 =>
           /\ n < Len(wire[p]) => wire[p][n + 1].frame = k + 1 /\ wire[p][n + 1].at = 1
           /\ n = Len(wire[p]) /\ Writing(p) => OutFrame(p) = k + 1 /\ OutAt(p) = 1
      /\ a + n # l + 3 =>
           /\ n < Len(wire[p]) => wire[p][n + 1].frame = k /\ wire[p][n + 1].at = a + n
           /\ n = Len(wire[p]) /\ Writing(p) => OutFrame(p) = k /\ OutAt(p) = a + n
  BY <1>1, <1>2, RunRead
<1>7. wire'[p] = <<>> => n = Len(wire[p])
  <2>1. wire'[p] = <<>> => Len(wire'[p]) = 0
    OBVIOUS
  <2> QED
    BY <1>2, <1>3, <1>5, <2>1
<1>8. wire'[p] # <<>> => n < Len(wire[p])
  <2> PICK t : t = wire'[p]
    OBVIOUS
  <2>1. t \in Seq(Bytes) /\ (t # <<>> => Len(t) # 0)
    BY <1>5, EmptySeq
  <2>2. t # <<>> => Len(wire[p]) - n # 0
    BY <1>5, <2>1
  <2>3. t # <<>> => n < Len(wire[p])
    BY <1>2, <1>3, <2>2
  <2> QED
    BY <2>3
<1>9. Writing(p)' = Writing(p) /\ OutFrame(p)' = OutFrame(p) /\ OutAt(p)' = OutAt(p)
  BY <1>2 DEF Writing, OutFrame, OutAt
<1>10. wire'[p] # <<>> => wire'[p][1].frame = InFrame(q)' /\ wire'[p][1].at = InAt(q)'
  BY <1>5, <1>6, <1>8
<1>11. wire'[p] = <<>> /\ Writing(p)' => OutFrame(p)' = InFrame(q)' /\ OutAt(p)' = InAt(q)'
  BY <1>6, <1>7, <1>9
<1> QED
  BY <1>10, <1>11 DEF Meets

LEMMA Joined ==
  ASSUME NEW s \in Seq(Bytes), NEW x \in Seq(Bytes), NEW t, t = s \o x,
         NEW m, m = Len(s), NEW n, n = Len(x)
  PROVE  /\ t \in Seq(Bytes) /\ Len(t) = m + n
         /\ \A i \in 1 .. m + n : t[i] = IF i <= m THEN s[i] ELSE x[i - m]
  BY ConcatProperties

\* The bytes taken go to the end of the buffer.
LEMMA BufferIs ==
  ASSUME NEW q \in Sides, NEW p, p = Other(q), Typed, NEW b \in Seq(Bytes),
         NEW n \in Nat, n <= Len(wire[p])
  PROVE  /\ b \o Taken(q, n) \in Seq(Bytes) /\ Len(b \o Taken(q, n)) = Len(b) + n
         /\ \A i \in 1 .. Len(b) + n :
               (b \o Taken(q, n))[i] = IF i <= Len(b) THEN b[i] ELSE wire[p][i - Len(b)]
<1> DEFINE t == Taken(q, n)
<1>1. wire[p] \in Seq(Bytes)
  BY TwoSides DEF Typed
<1>2. t \in Seq(Bytes) /\ Len(t) = n /\ \A i \in 1 .. n : t[i] = wire[p][i]
  BY <1>1, TakenIs DEF Taken
<1> HIDE DEF t
<1>3. /\ b \o t \in Seq(Bytes) /\ Len(b \o t) = Len(b) + n
      /\ \A i \in 1 .. Len(b) + n : (b \o t)[i] = IF i <= Len(b) THEN b[i] ELSE t[i - Len(b)]
  <2>1. PICK m, c : m = Len(b) /\ c = b \o t
    OBVIOUS
  <2>2. t \in Seq(Bytes) /\ n = Len(t)
    BY <1>2
  <2>3. /\ c \in Seq(Bytes) /\ Len(c) = m + n
        /\ \A i \in 1 .. m + n : c[i] = IF i <= m THEN b[i] ELSE t[i - m]
    BY <2>1, <2>2, Joined
  <2> QED
    BY <2>1, <2>3
<1>4. \A i \in 1 .. Len(b) + n : ~(i <= Len(b)) => i - Len(b) \in 1 .. n
  <2>1. Len(b) \in Nat
    OBVIOUS
  <2> QED
    BY <2>1
<1> QED
  BY <1>2, <1>3, <1>4 DEF t

\* The same with a name for the result.
\* c is the buffer b with n bytes from the wire behind it.
Fills(q, b, n, c) ==
    /\ c \in Seq(Bytes) /\ Len(c) = Len(b) + n
    /\ \A i \in 1 .. Len(b) + n :
            c[i] = IF i <= Len(b) THEN b[i] ELSE wire[Other(q)][i - Len(b)]

LEMMA BufferTakes ==
  ASSUME NEW q \in Sides, NEW p, p = Other(q), Typed, NEW b, b \in Seq(Bytes),
         NEW n, n \in Nat, n <= Len(wire[p]), NEW c, c = b \o Taken(q, n)
  PROVE  Fills(q, b, n, c)
<1>1. /\ b \o Taken(q, n) \in Seq(Bytes) /\ Len(b \o Taken(q, n)) = Len(b) + n
      /\ \A i \in 1 .. Len(b) + n :
            (b \o Taken(q, n))[i] = IF i <= Len(b) THEN b[i] ELSE wire[p][i - Len(b)]
  BY BufferIs
<1> QED
  BY <1>1 DEF Fills

LEMMA ReadLenFlow ==
  ASSUME NEW q \in Sides, NEW p, p = Other(q), Typed, \A x \in Sides : Flow(x), ReadLen(q)
  PROVE  \E n, new : /\ Reads(q, n, new)
                     /\ new.opened = r[q].opened /\ new.item = r[q].item
                     /\ Framed(p)' => ReaderAt(p, q)' /\ Meets(p, q)'
<1>1. PICK st : st = r[q]
  OBVIOUS
<1>2. p \in Sides /\ Other(p) = q /\ Flow(p)
  BY TwoSides
<1>3. st \in Readers /\ st.buf \in Seq(Bytes) /\ st.opened \in Nat /\ wire[p] \in Seq(Bytes)
      /\ Len(st.buf) \in Nat /\ Len(wire[p]) \in Nat
  <2>1. st \in Readers /\ wire[p] \in Seq(Bytes)
    BY <1>2, <1>1 DEF Typed
  <2> QED
    BY <2>1 DEF Readers
<1>4. st.state = "ReadLen" /\ Readable(q)
      /\ UNCHANGED <<setup, link, broken, frames, w, hs, out, app>>
  BY <1>1 DEF ReadLen, Readable
<1>5. PICK n \in 1 .. 2 - Len(st.buf) :
        /\ n <= Len(wire[p]) /\ Take(q, n)
        /\ LET buf == st.buf \o Taken(q, n)
           IN  IF Len(buf) < 2 THEN r' = [r EXCEPT ![q].buf = Kept(buf)]
               ELSE \E len \in Lengths(buf) :
                        r' = [r EXCEPT ![q].buf = <<>>, ![q].len = len,
                                       ![q].state = IF len = 0 THEN "ReadLen" ELSE "ReadData"]
  BY <1>1 DEF ReadLen
<1>6. PICK buf : buf = st.buf \o Taken(q, n)
  OBVIOUS
<1>7. PICK k, a, l : k = InFrame(q) /\ a = InAt(q) /\ l = Length(frames[p][k])
  OBVIOUS
<1>8. n \in 1 .. 2 - Len(st.buf) /\ n <= Len(wire[p]) /\ Take(q, n)
  BY <1>5
<1>9. Len(st.buf) <= 1 /\ n \in Nat /\ n >= 1 /\ Len(st.buf) + n <= 2
  <2>1. Len(st.buf) <= 1
    BY <1>2, <1>4, <1>1 DEF Flow, ReaderAt
  <2> QED
    BY <1>3, <1>8, <2>1
<1>10. a = Len(st.buf) + 1 /\ k = st.opened + 1 /\ k \in Nat /\ a \in Nat /\ a >= 1
  BY <1>3, <1>4, <1>7, <1>1 DEF InAt, InFrame
<1>11. k \in DOMAIN frames[p] /\ l \in Nat /\ l >= 1 /\ l < Width
  <2>1. Len(wire[p]) >= 1
    BY <1>3, <1>8, <1>9
  <2> QED
    BY <1>2, <1>4, <1>7, <2>1, FrameIsThere
<1>12. a + n <= l + 3 /\ a + n # l + 3
  BY <1>3, <1>9, <1>10, <1>11
<1>13. \A j \in 1 .. n : wire[p][j] = [frame |-> k, at |-> a + j - 1, len |-> l]
  <2>1. n \in Nat /\ n >= 1 /\ n <= Len(wire[p]) /\ a \in Nat /\ a >= 1 /\ a + n <= l + 3
    BY <1>9, <1>10, <1>12, <1>8
  <2>2. k = InFrame(q) /\ a = InAt(q) /\ l = Length(frames[p][k]) /\ q = Other(p) /\ Readable(q)
    BY <1>2, <1>4, <1>7
  <2>3. Flow(p)
    BY <1>2
  <2>4. Run(p, k, a, l, n)
    BY <1>2, <2>1, <2>2, <2>3, RunIs
  <2> QED
    BY <2>4 DEF Run
<1>14. /\ buf \in Seq(Bytes) /\ Len(buf) = Len(st.buf) + n
       /\ \A i \in 1 .. Len(buf) : buf[i] = [frame |-> k, at |-> i, len |-> l]
  <2>1. /\ buf \in Seq(Bytes) /\ Len(buf) = Len(st.buf) + n
        /\ \A i \in 1 .. Len(st.buf) + n :
              buf[i] = IF i <= Len(st.buf) THEN st.buf[i] ELSE wire[p][i - Len(st.buf)]
    <3>1. st.buf \in Seq(Bytes) /\ n \in Nat /\ n <= Len(wire[p])
      BY <1>3, <1>8, <1>9
    <3>2. Fills(q, st.buf, n, buf)
      BY <1>6, <3>1, BufferTakes
    <3> QED
      BY <3>2 DEF Fills
  <2>2. \A i \in DOMAIN st.buf : st.buf[i] = [frame |-> k, at |-> i, len |-> l]
    BY <1>2, <1>4, <1>10, <1>7, <1>1 DEF Flow, ReaderAt
  <2>3. ASSUME NEW i \in 1 .. Len(st.buf) + n, ~(i <= Len(st.buf))
        PROVE  wire[p][i - Len(st.buf)] = [frame |-> k, at |-> i, len |-> l]
    <3>2. i \in Nat /\ i <= Len(st.buf) + n /\ i >= Len(st.buf) + 1
      BY <1>3, <1>9, <2>3
    <3>3. \A d, m, x \in Nat : x <= d + m /\ x >= d + 1 => x - d \in 1 .. m /\ d + 1 + (x - d) - 1 = x
      OBVIOUS
    <3>1. i - Len(st.buf) \in 1 .. n /\ a + (i - Len(st.buf)) - 1 = i
      BY <1>3, <1>9, <1>10, <3>2, <3>3
    <3> QED
      BY <1>13, <3>1
  <2>4. \A i \in 1 .. Len(st.buf) + n : i <= Len(st.buf) => i \in DOMAIN st.buf
    BY <1>3
  <2> QED
    BY <2>1, <2>2, <2>3, <2>4
<1>15. ASSUME NEW new \in Readers, r' = [r EXCEPT ![q] = new], new.opened = st.opened,
              new.item = st.item,
              \/ new.state = "ReadLen" /\ new.buf = buf /\ Len(buf) < 2
              \/ new.state = "ReadData" /\ new.buf = <<>> /\ new.len = l /\ Len(buf) = 2
       PROVE  \E m, z : /\ Reads(q, m, z)
                        /\ z.opened = st.opened /\ z.item = st.item
                        /\ Framed(p)' => ReaderAt(p, q)' /\ Meets(p, q)'
  <2>1. Reads(q, n, new)
    BY <1>4, <1>8, <1>9, <1>15 DEF Reads
  <2>2. r'[q] = new
    BY <1>15 DEF Typed
  <2>3. st.opened <= Len(frames[p]) /\ frames'[p] = frames[p]
    BY <1>2, <1>4, <1>1 DEF Flow, ReaderAt
  <2>4. ReaderAt(p, q)' /\ InFrame(q)' = k /\ InAt(q)' = a + n
    <3>1. ASSUME new.state = "ReadLen", new.buf = buf, Len(buf) < 2
          PROVE  ReaderAt(p, q)' /\ InFrame(q)' = k /\ InAt(q)' = a + n
      <4>1. Len(new.buf) <= 1 /\ DOMAIN new.buf = 1 .. Len(new.buf) /\ Len(new.buf) + 1 = a + n
        BY <1>3, <1>9, <1>10, <1>14, <3>1
      <4>2. \A i \in DOMAIN new.buf : new.buf[i] = [frame |-> k, at |-> i, len |-> l]
        BY <1>14, <3>1, <4>1
      <4>3. ReaderAt(p, q)'
        BY <1>10, <1>11, <1>15, <1>7, <2>2, <2>3, <3>1, <4>1, <4>2 DEF ReaderAt
      <4>4. InFrame(q)' = k /\ InAt(q)' = a + n
        BY <1>10, <1>15, <2>2, <3>1, <4>1 DEF InFrame, InAt
      <4> QED
        BY <4>3, <4>4
    <3>2. ASSUME new.state = "ReadData", new.buf = <<>>, new.len = l, Len(buf) = 2
          PROVE  ReaderAt(p, q)' /\ InFrame(q)' = k /\ InAt(q)' = a + n
      <4>1. Len(new.buf) = 0 /\ DOMAIN new.buf = {}
        BY <3>2
      <4>5. Len(st.buf) + n = 2
        BY <1>14, <3>2
      <4>4. a + n = 3 /\ 0 < l
        BY <1>3, <1>9, <1>10, <1>11, <4>5
      <4>2. ReaderAt(p, q)'
        BY <1>10, <1>11, <1>15, <2>2, <2>3, <3>2, <4>1, <4>4, <1>7 DEF ReaderAt, Whole
      <4>3. InFrame(q)' = k /\ InAt(q)' = a + n
        BY <1>10, <1>15, <2>2, <3>2, <4>1, <4>4 DEF InFrame, InAt
      <4> QED
        BY <4>2, <4>3
    <3> QED
      BY <1>15, <3>1, <3>2
  <2>5. Meets(p, q)'
    BY <1>2, <1>4, <1>9, <1>10, <1>12, <1>7, <2>1, <2>4, ReadsMeet
  <2> QED
    BY <1>15, <2>1, <2>4, <2>5
<1>16. ASSUME Len(buf) < 2
       PROVE  \E m, z : /\ Reads(q, m, z)
                        /\ z.opened = st.opened /\ z.item = st.item
                        /\ Framed(p)' => ReaderAt(p, q)' /\ Meets(p, q)'
  <2> DEFINE new == [st EXCEPT !.buf = buf]
  <2>1. /\ new \in Readers /\ new.opened = st.opened /\ new.item = st.item
        /\ new.state = "ReadLen" /\ new.buf = buf
    BY <1>3, <1>4, <1>14 DEF Readers
  <2>2. r' = [r EXCEPT ![q] = new]
    BY <1>5, <1>16, <1>6, <1>1 DEF Kept, Typed
  <2> HIDE DEF new
  <2> QED
    BY <1>15, <1>16, <2>1, <2>2
<1>17. ASSUME ~(Len(buf) < 2)
       PROVE  \E m, z : /\ Reads(q, m, z)
                        /\ z.opened = st.opened /\ z.item = st.item
                        /\ Framed(p)' => ReaderAt(p, q)' /\ Meets(p, q)'
  <2>1. Len(buf) = 2
    BY <1>3, <1>9, <1>14, <1>17
  <2>2. buf[1] = [frame |-> k, at |-> 1, len |-> l] /\ buf[2] = [frame |-> k, at |-> 2, len |-> l]
    <3>1. 1 \in 1 .. Len(buf) /\ 2 \in 1 .. Len(buf)
      BY <2>1
    <3> QED
      BY <1>14, <3>1
  <2>3. Lengths(buf) = {l}
    BY <2>2 DEF Lengths
  <2> DEFINE new == [st EXCEPT !.buf = <<>>, !.len = l, !.state = "ReadData"]
  <2>4. r' = [r EXCEPT ![q].buf = <<>>, ![q].len = l, ![q].state = "ReadData"]
    <3>1. \E len \in Lengths(buf) :
            r' = [r EXCEPT ![q].buf = <<>>, ![q].len = len,
                           ![q].state = IF len = 0 THEN "ReadLen" ELSE "ReadData"]
      BY <1>5, <1>17, <1>6
    <3>2. l # 0
      BY <1>11
    <3> QED
      BY <2>3, <3>1, <3>2
  <2>5. r' = [r EXCEPT ![q] = new]
    BY <2>4, <1>1 DEF Typed
  <2>6. /\ new \in Readers /\ new.opened = st.opened /\ new.item = st.item
        /\ new.state = "ReadData" /\ new.buf = <<>> /\ new.len = l
    <3> DEFINE Upd(x, e, m) == [x EXCEPT !.buf = e, !.len = m, !.state = "ReadData"]
    <3>1. \A x \in Readers, e \in Seq(Bytes), m \in Nat :
            /\ Upd(x, e, m) \in Readers /\ Upd(x, e, m).opened = x.opened
            /\ Upd(x, e, m).item = x.item /\ Upd(x, e, m).state = "ReadData"
            /\ Upd(x, e, m).buf = e /\ Upd(x, e, m).len = m
      BY DEF Readers
    <3>2. <<>> \in Seq(Bytes)
      BY EmptySeq
    <3>3. new = Upd(st, <<>>, l)
      OBVIOUS
    <3> HIDE DEF Upd, new
    <3> QED
      <4>1. st \in Readers /\ l \in Nat
        BY <1>3, <1>11
      <4>2. /\ Upd(st, <<>>, l) \in Readers /\ Upd(st, <<>>, l).opened = st.opened
            /\ Upd(st, <<>>, l).item = st.item /\ Upd(st, <<>>, l).state = "ReadData"
            /\ Upd(st, <<>>, l).buf = <<>> /\ Upd(st, <<>>, l).len = l
        BY <3>1, <3>2, <4>1
      <4> QED
        BY <3>3, <4>2
  <2> HIDE DEF new
  <2> QED
    BY <1>15, <2>1, <2>5, <2>6
<1> QED
  BY <1>16, <1>17, <1>1

\* A frame that was opened.
Frame(payload) == [kind |-> "frame", payload |-> payload]

\* Every frame that is read whole opens: bytes are never taken for those of another place.
LEMMA ReadDataFlow ==
  ASSUME NEW q \in Sides, NEW p, p = Other(q), Typed, \A x \in Sides : Flow(x), ReadData(q)
  PROVE  \E n, new : /\ Reads(q, n, new)
                     /\ \/ new.opened = r[q].opened /\ new.item = r[q].item
                        \/ /\ new.opened = r[q].opened + 1 /\ new.opened \in DOMAIN frames[p]
                           /\ new.item = Frame(frames[p][new.opened])
                     /\ Framed(p)' => ReaderAt(p, q)' /\ Meets(p, q)'
<1>1. PICK st : st = r[q]
  OBVIOUS
<1>2. p \in Sides /\ Other(p) = q /\ Flow(p)
  BY TwoSides
<1>3. st \in Readers /\ st.buf \in Seq(Bytes) /\ st.opened \in Nat /\ wire[p] \in Seq(Bytes)
      /\ Len(st.buf) \in Nat /\ Len(wire[p]) \in Nat /\ frames[p] \in Seq(Payloads)
  <2>1. st \in Readers /\ wire[p] \in Seq(Bytes) /\ frames[p] \in Seq(Payloads)
    BY <1>1, <1>2 DEF Typed
  <2> QED
    BY <2>1 DEF Readers
<1>4. st.state = "ReadData" /\ Readable(q)
      /\ UNCHANGED <<setup, link, broken, frames, w, hs, out, app>>
  BY <1>1 DEF ReadData, Readable
<1>5. PICK n \in 1 .. st.len - Len(st.buf) :
        /\ n <= Len(wire[p]) /\ Take(q, n)
        /\ LET buf  == st.buf \o Taken(q, n)
               j    == st.opened + 1
               opens == Whole(buf, j) /\ Len(buf) = Length(frames[p][j])
           IN  r' = [r EXCEPT ![q] =
                        IF Len(buf) < @.len THEN [@ EXCEPT !.buf = buf]
                        ELSE IF opens
                        THEN [RReady EXCEPT !.opened = j,
                                            !.item = [kind |-> "frame", payload |-> frames[p][j]]]
                        ELSE [@ EXCEPT !.state = "DecErr", !.item = [kind |-> "error"]]]
  BY <1>1 DEF ReadData
<1>6. PICK buf : buf = st.buf \o Taken(q, n)
  OBVIOUS
<1>7. PICK k, a, l : k = InFrame(q) /\ a = InAt(q) /\ l = Length(frames[p][k])
  OBVIOUS
<1>8. n \in 1 .. st.len - Len(st.buf) /\ n <= Len(wire[p]) /\ Take(q, n)
  BY <1>5
<1>9. a = Len(st.buf) + 3 /\ k = st.opened + 1 /\ k \in Nat /\ a \in Nat /\ a >= 1
  BY <1>1, <1>3, <1>4, <1>7 DEF InAt, InFrame
<1>10. k \in DOMAIN frames[p] /\ st.len = l /\ Whole(st.buf, k) /\ st.opened <= Len(frames[p])
  BY <1>1, <1>2, <1>4, <1>7, <1>9 DEF Flow, ReaderAt
<1>11. l \in Nat /\ l >= 1 /\ k <= Len(frames[p])
  BY <1>2, <1>7, <1>10, LengthIs DEF Flow
<1>12. n \in Nat /\ n >= 1 /\ Len(st.buf) + n <= l /\ a + n <= l + 3
  BY <1>3, <1>8, <1>9, <1>10, <1>11
<1>13. \A j \in 1 .. n : wire[p][j] = [frame |-> k, at |-> a + j - 1, len |-> l]
  <2>1. n \in Nat /\ n >= 1 /\ n <= Len(wire[p]) /\ a \in Nat /\ a >= 1 /\ a + n <= l + 3
    BY <1>8, <1>9, <1>12
  <2>2. k = InFrame(q) /\ a = InAt(q) /\ l = Length(frames[p][k]) /\ q = Other(p) /\ Readable(q)
    BY <1>2, <1>4, <1>7
  <2>3. Flow(p)
    BY <1>2
  <2>4. Run(p, k, a, l, n)
    BY <1>2, <2>1, <2>2, <2>3, RunIs
  <2> QED
    BY <2>4 DEF Run
<1>14. /\ buf \in Seq(Bytes) /\ Len(buf) = Len(st.buf) + n
       /\ \A i \in 1 .. Len(buf) : buf[i].frame = k /\ buf[i].at = i + 2
  <2>1. /\ buf \in Seq(Bytes) /\ Len(buf) = Len(st.buf) + n
        /\ \A i \in 1 .. Len(st.buf) + n :
              buf[i] = IF i <= Len(st.buf) THEN st.buf[i] ELSE wire[p][i - Len(st.buf)]
    <3>1. st.buf \in Seq(Bytes) /\ n \in Nat /\ n <= Len(wire[p])
      BY <1>3, <1>8, <1>12
    <3>2. Fills(q, st.buf, n, buf)
      BY <1>6, <3>1, BufferTakes
    <3> QED
      BY <3>2 DEF Fills
  <2>2. \A i \in DOMAIN st.buf : st.buf[i].frame = k /\ st.buf[i].at = i + 2
    BY <1>10 DEF Whole
  <2>3. ASSUME NEW i \in 1 .. Len(st.buf) + n, ~(i <= Len(st.buf))
        PROVE  wire[p][i - Len(st.buf)].frame = k /\ wire[p][i - Len(st.buf)].at = i + 2
    <3>1. i \in Nat /\ i <= Len(st.buf) + n /\ i >= Len(st.buf) + 1
      BY <1>3, <1>12, <2>3
    <3>2. \A d, m, x \in Nat :
            x <= d + m /\ x >= d + 1 => x - d \in 1 .. m /\ d + 3 + (x - d) - 1 = x + 2
      OBVIOUS
    <3>3. i - Len(st.buf) \in 1 .. n /\ a + (i - Len(st.buf)) - 1 = i + 2
      <4>1. PICK d : d = Len(st.buf)
        OBVIOUS
      <4>2. d \in Nat /\ n \in Nat /\ i \in Nat /\ i <= d + n /\ i >= d + 1 /\ a = d + 3
        BY <1>3, <1>9, <1>12, <3>1, <4>1
      <4>3. i - d \in 1 .. n /\ d + 3 + (i - d) - 1 = i + 2
        BY <3>2, <4>2
      <4> QED
        BY <4>1, <4>2, <4>3
    <3>4. wire[p][i - Len(st.buf)] = [frame |-> k, at |-> a + (i - Len(st.buf)) - 1, len |-> l]
      BY <1>13, <3>3
    <3> QED
      BY <3>3, <3>4
  <2>4. \A i \in 1 .. Len(st.buf) + n : i <= Len(st.buf) => i \in DOMAIN st.buf
    BY <1>3
  <2> QED
    BY <2>1, <2>2, <2>3, <2>4
<1>15. frames'[p] = frames[p]
  BY <1>4
<1>16. CASE Len(buf) < l
  <2>1. PICK new : new = [st EXCEPT !.buf = buf]
    OBVIOUS
  <2>2. /\ new \in Readers /\ new.opened = st.opened /\ new.item = st.item /\ new.len = st.len
        /\ new.state = "ReadData" /\ new.buf = buf
    BY <1>3, <1>4, <1>14, <2>1 DEF Readers
  <2>3. r' = [r EXCEPT ![q] = new]
    BY <1>1, <1>5, <1>6, <1>10, <1>16, <2>1
  <2>4. r'[q] = new /\ Reads(q, n, new)
    BY <1>4, <1>8, <1>12, <2>2, <2>3 DEF Reads, Typed
  <2>5. Whole(buf, k)
    BY <1>14 DEF Whole
  <2>6. ReaderAt(p, q)'
    BY <1>7, <1>9, <1>10, <1>15, <1>16, <2>2, <2>4, <2>5 DEF ReaderAt
  <2>7. InFrame(q)' = k /\ InAt(q)' = a + n /\ a + n # l + 3
    <3>1. Len(buf) + 3 = a + n /\ a + n # l + 3
      BY <1>3, <1>9, <1>11, <1>12, <1>14, <1>16
    <3> QED
      BY <1>9, <2>2, <2>4, <3>1 DEF InFrame, InAt
  <2>8. Meets(p, q)'
    BY <1>2, <1>4, <1>7, <1>9, <1>12, <2>4, <2>7, ReadsMeet
  <2> QED
    BY <1>1, <2>2, <2>4, <2>6, <2>8
<1>17. CASE ~(Len(buf) < l)
  <2>1. Len(buf) = l
    <3>1. PICK d : d = Len(st.buf)
      OBVIOUS
    <3>2. d \in Nat /\ n \in Nat /\ d + n <= l /\ Len(buf) = d + n
      BY <1>3, <1>12, <1>14, <3>1
    <3> QED
      BY <1>11, <1>17, <3>2
  <2>2. Whole(buf, k)
    BY <1>14 DEF Whole
  <2>3. PICK new : new = [RReady EXCEPT !.opened = k, !.item = Frame(frames[p][k])]
    OBVIOUS
  <2>4. /\ new \in Readers /\ new.opened = k /\ new.item = Frame(frames[p][k])
        /\ new.state = "ReadLen" /\ new.buf = <<>>
    <3>1. frames[p][k] \in Payloads
      BY <1>3, <1>10
    <3>2. Frame(frames[p][k]) \in Items
      BY <3>1 DEF Frame, Items
    <3>3. <<>> \in Seq(Bytes)
      BY EmptySeq
    <3> QED
      BY <1>9, <2>3, <3>2, <3>3 DEF RReady, Readers
  <2>5. r' = [r EXCEPT ![q] = new]
    BY <1>1, <1>5, <1>6, <1>7, <1>9, <1>10, <1>17, <2>1, <2>2, <2>3 DEF Frame
  <2>6. r'[q] = new /\ Reads(q, n, new)
    BY <1>4, <1>8, <1>12, <2>4, <2>5 DEF Reads, Typed
  <2>7. ReaderAt(p, q)'
    <3>1. Len(<<>>) = 0 /\ DOMAIN <<>> = {}
      OBVIOUS
    <3> QED
      BY <1>11, <1>15, <2>4, <2>6, <3>1 DEF ReaderAt
  <2>8. InFrame(q)' = k + 1 /\ InAt(q)' = 1 /\ a + n = l + 3
    <3>3. Len(st.buf) + n = l
      BY <1>14, <2>1
    <3>4. Len(st.buf) \in Nat /\ n \in Nat /\ a = Len(st.buf) + 3
      BY <1>3, <1>9, <1>12
    <3>1. a + n = l + 3
      BY <3>3, <3>4
    <3>2. Len(<<>>) = 0
      OBVIOUS
    <3> QED
      BY <2>4, <2>6, <3>1, <3>2 DEF InFrame, InAt
  <2>9. Meets(p, q)'
    BY <1>2, <1>4, <1>7, <1>9, <1>12, <2>6, <2>8, ReadsMeet
  <2> QED
    BY <1>1, <1>9, <1>10, <2>4, <2>6, <2>7, <2>9
<1> QED
  BY <1>16, <1>17

-----------------------------------------------------------------------------
(* Writing.                                                                *)

\* From place b it is d bytes to the one e bytes behind a.
Moves(a, e, b, d) == b \in Nat /\ d \in Nat /\ b + d = a + e

\* Places within a frame, from the one at a on.
\* The j-th of some bytes, and the one e bytes behind the first.
LEMMA Shifted ==
  ASSUME NEW a \in Nat, NEW j \in Nat, NEW e \in Nat, a >= 1, j >= 1, e >= j - 1,
         NEW b, b = a + j - 1, NEW d, d = e - (j - 1)
  PROVE  Moves(a, e, b, d)
  BY DEF Moves

LEMMA Apart ==
  ASSUME NEW u \in Nat, NEW v \in Nat, NEW y \in Nat, u + v <= u + y
  PROVE  y - 1 >= v - 1 /\ (y - 1) - (v - 1) = (u + y) - (u + v)
  OBVIOUS

LEMMA Within ==
  ASSUME NEW p \in Sides, NEW k, NEW l \in Nat, l = Length(frames[p][k]), NEW a \in Nat,
         NEW c, c.frame = k, c.at = a, NEW e \in Nat, a + e <= l + 3
  PROVE  /\ a + e # l + 3 => After(p, c, e, k, a + e)
         /\ a + e = l + 3 => After(p, c, e, k + 1, 1)
<1>1. Left(p, c) = l + 2 - a
  BY DEF Left
<1>2. a + e # l + 3 => e # Left(p, c) + 1
  BY <1>1
<1>3. a + e = l + 3 => ~(e <= Left(p, c))
  BY <1>1
<1> QED
  BY <1>2, <1>3 DEF After

\* A part of a sequence.
LEMMA Slice ==
  ASSUME NEW s \in Seq(Nat), NEW a \in Nat, NEW n \in Nat, n >= 1, a + n <= Len(s),
         NEW x, x = SubSeq(s, a + 1, a + n)
  PROVE  x \in Seq(Nat) /\ Len(x) = n /\ \A i \in 1 .. n : x[i] = s[a + i]
<1>1. Len(s) \in Nat
  OBVIOUS
<1>2. PICK b, c : b = a + 1 /\ c = a + n
  OBVIOUS
<1>3. b \in Nat /\ c \in Nat /\ b \in 1 .. Len(s) + 1 /\ c \in b - 1 .. Len(s) /\ c - b + 1 = n
  BY <1>1, <1>2
<1>4. /\ SubSeq(s, b, c) \in Seq(Nat) /\ Len(SubSeq(s, b, c)) = c - b + 1
      /\ \A i \in 1 .. c - b + 1 : SubSeq(s, b, c)[i] = s[b + i - 1]
  BY <1>3, SubSeqProperties
<1>5. \A i \in 1 .. n : b + i - 1 = a + i
  BY <1>2
<1> QED
  BY <1>2, <1>3, <1>4, <1>5

\* The n bytes x that p puts on the wire from its place a in frame k on.
Grows(p, k, a, l, n, x) ==
    /\ k = OutFrame(p) /\ a \in Nat /\ a = OutAt(p) /\ a >= 1 /\ k \in DOMAIN frames[p]
    /\ l \in Nat /\ l = Length(frames[p][k]) /\ n \in Nat /\ n >= 1 /\ a + n <= l + 3
    /\ Writing(p) /\ wire'[p] = wire[p] \o x
    /\ Writing(p)' => /\ a + n = l + 3 => OutFrame(p)' = k + 1 /\ OutAt(p)' = 1
                      /\ a + n # l + 3 => OutFrame(p)' = k /\ OutAt(p)' = a + n
    /\ x \in Seq(Bytes) /\ Len(x) = n
    /\ \A j \in 1 .. n : x[j] = [frame |-> k, at |-> a + j - 1, len |-> l]
    /\ Framed(p) /\ OnWire(p) /\ UNCHANGED <<setup, frames, broken>>

LEMMA PlaceIs ==
  ASSUME NEW p \in Sides, Typed, Framed(p), NEW b, Place(p, b)
  PROVE  b.at \in Nat /\ Length(frames[p][b.frame]) \in Nat
<1>1. PICK l : l = Length(frames[p][b.frame])
  OBVIOUS
<1>2. b.frame \in DOMAIN frames[p] /\ b.at \in 1 .. l + 2
  BY <1>1 DEF Place
<1>3. l \in Nat
  BY <1>1, <1>2, LengthIs
<1> QED
  BY <1>1, <1>2, <1>3

\* What is written comes behind what is on the wire already.
LEMMA Grown ==
  ASSUME NEW p \in Sides, Typed, NEW k, NEW a, NEW l, NEW n, NEW x, Grows(p, k, a, l, n, x)
  PROVE  /\ OnWire(p)' /\ wire'[p] \in Seq(Bytes) /\ Len(wire'[p]) = Len(wire[p]) + n
         /\ wire[p] # <<>> => wire'[p][1] = wire[p][1]
         /\ wire[p] = <<>> => wire'[p][1] = x[1]
         /\ wire'[p] # <<>>
<1> SUFFICES ASSUME Framed(p), OnWire(p), Writing(p), UNCHANGED <<setup, frames, broken>>,
                    k = OutFrame(p), a \in Nat, a = OutAt(p), a >= 1,
                    k \in DOMAIN frames[p], l \in Nat, l = Length(frames[p][k]),
                    n \in Nat, n >= 1, a + n <= l + 3, x \in Seq(Bytes), Len(x) = n,
                    \A j \in 1 .. n : x[j] = [frame |-> k, at |-> a + j - 1, len |-> l],
                    wire'[p] = wire[p] \o x,
                    Writing(p)' => /\ a + n = l + 3 => OutFrame(p)' = k + 1 /\ OutAt(p)' = 1
                                   /\ a + n # l + 3 => OutFrame(p)' = k /\ OutAt(p)' = a + n
             PROVE  /\ OnWire(p)' /\ wire'[p] \in Seq(Bytes) /\ Len(wire'[p]) = Len(wire[p]) + n
                    /\ wire[p] # <<>> => wire'[p][1] = wire[p][1]
                    /\ wire[p] = <<>> => wire'[p][1] = x[1]
                    /\ wire'[p] # <<>>
  BY DEF Grows
<1>1. PICK s, t : s = wire[p] /\ t = wire'[p]
  OBVIOUS
<1>2. PICK m : m = Len(s)
  OBVIOUS
<1>3. s \in Seq(Bytes) /\ m \in Nat /\ DOMAIN s = 1 .. m
  <2>1. s \in Seq(Bytes)
    BY <1>1 DEF Typed
  <2> QED
    BY <1>2, <2>1
<1>4. /\ t \in Seq(Bytes) /\ Len(t) = m + n /\ DOMAIN t = 1 .. m + n
      /\ \A i \in 1 .. m + n : t[i] = IF i <= m THEN s[i] ELSE x[i - m]
  <2>1. t = s \o x
    BY <1>1
  <2>2. /\ t \in Seq(Bytes) /\ Len(t) = m + n
        /\ \A i \in 1 .. m + n : t[i] = IF i <= m THEN s[i] ELSE x[i - m]
    <3>1. s \in Seq(Bytes)
      BY <1>3
    <3>2. n = Len(x) /\ x \in Seq(Bytes)
      OBVIOUS
    <3>3. t \in Seq(Bytes)
      BY <2>1, <3>1, <3>2, Joined
    <3>4. Len(t) = m + n
      <4>1. Len(s \o x) = Len(s) + Len(x)
        BY <3>1, <3>2, ConcatProperties
      <4> QED
        BY <1>2, <2>1, <3>2, <4>1
    <3>5. ASSUME NEW i \in 1 .. m + n PROVE t[i] = IF i <= m THEN s[i] ELSE x[i - m]
      BY <1>2, <2>1, <3>1, <3>2, Joined
    <3> QED
      BY <3>3, <3>4, <3>5
  <2> QED
    BY <1>3, <2>2
<1>5. \A i \in 1 .. m : t[i] = s[i]
  BY <1>3, <1>4
<1>6. ASSUME NEW j \in 1 .. n
      PROVE  t[m + j] = [frame |-> k, at |-> a + j - 1, len |-> l]
  <2>2. \A u, v \in Nat : \A y \in 1 .. v :
            u + y \in 1 .. u + v /\ ~(u + y <= u) /\ (u + y) - u = y
    OBVIOUS
  <2>1. m + j \in 1 .. m + n /\ ~(m + j <= m) /\ (m + j) - m = j
    BY <1>3, <2>2
  <2> QED
    BY <1>4, <2>1
<1>7. \A i \in 1 .. m + n : i \in 1 .. m \/ (i - m \in 1 .. n /\ i = m + (i - m))
  BY <1>3
<1>8. \A b : Place(p, b)' = Place(p, b) /\ \A d, f, at : After(p, b, d, f, at)' = After(p, b, d, f, at)
  BY DEF Place, After, Left
<1>9. \A i \in 1 .. m : Place(p, t[i])
  BY <1>1, <1>3, <1>5 DEF OnWire
<1>10. ASSUME NEW j \in 1 .. n PROVE Place(p, t[m + j])
  <2>1. t[m + j].frame = k /\ t[m + j].at = a + j - 1 /\ t[m + j].len = l
    BY <1>6
  <2>2. a + j - 1 \in 1 .. l + 2
    OBVIOUS
  <2> QED
    BY <2>1, <2>2 DEF Place
<1>11. \A i \in 1 .. m + n : Place(p, t[i])
  <2> SUFFICES ASSUME NEW i \in 1 .. m + n PROVE Place(p, t[i])
    OBVIOUS
  <2>1. CASE i \in 1 .. m
    BY <1>9, <2>1
  <2>2. CASE i - m \in 1 .. n /\ i = m + (i - m)
    BY <1>10, <2>2
  <2> QED
    BY <1>7, <2>1, <2>2
\* From a byte that was on the wire to a place among or behind those that are new.
<1>12. ASSUME NEW i \in 1 .. m, NEW e \in Nat, NEW f, NEW at, a + e <= l + 3,
              a + e # l + 3 => f = k /\ at = a + e,
              a + e = l + 3 => f = k + 1 /\ at = 1
       PROVE  After(p, t[i], m + 1 - i + e, f, at)
  <2>1. PICK c : c = [frame |-> k, at |-> a, len |-> l]
    OBVIOUS
  <2>2. After(p, t[i], m + 1 - i, c.frame, c.at)
    BY <1>1, <1>2, <1>3, <1>5, <2>1 DEF OnWire
  <2>3. After(p, c, e, f, at)
    <3>1. c.frame = k /\ c.at = a
      BY <2>1
    <3>2. (a + e # l + 3 => After(p, c, e, k, a + e)) /\ (a + e = l + 3 => After(p, c, e, k + 1, 1))
      BY <1>12, <3>1, Within
    <3> QED
      BY <1>12, <3>2
  <2>4. m + 1 - i \in Nat
    BY <1>3
  <2>5. Place(p, t[i])
    BY <1>9
  <2>6. t[i].at \in Nat /\ Length(frames[p][t[i].frame]) \in Nat
    BY <2>5, PlaceIs
  <2>7. (c.at \in Nat /\ c.frame = k /\ Left(p, c) >= 0) \/ a = l + 3
    <3>1. Left(p, c) = l + 2 - a
      BY <2>1 DEF Left
    <3> QED
      BY <2>1, <3>1
  <2>8. a # l + 3
    OBVIOUS
  <2>9. c.at \in Nat /\ Left(p, c) >= 0 /\ Length(frames[p][c.frame]) \in Nat
    BY <2>7, <2>8
  <2> QED
    BY <2>2, <2>3, <2>4, <2>6, <2>9, AfterAfter
\* From one of the new bytes.
<1>13. ASSUME NEW j \in 1 .. n, NEW e \in Nat, NEW f, NEW at, e >= j - 1, a + e <= l + 3,
              a + e # l + 3 => f = k /\ at = a + e,
              a + e = l + 3 => f = k + 1 /\ at = 1
       PROVE  After(p, t[m + j], e - (j - 1), f, at)
  <2>1. PICK b, c, d : b = a + j - 1 /\ c = t[m + j] /\ d = e - (j - 1)
    OBVIOUS
  <2>2. b \in Nat /\ d \in Nat /\ b + d = a + e
    <3>1. j \in Nat /\ j >= 1
      OBVIOUS
    <3>2. b = a + j - 1 /\ d = e - (j - 1) /\ e >= j - 1
      BY <1>13, <2>1
    <3>3. Moves(a, e, b, d)
      BY <3>1, <3>2, Shifted
    <3> QED
      BY <3>3 DEF Moves
  <2>3. c.frame = k /\ c.at = b
    <3>1. c = [frame |-> k, at |-> a + j - 1, len |-> l]
      BY <1>6, <2>1
    <3>2. c.frame = k /\ c.at = a + j - 1
      BY <3>1
    <3> QED
      BY <2>1, <3>2
  <2>4. b + d <= l + 3
    BY <1>13, <2>2
  <2>5. (b + d # l + 3 => After(p, c, d, k, b + d)) /\ (b + d = l + 3 => After(p, c, d, k + 1, 1))
    BY <2>2, <2>3, <2>4, Within
  <2>6. After(p, c, d, f, at)
    BY <1>13, <2>2, <2>5
  <2> QED
    BY <2>1, <2>6
<1>14. ASSUME NEW i \in 1 .. m + n, NEW j \in 1 .. m + n, i <= j
       PROVE  After(p, t[i], j - i, t[j].frame, t[j].at)
  <2>1. CASE j \in 1 .. m
    <3>1. i \in 1 .. m
      BY <1>3, <1>14, <2>1
    <3> QED
      BY <1>1, <1>3, <1>5, <1>14, <2>1, <3>1 DEF OnWire
  <2>2. CASE j - m \in 1 .. n /\ j = m + (j - m)
    <3>1. PICK h, e : h = j - m /\ e = h - 1
      OBVIOUS
    <3>6. h \in 1 .. n /\ e \in Nat /\ j = m + h /\ a + e = a + h - 1 /\ a + e < l + 3
      BY <1>3, <2>2, <3>1
    <3>7. \A u, v \in Nat : u < v => u <= v /\ u # v
      OBVIOUS
    <3>2. h \in 1 .. n /\ e \in Nat /\ j = m + h /\ a + e = a + h - 1 /\ a + e <= l + 3 /\ a + e # l + 3
      <4>3. e \in Nat
        BY <3>6
      <4>1. a + e \in Nat /\ l + 3 \in Nat
        BY <4>3
      <4>2. a + e <= l + 3 /\ a + e # l + 3
        BY <3>6, <3>7, <4>1
      <4> QED
        BY <3>6, <4>2, Zenon
    <3>3. t[j].frame = k /\ t[j].at = a + e
      <4>1. t[j] = [frame |-> k, at |-> a + h - 1, len |-> l]
        BY <1>6, <3>2
      <4>2. a + e = a + h - 1
        BY <3>2
      <4> QED
        BY <4>1, <4>2
    <3>4. CASE i \in 1 .. m
      <4>1. After(p, t[i], m + 1 - i + e, t[j].frame, t[j].at)
        BY <1>12, <3>2, <3>3, <3>4
      <4>2. m + 1 - i + e = j - i
        <5>1. \A u, v, y \in Nat : v >= 1 /\ y <= u => u + 1 - y + (v - 1) = (u + v) - y
          OBVIOUS
        <5>2. m \in Nat /\ h \in Nat /\ h >= 1 /\ i \in Nat /\ i <= m
          BY <1>3, <3>2, <3>4
        <5> QED
          BY <3>1, <3>2, <5>1, <5>2
      <4> QED
        BY <4>1, <4>2
    <3>5. CASE i - m \in 1 .. n /\ i = m + (i - m)
      <4>1. PICK g : g = i - m
        OBVIOUS
      <4>2. g \in 1 .. n /\ i = m + g /\ e >= g - 1 /\ e - (g - 1) = j - i
        <5>2. m \in Nat /\ h \in Nat /\ g \in 1 .. n /\ i = m + g /\ g \in Nat
          BY <1>3, <3>2, <3>5, <4>1
        <5>3. j = m + h /\ e = h - 1 /\ m + g <= m + h
          BY <1>14, <3>1, <3>2, <5>2
        <5>4. h - 1 >= g - 1 /\ (h - 1) - (g - 1) = (m + h) - (m + g)
          BY <5>2, <5>3, Apart
        <5> QED
          BY <5>2, <5>3, <5>4
      <4>3. After(p, t[m + g], e - (g - 1), t[j].frame, t[j].at)
        BY <1>13, <3>2, <3>3, <4>2
      <4> QED
        BY <4>2, <4>3
    <3> QED
      BY <1>7, <3>4, <3>5
  <2> QED
    BY <1>7, <2>1, <2>2
<1>15. ASSUME Writing(p)', NEW i \in 1 .. m + n
       PROVE  After(p, t[i], m + n + 1 - i, OutFrame(p)', OutAt(p)')
  <2>1. PICK f, at : f = OutFrame(p)' /\ at = OutAt(p)'
    OBVIOUS
  <2>2. (a + n = l + 3 => f = k + 1 /\ at = 1) /\ (a + n # l + 3 => f = k /\ at = a + n)
    BY <1>15, <2>1
  <2>3. CASE i \in 1 .. m
    <3>1. After(p, t[i], m + 1 - i + n, f, at)
      BY <1>12, <2>2, <2>3
    <3>2. m + 1 - i + n = m + n + 1 - i
      BY <1>3
    <3> QED
      BY <2>1, <3>1, <3>2
  <2>4. CASE i - m \in 1 .. n /\ i = m + (i - m)
    <3>1. PICK g : g = i - m
      OBVIOUS
    <3>2. g \in 1 .. n /\ i = m + g /\ n >= g - 1 /\ n - (g - 1) = m + n + 1 - i
      BY <1>3, <2>4, <3>1
    <3>3. After(p, t[m + g], n - (g - 1), f, at)
      BY <1>13, <2>2, <3>2
    <3> QED
      BY <2>1, <3>2, <3>3
  <2> QED
    BY <1>7, <2>3, <2>4
<1>16. OnWire(p)'
  <2>1. broken[p] = "no" /\ broken'[p] = broken[p] /\ wire'[p] = t
    BY <1>1 DEF Writing
  <2>2. \A i \in DOMAIN t : Place(p, t[i])'
    BY <1>4, <1>8, <1>11
  <2>3. \A i, j \in DOMAIN t : i <= j => After(p, t[i], j - i, t[j].frame, t[j].at)'
    <3> SUFFICES ASSUME NEW i \in DOMAIN t, NEW j \in DOMAIN t, i <= j
                 PROVE  After(p, t[i], j - i, t[j].frame, t[j].at)'
      OBVIOUS
    <3>1. i \in 1 .. m + n /\ j \in 1 .. m + n
      BY <1>4
    <3>2. After(p, t[i], j - i, t[j].frame, t[j].at)
      BY <1>14, <3>1
    <3> QED
      BY <3>2 DEF After, Left
  <2>4. Writing(p)' => \A i \in DOMAIN t : After(p, t[i], Len(t) + 1 - i, OutFrame(p), OutAt(p))'
    BY <1>4, <1>15 DEF After, Left
  <2> QED
    BY <2>1, <2>2, <2>3, <2>4 DEF OnWire
<1>17. (m # 0 => t[1] = s[1]) /\ (m = 0 => t[1] = x[1])
  <2>2. \A u, v \in Nat : v >= 1 =>
            1 \in 1 .. u + v /\ (u # 0 => 1 <= u) /\ (u = 0 => ~(1 <= u) /\ 1 - u = 1)
    OBVIOUS
  <2>1. 1 \in 1 .. m + n /\ (m # 0 => 1 <= m) /\ (m = 0 => ~(1 <= m) /\ 1 - m = 1)
    BY <1>3, <2>2
  <2>3. t[1] = IF 1 <= m THEN s[1] ELSE x[1 - m]
    BY <1>4, <2>1
  <2> QED
    BY <2>1, <2>3
<1>18. s = <<>> <=> m = 0
  <2>1. s = <<>> => Len(s) = 0
    OBVIOUS
  <2> QED
    BY <1>2, <1>3, <2>1, EmptySeq
<1>19. t # <<>>
  <2>1. t = <<>> => Len(t) = 0
    OBVIOUS
  <2> QED
    BY <1>3, <1>4, <2>1
<1> QED
  BY <1>1, <1>2, <1>4, <1>16, <1>17, <1>18, <1>19

LEMMA WriteSomeFlow ==
  ASSUME NEW p \in Sides, NEW q, q = Other(p), Typed, Flow(p), Flow(q), Len(wire[p]) <= Room, WriteSome(p)
  PROVE  /\ Typed' /\ Flow(p)' /\ Flow(q)' /\ Len(wire'[p]) <= Room /\ wire'[q] = wire[q]
         /\ w'[q] = w[q] /\ w'[p].state \in {"WriteLen", "WriteData", "Ready"}
         /\ w[p].state \in {"WriteLen", "WriteData"}
<1>1. q \in Sides /\ Other(q) = p /\ q # p
  BY TwoSides
<1>2. PICK st : st = w[p]
  OBVIOUS
<1>3. st \in Writers /\ st.off \in Nat /\ frames[p] \in Seq(Payloads) /\ wire[p] \in Seq(Bytes)
      /\ Len(wire[p]) \in Nat
  <2>1. st \in Writers /\ frames[p] \in Seq(Payloads) /\ wire[p] \in Seq(Bytes)
    BY <1>2 DEF Typed
  <2> QED
    BY <2>1 DEF Writers
<1>4. PICK first, k : /\ first = IF st.state = "WriteLen" THEN st.off ELSE st.off + 2
                      /\ k = Len(frames[p])
  OBVIOUS
<1>5. PICK n \in 1 .. Remaining(p) :
        /\ broken[p] = "no" /\ Len(wire[p]) + n <= Room
        /\ wire' = [wire EXCEPT ![p] = @ \o [i \in 1 .. n |-> Byte(p, k, first + i)]]
        /\ w' = [w EXCEPT ![p] =
                    IF n < Remaining(p)          THEN [@ EXCEPT !.off = w[p].off + n]
                    ELSE IF @.state = "WriteLen" THEN [state |-> "WriteData", off |-> 0]
                                                 ELSE WReady]
        /\ UNCHANGED <<setup, link, broken, frames, r, hs, out, app>>
  BY <1>2, <1>4 DEF WriteSome
<1>6. UNCHANGED <<setup, link, broken, frames, r, hs, out, peer, written, read>>
  BY <1>5 DEF app
<1>7. st.state \in {"WriteLen", "WriteData"}
  <2>1. st.state \notin {"WriteLen", "WriteData"} => Remaining(p) = 0
    BY <1>2 DEF Remaining
  <2> QED
    BY <1>5, <2>1
<1>8. PICK a, l : a = OutAt(p) /\ l = Length(frames[p][k])
  OBVIOUS
<1>9. k = OutFrame(p) /\ a = first + 1 /\ a \in Nat /\ a >= 1 /\ first \in Nat /\ Writing(p)
  <2>1. k = OutFrame(p) /\ Writing(p)
    BY <1>2, <1>4, <1>5, <1>7 DEF OutFrame, Writing
  <2>2. a = first + 1
    <3>1. CASE st.state = "WriteLen"
      BY <1>2, <1>4, <1>8, <3>1 DEF OutAt
    <3>2. CASE st.state = "WriteData"
      BY <1>2, <1>3, <1>4, <1>8, <3>2 DEF OutAt
    <3> QED
      BY <1>7, <3>1, <3>2
  <2> QED
    BY <1>3, <1>4, <2>1, <2>2
<1>10. k \in DOMAIN frames[p]
  <2>1. frames[p] # <<>>
    BY <1>2, <1>7 DEF Flow, WriterAt
  <2>2. Len(frames[p]) # 0 /\ Len(frames[p]) \in Nat /\ DOMAIN frames[p] = 1 .. Len(frames[p])
    BY <1>3, <2>1, EmptySeq
  <2> QED
    BY <1>4, <2>2
<1>11. l \in Nat /\ l >= 1 /\ l < Width /\ l % Width = l
  BY <1>8, <1>10, LengthIs DEF Flow
<1>12. n \in Nat /\ n >= 1 /\ n <= Remaining(p) /\ Len(wire[p]) + n <= Room
  <2>1. Remaining(p) \in Int
    <3>1. CASE st.state = "WriteLen"
      BY <1>2, <1>3, <3>1 DEF Remaining
    <3>2. CASE st.state = "WriteData"
      BY <1>2, <1>3, <1>4, <1>8, <1>11, <3>2 DEF Remaining
    <3> QED
      BY <1>7, <3>1, <3>2
  <2> QED
    BY <1>5, <2>1
<1>13. PICK x : x = [i \in 1 .. n |-> Byte(p, k, first + i)]
  OBVIOUS
<1>14. /\ x \in Seq(Bytes) /\ Len(x) = n
       /\ \A j \in 1 .. n : x[j] = [frame |-> k, at |-> a + j - 1, len |-> l]
  <2>1. \A j \in 1 .. n : first + j = a + j - 1 /\ first + j \in Nat /\ j \in Nat
    BY <1>9, <1>12
  <2>2. \A j \in 1 .. n : Byte(p, k, first + j) = [frame |-> k, at |-> a + j - 1, len |-> l]
    BY <1>8, <1>11, <2>1 DEF Byte
  <2>3. k \in Nat
    BY <1>3, <1>4
  <2>4. \A j \in 1 .. n : Byte(p, k, first + j) \in Bytes
    <3> SUFFICES ASSUME NEW j \in 1 .. n PROVE Byte(p, k, first + j) \in Bytes
      OBVIOUS
    <3>1. a + j - 1 \in Nat
      BY <2>1
    <3>2. [frame |-> k, at |-> a + j - 1, len |-> l] \in Bytes
      BY <1>11, <2>3, <3>1 DEF Bytes
    <3> QED
      BY <2>2, <3>2
  <2>5. x \in [1 .. n -> Bytes]
    BY <1>13, <2>4
  <2>6. x \in Seq(Bytes) /\ Len(x) = n
    BY <1>12, <2>5
  <2> QED
    BY <1>13, <2>2, <2>6
<1>15. wire'[p] = wire[p] \o x /\ wire'[q] = wire[q]
  BY <1>1, <1>5, <1>13 DEF Typed
\* Where the writer is now.
<1>16. /\ w'[p] \in Writers /\ WriterAt(p)' /\ a + n <= l + 3
       /\ w'[p].state \in {"WriteLen", "WriteData", "Ready"}
       /\ a + n = l + 3 => OutFrame(p)' = k + 1 /\ OutAt(p)' = 1
       /\ a + n # l + 3 => OutFrame(p)' = k /\ OutAt(p)' = a + n
  <2>1. frames'[p] = frames[p] /\ frames[p] # <<>>
    BY <1>6, <1>2, <1>7 DEF Flow, WriterAt
  <2>2. CASE st.state = "WriteLen" /\ n < Remaining(p)
    <3>1. w'[p] = [st EXCEPT !.off = @ + n]
      <4>1. n < Remaining(p)
        BY <2>2
      <4>2. w' = [w EXCEPT ![p] = [w[p] EXCEPT !.off = w[p].off + n]]
        BY <1>5, <4>1
      <4> QED
        BY <1>2, <4>2 DEF Typed
    <3>2. w'[p] \in Writers /\ w'[p].state = "WriteLen" /\ w'[p].off = st.off + n
      BY <1>3, <1>12, <2>2, <3>1 DEF Writers
    <3>3. Remaining(p) = 2 - st.off /\ st.off \in {0, 1}
      BY <1>2, <2>2 DEF Remaining, Flow, WriterAt
    <3>4. st.off = 0 /\ n = 1
      BY <1>12, <2>2, <3>3
    <3>5. a = 1 /\ a + n = 2 /\ a + n <= l + 3 /\ a + n # l + 3
      BY <1>4, <1>9, <1>11, <2>2, <3>4
    <3>6. OutFrame(p)' = k /\ OutAt(p)' = 2
      BY <1>4, <2>1, <3>2, <3>4 DEF OutFrame, OutAt
    <3>7. WriterAt(p)'
      BY <2>1, <3>2, <3>4 DEF WriterAt
    <3> QED
      BY <3>2, <3>5, <3>6, <3>7
  <2>3. CASE st.state = "WriteLen" /\ ~(n < Remaining(p))
    <3>1. w'[p] = [state |-> "WriteData", off |-> 0]
      BY <1>2, <1>5, <2>3 DEF Typed
    <3>2. w'[p] \in Writers /\ w'[p].state = "WriteData" /\ w'[p].off = 0
      BY <3>1 DEF Writers
    <3>3. Remaining(p) = 2 - st.off /\ st.off \in {0, 1}
      BY <1>2, <2>3 DEF Remaining, Flow, WriterAt
    <3>4. n = 2 - st.off
      BY <1>5, <1>12, <2>3, <3>3
    <3>5. a + n = 3 /\ a + n <= l + 3 /\ a + n # l + 3
      BY <1>3, <1>4, <1>9, <1>11, <2>3, <3>3, <3>4
    <3>6. OutFrame(p)' = k /\ OutAt(p)' = 3
      BY <1>4, <2>1, <3>2 DEF OutFrame, OutAt
    <3>7. WriterAt(p)'
      BY <1>4, <1>8, <1>11, <2>1, <3>2 DEF WriterAt
    <3> QED
      BY <3>2, <3>5, <3>6, <3>7
  <2>4. CASE st.state = "WriteData" /\ n < Remaining(p)
    <3>1. w'[p] = [st EXCEPT !.off = @ + n]
      <4>1. n < Remaining(p)
        BY <2>4
      <4>2. w' = [w EXCEPT ![p] = [w[p] EXCEPT !.off = w[p].off + n]]
        BY <1>5, <4>1
      <4> QED
        BY <1>2, <4>2 DEF Typed
    <3>2. w'[p] \in Writers /\ w'[p].state = "WriteData" /\ w'[p].off = st.off + n
      BY <1>3, <1>12, <2>4, <3>1 DEF Writers
    <3>3. Remaining(p) = l - st.off
      BY <1>2, <1>4, <1>8, <2>4 DEF Remaining
    <3>4. st.off + n < l
      BY <1>3, <1>11, <1>12, <2>4, <3>3
    <3>5. a = st.off + 3
      BY <1>3, <1>4, <1>9, <2>4
    <3>6. a + n = st.off + n + 3 /\ a + n <= l + 3 /\ a + n # l + 3
      <4>1. PICK o : o = st.off
        OBVIOUS
      <4>2. o \in Nat /\ n \in Nat /\ l \in Nat /\ o + n < l /\ a = o + 3
        BY <1>3, <1>11, <1>12, <3>4, <3>5, <4>1
      <4>3. a + n = o + n + 3 /\ a + n <= l + 3 /\ a + n # l + 3
        BY <4>2
      <4> QED
        BY <4>1, <4>3
    <3>7. OutFrame(p)' = k /\ OutAt(p)' = st.off + n + 3
      BY <1>4, <2>1, <3>2 DEF OutFrame, OutAt
    <3>8. WriterAt(p)'
      BY <1>4, <1>8, <2>1, <3>2, <3>4 DEF WriterAt
    <3> QED
      BY <3>2, <3>6, <3>7, <3>8
  <2>5. CASE st.state = "WriteData" /\ ~(n < Remaining(p))
    <3>1. w'[p] = WReady
      BY <1>2, <1>5, <2>5 DEF Typed
    <3>2. w'[p] \in Writers /\ w'[p].state = "Ready"
      BY <3>1 DEF Writers, WReady
    <3>3. Remaining(p) = l - st.off
      BY <1>2, <1>4, <1>8, <2>5 DEF Remaining
    <3>4. st.off + n = l
      <4>1. n <= Remaining(p)
        BY <1>12
      <4> QED
        BY <1>3, <1>11, <1>12, <2>5, <3>3, <4>1
    <3>5. a = st.off + 3
      BY <1>3, <1>4, <1>9, <2>5
    <3>6. a + n = l + 3
      BY <1>3, <1>12, <3>4, <3>5
    <3>7. OutFrame(p)' = k + 1 /\ OutAt(p)' = 1
      BY <1>4, <2>1, <3>2 DEF OutFrame, OutAt
    <3>8. WriterAt(p)'
      BY <3>2 DEF WriterAt
    <3> QED
      BY <1>11, <3>2, <3>6, <3>7, <3>8
  <2> QED
    BY <1>7, <2>2, <2>3, <2>4, <2>5
<1>17. /\ OnWire(p)' /\ wire'[p] \in Seq(Bytes) /\ Len(wire'[p]) = Len(wire[p]) + n
       /\ wire[p] # <<>> => wire'[p][1] = wire[p][1]
       /\ wire[p] = <<>> => wire'[p][1] = x[1]
       /\ wire'[p] # <<>>
  <2>1. Framed(p) /\ OnWire(p) /\ UNCHANGED <<setup, frames, broken>>
    BY <1>6 DEF Flow
  <2>2. /\ k = OutFrame(p) /\ a \in Nat /\ a = OutAt(p) /\ a >= 1 /\ k \in DOMAIN frames[p]
        /\ l \in Nat /\ l = Length(frames[p][k]) /\ n \in Nat /\ n >= 1 /\ a + n <= l + 3
        /\ Writing(p) /\ wire'[p] = wire[p] \o x
    BY <1>8, <1>9, <1>10, <1>11, <1>12, <1>15, <1>16
  <2>3. Writing(p)' => /\ a + n = l + 3 => OutFrame(p)' = k + 1 /\ OutAt(p)' = 1
                       /\ a + n # l + 3 => OutFrame(p)' = k /\ OutAt(p)' = a + n
    BY <1>16
  <2>4. Grows(p, k, a, l, n, x)
    BY <1>14, <2>1, <2>2, <2>3 DEF Grows
  <2> QED
    BY <2>4, Grown
<1>18. Typed'
  <2>1. wire' \in [Sides -> Seq(Bytes)]
    BY <1>1, <1>5, <1>13, <1>15, <1>17 DEF Typed
  <2>2. w' \in [Sides -> Writers]
    <3>1. \E y : w' = [w EXCEPT ![p] = y]
      BY <1>5
    <3>2. PICK y : w' = [w EXCEPT ![p] = y]
      BY <3>1
    <3>3. y \in Writers
      BY <1>16, <3>2 DEF Typed
    <3> QED
      BY <3>2, <3>3 DEF Typed
  <2> QED
    BY <1>6, <2>1, <2>2 DEF Typed
<1>19. w'[q] = w[q]
  BY <1>1, <1>5 DEF Typed
<1>20. Framed(p)' /\ Framed(q)'
  <2>1. Hello(p)' = Hello(p) /\ Hello(q)' = Hello(q)
    BY <1>6, SetupKept
  <2> QED
    BY <1>6, <2>1 DEF Flow, Framed
<1>21. Meets(p, q)'
  <2>1. Readable(q)' = Readable(q) /\ InFrame(q)' = InFrame(q) /\ InAt(q)' = InAt(q)
    BY <1>6 DEF Readable, InFrame, InAt
  <2>2. x[1].frame = k /\ x[1].at = a
    <3>1. 1 \in 1 .. n /\ a + 1 - 1 = a
      BY <1>9, <1>12
    <3>2. x[1] = [frame |-> k, at |-> a + 1 - 1, len |-> l]
      BY <1>14, <3>1
    <3> QED
      BY <3>1, <3>2
  <2>3. Meets(p, q)
    BY DEF Flow
  <2>4. Readable(q) => wire'[p][1].frame = InFrame(q) /\ wire'[p][1].at = InAt(q)
    BY <1>8, <1>9, <1>17, <2>2, <2>3 DEF Meets
  <2> QED
    BY <1>17, <2>1, <2>4 DEF Meets
<1>22. ReaderAt(p, q)'
  BY <1>6 DEF Flow, ReaderAt
<1>23. Flow(p)'
  BY <1>16, <1>17, <1>20, <1>21, <1>22 DEF Flow
<1>24. Flow(q)'
  <2>1. Longer(q)
    <3>1. frames[q] \in Seq(Payloads) /\ Len(frames[q]) \in Nat
      BY <1>1 DEF Typed
    <3> QED
      BY <1>6, <3>1 DEF Longer
  <2>2. SameReader(Other(q))
    BY <1>6 DEF SameReader
  <2>3. Writing(q)' => Writing(q) /\ OutFrame(q)' = OutFrame(q) /\ OutAt(q)' = OutAt(q)
    BY <1>6, <1>19 DEF Writing, OutFrame, OutAt
  <2>4. wire'[q] = wire[q] /\ broken'[q] = broken[q] /\ UNCHANGED setup
    BY <1>6, <1>15
  <2>5. WriterAt(q)'
    BY <1>6, <1>19 DEF Flow, WriterAt
  <2> QED
    BY <1>1, <1>18, <1>20, <2>1, <2>2, <2>3, <2>4, <2>5, FlowKept
<1>25. Len(wire'[p]) <= Room
  BY <1>12, <1>17
<1> QED
  BY <1>2, <1>7, <1>15, <1>16, <1>18, <1>19, <1>23, <1>24, <1>25

-----------------------------------------------------------------------------
(* What a step leaves alone.                                               *)

LEMMA FlowSame ==
  ASSUME Typed, Typed', \A p \in Sides : Flow(p), UNCHANGED <<setup, wire, broken, frames, w>>,
         \A q \in Sides : SameReader(q)
  PROVE  \A p \in Sides : Flow(p)'
<1> SUFFICES ASSUME NEW p \in Sides PROVE Flow(p)'
  OBVIOUS
<1>1. Longer(p)
  <2>1. frames[p] \in Seq(Payloads) /\ Len(frames[p]) \in Nat
    BY DEF Typed
  <2> QED
    BY <2>1 DEF Longer
<1>2. Framed(p)' /\ WriterAt(p)'
  <2>1. Hello(p)' = Hello(p)
    BY SetupKept
  <2> QED
    BY <2>1 DEF Flow, Framed, WriterAt
<1>3. Writing(p)' => Writing(p) /\ OutFrame(p)' = OutFrame(p) /\ OutAt(p)' = OutAt(p)
  BY DEF Writing, OutFrame, OutAt
<1>4. SameReader(Other(p)) /\ wire'[p] = wire[p] /\ broken'[p] = broken[p]
  BY TwoSides
<1> QED
  BY <1>1, <1>2, <1>3, <1>4, FlowKept

LEMMA EndKept ==
  ASSUME NEW p \in Sides, Typed, Longer(p), UNCHANGED setup
  PROVE  \A k \in 0 .. Len(frames[p]) : EndOf(p, k)' = EndOf(p, k)
<1> SUFFICES ASSUME NEW k \in 0 .. Len(frames[p]) PROVE EndOf(p, k)' = EndOf(p, k)
  OBVIOUS
<1>1. Hello(p)' = Hello(p)
  BY SetupKept
<1>2. CASE k <= Len(Hello(p))
  BY <1>1, <1>2 DEF EndOf
<1>3. CASE ~(k <= Len(Hello(p)))
  <2>1. frames[p] \in Seq(Payloads) /\ Len(frames[p]) \in Nat /\ Len(Hello(p)) \in {1, 2}
    BY HelloIs DEF Typed
  <2>2. k \in DOMAIN frames[p]
    BY <1>3, <2>1
  <2>3. frames'[p][k] = frames[p][k]
    BY <2>2 DEF Longer
  <2> QED
    BY <1>1, <1>3, <2>3 DEF EndOf
<1> QED
  BY <1>2, <1>3

LEMMA CargoKept ==
  ASSUME NEW p \in Sides, Typed, Cargo(p), UNCHANGED setup, frames'[p] = frames[p],
         written'[p] = written[p], out'[p].fill = out[p].fill, out'[p].send = out[p].send
  PROVE  Cargo(p)'
<1>1. Hello(p)' = Hello(p)
  BY SetupKept
<1>2. \A k : EndOf(p, k)' = EndOf(p, k)
  BY <1>1 DEF EndOf
<1> QED
  BY <1>1, <1>2 DEF Cargo

LEMMA UnpackedKept ==
  ASSUME NEW p \in Sides, NEW q \in Sides, Typed, Unpacked(p, q), r[q].opened <= Len(frames[p]),
         UNCHANGED setup, Longer(p), read'[q] = read[q], r'[q].opened = r[q].opened,
         r'[q].item = r[q].item, out'[q].recv = out[q].recv, out'[q].taken = out[q].taken
  PROVE  Unpacked(p, q)'
<1>1. Hello(p)' = Hello(p)
  BY SetupKept
<1>2. frames[p] \in Seq(Payloads) /\ Len(frames[p]) \in Nat /\ r[q].opened \in Nat
      /\ DOMAIN frames[p] = 1 .. Len(frames[p])
  <2>1. frames[p] \in Seq(Payloads) /\ r[q] \in Readers
    BY DEF Typed
  <2> QED
    BY <2>1 DEF Readers
<1>3. Used(q)' = Used(q)
  BY DEF Used
<1>4. Used(q) \in 0 .. Len(frames[p])
  BY <1>2 DEF Used, Unpacked
<1>5. EndOf(p, Used(q))' = EndOf(p, Used(q))
  <2>1. \A k \in 0 .. Len(frames[p]) : EndOf(p, k)' = EndOf(p, k)
    BY EndKept
  <2>2. PICK u : u = Used(q)
    OBVIOUS
  <2>3. EndOf(p, u)' = EndOf(p, u)
    BY <1>4, <2>1, <2>2
  <2> QED
    BY <1>3, <2>2, <2>3 DEF EndOf
<1>6. out[q].recv # <<>> => /\ r[q].opened \in DOMAIN frames[p]
                            /\ EndOf(p, r[q].opened - 1)' = EndOf(p, r[q].opened - 1)
  <2> SUFFICES ASSUME out[q].recv # <<>>
               PROVE  /\ r[q].opened \in DOMAIN frames[p]
                      /\ EndOf(p, r[q].opened - 1)' = EndOf(p, r[q].opened - 1)
    OBVIOUS
  <2>1. r[q].opened \in DOMAIN frames[p]
    BY DEF Unpacked
  <2>2. r[q].opened - 1 \in 0 .. Len(frames[p])
    BY <1>2, <2>1
  <2>3. PICK u : u = r[q].opened - 1
    OBVIOUS
  <2>4. EndOf(p, u)' = EndOf(p, u)
    BY <2>2, <2>3, EndKept
  <2> QED
    BY <2>1, <2>3, <2>4 DEF EndOf
<1>7. \A k \in DOMAIN frames[p] : k \in DOMAIN frames'[p] /\ frames'[p][k] = frames[p][k]
  BY DEF Longer
<1>8. r'[q].item.kind = "frame" =>
        /\ r'[q].opened \in DOMAIN frames'[p]
        /\ r'[q].item.payload = frames'[p][r'[q].opened]
        /\ out'[q].recv = <<>>
  BY <1>7 DEF Unpacked
<1>9. out'[q].recv # <<>> =>
        /\ r'[q].opened \in DOMAIN frames'[p] /\ r'[q].opened > Len(Hello(p))
        /\ out'[q].recv = frames'[p][r'[q].opened].bytes
        /\ out'[q].taken < Len(out'[q].recv)
        /\ Len(read'[q]) = EndOf(p, r[q].opened - 1) + out'[q].taken
  BY <1>6, <1>7 DEF Unpacked
<1>10. Numbered(read[q])' /\ (out[q].recv = <<>> => Len(read[q]) = EndOf(p, Used(q)))
  BY DEF Unpacked, Numbered
<1> QED
  BY <1>1, <1>3, <1>5, <1>6, <1>8, <1>9, <1>10 DEF Unpacked

\* What a step leaves of an end's handshake.
SameHand(p) ==
    /\ hs'[p] = hs[p] /\ peer'[p] = peer[p]
    /\ r'[p].opened = r[p].opened /\ r'[p].item = r[p].item /\ (Readable(p) => Readable(p)')
    /\ out'[p].recv = out[p].recv
    /\ hs[p].closed => out'[p].fill = out[p].fill /\ w'[p].state = w[p].state
    /\ Going(p) => Len(frames'[p]) = Len(frames[p])
    /\ Len(frames[p]) <= Len(frames'[p])

\* The end of a stream stays its end.
SameEnd(p) ==
    /\ \A q \in Sides : link[q] = "shut" => link'[q] = "shut"
    /\ link[Other(p)] = "shut" /\ hs'[Other(p)].closed /\ broken'[p] = "no" =>
            /\ hs[Other(p)].closed /\ broken[p] = "no"
            /\ Len(frames'[Other(p)]) = Len(frames[Other(p)])

LEMMA HandKept ==
  ASSUME NEW p \in Sides, Typed, Typed', UNCHANGED setup, Hand(p), SameHand(p), SameEnd(p)
  PROVE  Hand(p)'
<1>1. Len(frames[p]) \in Nat /\ Len(frames'[p]) \in Nat
  <2>1. frames[p] \in Seq(Payloads) /\ frames'[p] \in Seq(Payloads)
    BY DEF Typed
  <2> QED
    BY <2>1
<1>2. Used(p)' = Used(p) /\ Going(p)' = Going(p)
  BY DEF SameHand, Used, Going
<1>3. Going(p)' => InHandshake(p)'
  <2> SUFFICES ASSUME Going(p) PROVE InHandshake(p)'
    BY <1>2
  <2>1. InHandshake(p)
    BY DEF Hand
  <2>2. PICK s : s = hs[p].step
    OBVIOUS
  <2>3. hs'[p].step = s
    BY <2>2 DEF SameHand
  <2>4. Upgrade(p)' = Upgrade(p) /\ Upgrade(Other(p))' = Upgrade(Other(p))
    BY SetupKept
  <2>5. Step(p)' = Step(p)
    BY <2>2, <2>3, <2>4 DEF Step
  <2>6. Sends(p, s)' = Sends(p, s) /\ Recvs(p, s)' = Recvs(p, s) /\ Knows(p, s)' = Knows(p, s)
    BY SetupKept
  <2>7. /\ peer'[p] = Nobody /\ ~hs'[p].closed
        /\ hs'[p].step \in 1 .. Len(Upgrade(p).script)' + 1
        /\ hs'[p].sent => Step(p)' \in {"send_empty", "send_identity"}
        /\ r'[p].item.kind # "none" => Step(p)' \in {"recv_empty", "recv_identity"}
        /\ out'[p].recv = <<>>
    BY <2>1, <2>4, <2>5 DEF SameHand, InHandshake
  <2>8. Len(frames'[p]) = Sends(p, hs[p].step)' + (IF hs'[p].sent THEN 1 ELSE 0)
    BY <2>1, <2>2, <2>3, <2>6 DEF SameHand, InHandshake, Sends
  <2>9. Used(p)' = Recvs(p, hs[p].step)'
    BY <1>2, <2>1, <2>2, <2>3, <2>6 DEF InHandshake, Recvs
  <2>10. Knows(p, hs[p].step)' = Knows(p, hs[p].step)
    BY <2>2, <2>3, <2>6 DEF Knows
  <2>11. hs'[p].sig = IF Knows(p, hs[p].step)' THEN Signature(Other(p))' ELSE NoSignature'
    BY <2>1, <2>10 DEF SameHand, InHandshake, Signature, NoSignature
  <2>12. hs'[p].key = IF Knows(p, hs[p].step)' /\ Upgrade(Other(p))'.sends
                     THEN Other(p)' ELSE Upgrade(p)'.expects
    BY <2>1, <2>4, <2>10 DEF SameHand, InHandshake
  <2> QED
    BY <2>7, <2>8, <2>9, <2>11, <2>12 DEF InHandshake
<1>4. hs'[p].state \in {"done", "eof", "error"} => Upgraded(p)'
  <2> SUFFICES ASSUME hs[p].state \in {"done", "eof", "error"} PROVE Upgraded(p)'
    BY DEF SameHand
  <2>1. Upgraded(p)
    BY DEF Hand
  <2>2. Hello(p)' = Hello(p) /\ Hello(Other(p))' = Hello(Other(p))
    BY SetupKept
  <2>3. Len(Hello(p)) \in Nat
    BY HelloIs
  <2>4. Len(frames'[p]) >= Len(Hello(p))
    BY <1>1, <2>1, <2>3 DEF Upgraded, SameHand
  <2> QED
    BY <1>2, <2>1, <2>2, <2>4 DEF Upgraded, SameHand
<1>5. hs'[p].closed =>
        /\ link'[p] = "shut" /\ out'[p].fill = 0 /\ w'[p].state = "Ready"
        /\ Len(frames'[p]) >= Len(Hello(p))'
  <2> SUFFICES ASSUME hs[p].closed
               PROVE  /\ link'[p] = "shut" /\ out'[p].fill = 0 /\ w'[p].state = "Ready"
                      /\ Len(frames'[p]) >= Len(Hello(p))'
    BY DEF SameHand
  <2>1. Hello(p)' = Hello(p)
    BY SetupKept
  <2>2. Len(Hello(p)) \in Nat
    BY HelloIs
  <2>3. Len(frames[p]) >= Len(Hello(p)) /\ Len(frames[p]) <= Len(frames'[p])
    BY DEF Hand, SameHand
  <2>4. link[p] = "shut" /\ out[p].fill = 0 /\ w[p].state = "Ready"
    BY DEF Hand
  <2> QED
    BY <1>1, <2>1, <2>2, <2>3, <2>4 DEF SameHand, SameEnd
<1>6. r'[p].item.kind = "eof" \/ hs'[p].state = "eof" =>
        /\ link'[Other(p)] = "shut"
        /\ hs'[Other(p)].closed /\ broken'[p] = "no" =>
                r'[p].opened = Len(frames'[Other(p)]) /\ out'[p].recv = <<>>
  <2> SUFFICES ASSUME r[p].item.kind = "eof" \/ hs[p].state = "eof"
               PROVE  /\ link'[Other(p)] = "shut"
                      /\ hs'[Other(p)].closed /\ broken'[p] = "no" =>
                             r'[p].opened = Len(frames'[Other(p)]) /\ out'[p].recv = <<>>
    BY DEF SameHand
  <2>1. link[Other(p)] = "shut" /\ (hs[Other(p)].closed /\ broken[p] = "no" =>
                r[p].opened = Len(frames[Other(p)]) /\ out[p].recv = <<>>)
    BY DEF Hand
  <2> QED
    BY <2>1, TwoSides DEF SameHand, SameEnd
<1>7. /\ peer'[p] \in {Nobody, Other(p)}
      /\ hs'[p].state \in {"eof", "error"} => r'[p].item.kind = "none"
      /\ Going(p)' \/ hs'[p].state = "done" => Readable(p)' \/ r'[p].item.kind \in {"eof", "error"}
  BY <1>2 DEF Hand, SameHand
<1> QED
  BY <1>3, <1>4, <1>5, <1>6, <1>7 DEF Hand

LEMMA ReasonKept ==
  ASSUME Reason, UNCHANGED setup,
         \A p \in Sides : /\ hs[p].state = "ended" => hs'[p].state = "ended"
                          /\ broken[p] # "no" => broken'[p] # "no"
  PROVE  Reason'
  BY DEF Reason

\* A handshake or a stream that gets an item is where it was.
LEMMA HandRead ==
  ASSUME NEW p \in Sides, Typed, Typed', UNCHANGED <<setup, hs, peer, frames, w, link, out>>, Hand(p),
         Reading(p), r'[p].item.kind \in {"frame", "eof", "error"}, Used(p)' = Used(p),
         Readable(p)' \/ r'[p].item.kind \in {"eof", "error"},
         r'[p].item.kind = "eof" =>
            /\ link[Other(p)] = "shut"
            /\ hs[Other(p)].closed /\ broken'[p] = "no" =>
                    r'[p].opened = Len(frames[Other(p)]) /\ out[p].recv = <<>>
  PROVE  Hand(p)'
<1>1. Going(p)' = Going(p) /\ Step(p)' = Step(p)
  BY SetupKept DEF Going, Step
<1>2. Going(p) => InHandshake(p)'
  <2> SUFFICES ASSUME Going(p) PROVE InHandshake(p)'
    OBVIOUS
  <2>1. InHandshake(p) /\ peer[p] = Nobody
    BY DEF Hand, InHandshake
  <2>2. Step(p) \in {"recv_empty", "recv_identity"}
    BY <2>1 DEF Reading, Established
  <2>3. Upgrade(p)' = Upgrade(p) /\ Upgrade(Other(p))' = Upgrade(Other(p))
    BY SetupKept
  <2>4. \A s : Sends(p, s)' = Sends(p, s) /\ Recvs(p, s)' = Recvs(p, s) /\ Knows(p, s)' = Knows(p, s)
    BY SetupKept
  <2>5. Knows(p, hs[p].step)' = Knows(p, hs[p].step)
    BY <2>4 DEF Knows
  <2>6. /\ Len(frames'[p]) = Sends(p, hs[p].step)' + (IF hs'[p].sent THEN 1 ELSE 0)
        /\ Used(p)' = Recvs(p, hs[p].step)'
    BY <2>1, <2>4 DEF InHandshake, Sends, Recvs
  <2>7. hs'[p].sig = IF Knows(p, hs[p].step)' THEN Signature(Other(p))' ELSE NoSignature'
    BY <2>1, <2>5 DEF InHandshake, Signature, NoSignature
  <2>8. hs'[p].key = IF Knows(p, hs[p].step)' /\ Upgrade(Other(p))'.sends
                     THEN Other(p)' ELSE Upgrade(p)'.expects
    BY <2>1, <2>3, <2>5 DEF InHandshake
  <2> QED
    BY <1>1, <2>1, <2>2, <2>3, <2>6, <2>7, <2>8 DEF InHandshake
<1>3. hs[p].state \in {"going", "done"}
  BY DEF Reading, Going
<1>4. hs[p].state = "done" => Upgraded(p)'
  BY SetupKept DEF Hand, Upgraded
<1>5. hs'[p].closed =>
        /\ link'[p] = "shut" /\ out'[p].fill = 0 /\ w'[p].state = "Ready"
        /\ Len(frames'[p]) >= Len(Hello(p))'
  BY SetupKept DEF Hand
<1>6. peer'[p] \in {Nobody, Other(p)}
  BY DEF Hand
<1>7. r'[p].item.kind = "eof" \/ hs'[p].state = "eof" =>
        /\ link'[Other(p)] = "shut"
        /\ hs'[Other(p)].closed /\ broken'[p] = "no" =>
                r'[p].opened = Len(frames'[Other(p)]) /\ out'[p].recv = <<>>
  BY <1>3
<1> QED
  BY <1>1, <1>2, <1>3, <1>4, <1>5, <1>6, <1>7 DEF Hand

-----------------------------------------------------------------------------
(* Reading keeps the invariant.                                            *)

LEMMA OpenedIs ==
  ASSUME NEW p \in Sides, NEW q \in Sides, p = Other(q), Typed, Flow(p)
  PROVE  /\ r[q].opened \in Nat /\ r[q].opened <= Len(frames[p]) /\ Len(frames[p]) \in Nat
         /\ DOMAIN frames[p] = 1 .. Len(frames[p]) /\ frames[p] \in Seq(Payloads)
<1>1. frames[p] \in Seq(Payloads) /\ r[q] \in Readers
  BY DEF Typed
<1>2. Other(p) = q
  BY TwoSides
<1> QED
  BY <1>1, <1>2 DEF Flow, ReaderAt, Readers

\* Bytes that are read give the reader another place, or a frame more.
LEMMA BytesRead ==
  ASSUME NInv, NEW q \in Sides, NEW p, p = Other(q), Reading(q), NEW n, NEW new, Reads(q, n, new),
         new.state \in {"ReadLen", "ReadData"},
         \/ new.opened = r[q].opened /\ new.item = r[q].item
         \/ /\ new.opened = r[q].opened + 1 /\ new.opened \in DOMAIN frames[p]
            /\ new.item = Frame(frames[p][new.opened]),
         Framed(p)' => ReaderAt(p, q)' /\ Meets(p, q)'
  PROVE  NInv'
<1>1. p \in Sides /\ Other(p) = q /\ p # q /\ Other(q) = p
  BY TwoSides
<1>2. /\ Typed /\ \A x \in Sides : Flow(x) /\ Len(wire[x]) <= Room /\ Cargo(x)
      /\ Unpacked(p, q) /\ Unpacked(q, p) /\ Hand(p) /\ Hand(q)
  BY <1>1 DEF NInv
<1>3. Typed' /\ (\A x \in Sides : Flow(x)') /\ \A x \in Sides : Len(wire'[x]) <= Len(wire[x])
  BY <1>1, <1>2, ReadsFlow
<1>4. /\ UNCHANGED <<setup, link, broken, frames, w, hs, out, peer, written, read>>
      /\ r'[q] = new /\ r'[p] = r[p]
  BY <1>1, <1>2 DEF Reads, app, Typed
<1>5. \A x \in Sides : Len(wire'[x]) <= Room
  <2> SUFFICES ASSUME NEW x \in Sides PROVE Len(wire'[x]) <= Room
    OBVIOUS
  <2>1. wire[x] \in Seq(Bytes) /\ wire'[x] \in Seq(Bytes)
    BY <1>2, <1>3 DEF Typed
  <2>2. Len(wire[x]) \in Nat /\ Len(wire'[x]) \in Nat
    BY <2>1
  <2>3. Len(wire'[x]) <= Len(wire[x]) /\ Len(wire[x]) <= Room
    BY <1>2, <1>3
  <2> QED
    BY <2>2, <2>3, Constants
<1>6. \A x \in Sides : Cargo(x)'
  BY <1>2, <1>4, CargoKept
<1>7. \A x \in Sides : Longer(x) /\ SameEnd(x)
  <2> SUFFICES ASSUME NEW x \in Sides PROVE Longer(x) /\ SameEnd(x)
    OBVIOUS
  <2>1. frames[x] \in Seq(Payloads) /\ Len(frames[x]) \in Nat
    BY <1>2 DEF Typed
  <2> QED
    BY <1>4, <2>1 DEF Longer, SameEnd
<1>8. /\ r[q].opened <= Len(frames[p]) /\ r[p].opened <= Len(frames[q])
      /\ r[q].opened \in Nat /\ Len(frames[p]) \in Nat /\ Len(frames[q]) \in Nat
  BY <1>1, <1>2, OpenedIs
<1>9. Unpacked(q, p)' /\ Hand(p)'
  <2>1. Unpacked(q, p)'
    BY <1>1, <1>2, <1>4, <1>7, <1>8, UnpackedKept
  <2>2. SameHand(p)
    BY <1>4, <1>8 DEF SameHand, Readable
  <2> QED
    BY <1>1, <1>2, <1>3, <1>4, <1>7, <2>1, <2>2, HandKept
<1>10. Unpacked(p, q)' /\ Hand(q)' /\ (Going(q) => r'[q].item.kind \in {"none", "frame"})
  <2>1. CASE new.opened = r[q].opened /\ new.item = r[q].item
    <3>1. Unpacked(p, q)'
      BY <1>1, <1>2, <1>4, <1>7, <1>8, <2>1, UnpackedKept
    <3>2. SameHand(q)
      BY <1>4, <1>8, <2>1 DEF SameHand, Readable
    <3>3. Hand(q)'
      BY <1>2, <1>3, <1>4, <1>7, <3>2, HandKept
    <3> QED
      BY <1>4, <2>1, <3>1, <3>3 DEF Reading, None
  <2>2. CASE /\ new.opened = r[q].opened + 1 /\ new.opened \in DOMAIN frames[p]
             /\ new.item = Frame(frames[p][new.opened])
    <3>1. r[q].item.kind = "none" /\ r'[q].item.kind = "frame"
          /\ r'[q].item.payload = frames[p][r[q].opened + 1]
      BY <1>4, <2>2 DEF Reading, None, Frame
    <3>2. Used(q) = r[q].opened /\ Used(q)' = r[q].opened
      BY <1>4, <1>8, <2>2, <3>1 DEF Used
    <3>3. out[q].recv = <<>>
      BY <1>2 DEF Reading, Hand, InHandshake
    <3>4. Len(read'[q]) = EndOf(p, Used(q))'
      <4>1. Len(read[q]) = EndOf(p, Used(q))
        BY <1>2, <3>3 DEF Unpacked
      <4>2. Hello(p)' = Hello(p)
        BY <1>4, SetupKept
      <4> QED
        BY <1>4, <3>2, <4>1, <4>2 DEF EndOf
    <3>5. Unpacked(p, q)'
      BY <1>2, <1>4, <2>2, <3>1, <3>3, <3>4 DEF Unpacked, Numbered
    <3>6. Readable(q)'
      BY <1>4 DEF Readable
    <3>7. Hand(q)'
      BY <1>2, <1>3, <1>4, <3>1, <3>2, <3>6, HandRead
    <3> QED
      BY <3>1, <3>5, <3>7
  <2> QED
    BY <2>1, <2>2
<1>11. Explained'
  <2>1. Reason => Reason'
    BY <1>4, ReasonKept
  <2>2. (\A x \in Sides : Sound(x)) => \A x \in Sides : Sound(x)'
    <3> SUFFICES ASSUME \A x \in Sides : Sound(x) PROVE \A x \in Sides : Sound(x)'
      OBVIOUS
    <3>1. Sound(p)'
      BY <1>1, <1>4 DEF Sound, Going
    <3>2. Sound(q)'
      BY <1>4, <1>10 DEF Sound, Going
    <3> QED
      BY <1>1, <3>1, <3>2, TwoSides
  <2> QED
    BY <2>1, <2>2 DEF NInv, Explained
<1>12. BothBroken'
  BY <1>4 DEF NInv, BothBroken
<1>13. \A x \in Sides : Unpacked(Other(x), x)' /\ Hand(x)'
  BY <1>1, <1>9, <1>10, TwoSides
<1> QED
  BY <1>3, <1>5, <1>6, <1>11, <1>12, <1>13 DEF NInv

LEMMA ReadLenKeeps ==
  ASSUME NInv, NEW q \in Sides, ReadLen(q)
  PROVE  NInv'
<1>1. PICK p : p = Other(q)
  OBVIOUS
<1>2. Typed /\ \A x \in Sides : Flow(x)
  BY DEF NInv
<1>3. PICK n, new : /\ Reads(q, n, new)
                    /\ new.opened = r[q].opened /\ new.item = r[q].item
                    /\ Framed(p)' => ReaderAt(p, q)' /\ Meets(p, q)'
  BY <1>1, <1>2, ReadLenFlow
<1>4. r'[q] = new /\ Reading(q)
  BY <1>2, <1>3 DEF Reads, Typed, ReadLen
<1>5. r'[q].state \in {"ReadLen", "ReadData"}
  <2>1. PICK m \in 1 .. 2 - Len(r[q].buf) :
            IF Len(r[q].buf \o Taken(q, m)) < 2
            THEN r' = [r EXCEPT ![q].buf = Kept(r[q].buf \o Taken(q, m))]
            ELSE \E len \in Lengths(r[q].buf \o Taken(q, m)) :
                     r' = [r EXCEPT ![q].buf = <<>>, ![q].len = len,
                                    ![q].state = IF len = 0 THEN "ReadLen" ELSE "ReadData"]
    BY DEF ReadLen
  <2>2. r[q].state = "ReadLen" /\ r \in [Sides -> Readers]
    BY <1>2 DEF ReadLen, Typed
  <2>3. CASE r' = [r EXCEPT ![q].buf = Kept(r[q].buf \o Taken(q, m))]
    BY <2>2, <2>3 DEF Readers
  <2>4. CASE \E len \in Lengths(r[q].buf \o Taken(q, m)) :
                     r' = [r EXCEPT ![q].buf = <<>>, ![q].len = len,
                                    ![q].state = IF len = 0 THEN "ReadLen" ELSE "ReadData"]
    <3>1. PICK len : r' = [r EXCEPT ![q].buf = <<>>, ![q].len = len,
                                    ![q].state = IF len = 0 THEN "ReadLen" ELSE "ReadData"]
      BY <2>4
    <3>2. r'[q].state = IF len = 0 THEN "ReadLen" ELSE "ReadData"
      BY <2>2, <3>1 DEF Readers
    <3> QED
      BY <3>2
  <2> QED
    BY <2>1, <2>3, <2>4
<1> QED
  BY <1>1, <1>3, <1>4, <1>5, BytesRead

LEMMA ReadDataKeeps ==
  ASSUME NInv, NEW q \in Sides, ReadData(q)
  PROVE  NInv'
<1>1. PICK p : p = Other(q)
  OBVIOUS
<1>2. Typed /\ \A x \in Sides : Flow(x)
  BY DEF NInv
<1>3. PICK n, new : /\ Reads(q, n, new)
                    /\ \/ new.opened = r[q].opened /\ new.item = r[q].item
                       \/ /\ new.opened = r[q].opened + 1 /\ new.opened \in DOMAIN frames[p]
                          /\ new.item = Frame(frames[p][new.opened])
                    /\ Framed(p)' => ReaderAt(p, q)' /\ Meets(p, q)'
  BY <1>1, <1>2, ReadDataFlow
<1>4. r'[q] = new /\ Reading(q) /\ r[q].state = "ReadData" /\ r[q] \in Readers
  BY <1>2, <1>3 DEF Reads, Typed, ReadData
<1>5. p \in Sides /\ Other(p) = q
  BY <1>1, TwoSides
\* It is not the state of a frame that did not open.
<1>6. r'[q].state \in {"ReadLen", "ReadData", "DecErr"}
  <2>1. PICK m \in 1 .. r[q].len - Len(r[q].buf) :
          r' = [r EXCEPT ![q] =
                  IF Len(r[q].buf \o Taken(q, m)) < @.len THEN [@ EXCEPT !.buf = r[q].buf \o Taken(q, m)]
                  ELSE IF /\ Whole(r[q].buf \o Taken(q, m), r[q].opened + 1)
                          /\ Len(r[q].buf \o Taken(q, m)) = Length(frames[Other(q)][r[q].opened + 1])
                  THEN [RReady EXCEPT !.opened = r[q].opened + 1,
                                      !.item = [kind |-> "frame",
                                                payload |-> frames[Other(q)][r[q].opened + 1]]]
                  ELSE [@ EXCEPT !.state = "DecErr", !.item = [kind |-> "error"]]]
    BY DEF ReadData
  <2>2. \/ r'[q] = [r[q] EXCEPT !.buf = r[q].buf \o Taken(q, m)]
        \/ r'[q] = [RReady EXCEPT !.opened = r[q].opened + 1,
                                  !.item = [kind |-> "frame",
                                            payload |-> frames[Other(q)][r[q].opened + 1]]]
        \/ r'[q] = [r[q] EXCEPT !.state = "DecErr", !.item = [kind |-> "error"]]
    BY <1>2, <2>1 DEF Typed
  <2> QED
    BY <1>4, <2>2 DEF Readers, RReady
<1>7. r'[q].state # "DecErr"
  <2>1. Framed(p)'
    <3>1. UNCHANGED <<setup, frames>>
      BY <1>3 DEF Reads
    <3> QED
      BY <1>2, <1>5, <3>1, SetupKept DEF Flow, Framed
  <2> QED
    BY <1>3, <1>5, <2>1 DEF ReaderAt
<1> QED
  BY <1>1, <1>3, <1>4, <1>6, <1>7, BytesRead

\* Where a stream ends in order, everything of it has been read.
LEMMA EndIsLast ==
  ASSUME NInv, NEW q \in Sides, NEW p, p = Other(q), Readable(q), wire[p] = <<>>, Writing(p),
         w[p].state = "Ready"
  PROVE  r[q].state = "ReadLen" /\ r[q].opened = Len(frames[p])
<1>1. p \in Sides /\ Other(p) = q
  BY TwoSides
<1>2. Typed /\ Flow(p)
  BY <1>1 DEF NInv
<1>3. r[q].buf \in Seq(Bytes) /\ Len(r[q].buf) \in Nat
  <2>1. r[q] \in Readers
    BY <1>2 DEF Typed
  <2>2. r[q].buf \in Seq(Bytes)
    BY <2>1 DEF Readers
  <2> QED
    BY <2>2
<1>4. r[q].opened \in Nat /\ Len(frames[p]) \in Nat
  BY <1>1, <1>2, OpenedIs
<1>5. OutFrame(p) = Len(frames[p]) + 1 /\ OutAt(p) = 1
  BY DEF OutFrame, OutAt
<1>6. OutFrame(p) = InFrame(q) /\ OutAt(p) = InAt(q)
  BY <1>1, <1>2 DEF Flow, Meets
<1>7. InFrame(q) = r[q].opened + 1
  BY DEF InFrame
<1>8. r[q].opened = Len(frames[p])
  BY <1>4, <1>5, <1>6, <1>7
<1>9. r[q].state = "ReadLen"
  <2>1. r[q].state = "ReadData" => InAt(q) = Len(r[q].buf) + 3
    BY DEF InAt
  <2>2. InAt(q) # Len(r[q].buf) + 3
    BY <1>3, <1>5, <1>6
  <2> QED
    BY <2>1, <2>2 DEF Readable
<1> QED
  BY <1>8, <1>9

LEMMA RecvsIs ==
  ASSUME Typed, NEW q \in Sides, hs[q].step \in 1 .. Len(Upgrade(q).script) + 1,
         Step(q) \in {"recv_empty", "recv_identity"}
  PROVE  /\ Recvs(q, hs[q].step) \in Nat /\ Recvs(q, hs[q].step) + 1 <= Len(Hello(Other(q)))
         /\ Step(q) = "recv_empty" <=> Hello(Other(q))[Recvs(q, hs[q].step) + 1] = Empty
         /\ Step(q) = "recv_identity" <=>
                Hello(Other(q))[Recvs(q, hs[q].step) + 1] = Identity(Other(q))
         /\ Step(q) = "recv_identity" => Recvs(q, hs[q].step) + 1 = Len(Hello(Other(q)))
<1>1. PICK p : p = Other(q)
  OBVIOUS
<1>2. PICK s : s = hs[q].step
  OBVIOUS
<1>3. p \in Sides /\ Identity(p) # Empty
  BY <1>1, TwoSides, IdentityIs
<1>4. CASE setup.pattern = "XX" /\ q = "dialer"
  <2>1. Upgrade(q).script = <<"send_empty", "recv_identity", "send_identity">>
    BY <1>4, UpgradeIs DEF OneAndAHalf
  <2>2. p = "listener" /\ Hello(p) = <<Identity(p)>>
    BY <1>1, <1>4, TwoSides DEF Hello
  <2>3. s = 2 /\ Step(q) = "recv_identity"
    BY <1>2, <2>1 DEF Step
  <2>4. Recvs(q, s) = 0
    BY <1>4, <2>3 DEF Recvs
  <2>5. Len(Hello(p)) = 1 /\ Hello(p)[1] = Identity(p)
    BY <2>2
  <2>6. Step(q) = "recv_identity" /\ Step(q) # "recv_empty" /\ Recvs(q, s) + 1 = 1
    BY <2>3, <2>4
  <2> QED
    BY <1>1, <1>2, <1>3, <2>4, <2>5, <2>6
<1>5. CASE setup.pattern = "XX" /\ q = "listener"
  <2>1. Upgrade(q).script = <<"recv_empty", "send_identity", "recv_identity">>
    BY <1>5, UpgradeIs DEF OneAndAHalf
  <2>2. p = "dialer" /\ Hello(p) = <<Empty, Identity(p)>>
    BY <1>1, <1>5, TwoSides DEF Hello
  <2>3. (s = 1 /\ Step(q) = "recv_empty") \/ (s = 3 /\ Step(q) = "recv_identity")
    BY <1>2, <2>1 DEF Step
  <2>4. (s = 1 => Recvs(q, s) = 0) /\ (s = 3 => Recvs(q, s) = 1)
    BY <1>5 DEF Recvs
  <2>5. Len(Hello(p)) = 2 /\ Hello(p)[1] = Empty /\ Hello(p)[2] = Identity(p)
    BY <2>2
  <2>6. CASE s = 1
    <3>1. Step(q) = "recv_empty" /\ Step(q) # "recv_identity" /\ Recvs(q, s) = 0
      BY <2>3, <2>4, <2>6
    <3>2. Recvs(q, s) + 1 = 1
      BY <3>1
    <3> QED
      BY <1>1, <1>2, <1>3, <2>5, <3>1, <3>2
  <2>7. CASE s = 3
    <3>1. Step(q) = "recv_identity" /\ Step(q) # "recv_empty" /\ Recvs(q, s) = 1
      BY <2>3, <2>4, <2>7
    <3>2. Recvs(q, s) + 1 = 2
      BY <3>1
    <3> QED
      BY <1>1, <1>2, <1>3, <2>5, <3>1, <3>2
  <2> QED
    BY <2>3, <2>6, <2>7
<1>6. CASE setup.pattern # "XX" /\ q = "dialer"
  <2>1. Upgrade(q).script = <<"send_identity", "recv_identity">>
    BY <1>6, UpgradeIs DEF RoundTrip
  <2>2. p = "listener" /\ Hello(p) = <<Identity(p)>>
    BY <1>1, <1>6, TwoSides DEF Hello
  <2>3. s = 2 /\ Step(q) = "recv_identity"
    BY <1>2, <2>1 DEF Step
  <2>4. Recvs(q, s) = 0
    BY <1>6, <2>3 DEF Recvs
  <2>5. Len(Hello(p)) = 1 /\ Hello(p)[1] = Identity(p)
    BY <2>2
  <2>6. Step(q) = "recv_identity" /\ Step(q) # "recv_empty" /\ Recvs(q, s) + 1 = 1
    BY <2>3, <2>4
  <2> QED
    BY <1>1, <1>2, <1>3, <2>4, <2>5, <2>6
<1>7. CASE setup.pattern # "XX" /\ q = "listener"
  <2>1. Upgrade(q).script = <<"recv_identity", "send_identity">>
    BY <1>7, UpgradeIs DEF RoundTrip
  <2>2. p = "dialer" /\ Hello(p) = <<Identity(p)>>
    BY <1>1, <1>7, TwoSides DEF Hello
  <2>3. s = 1 /\ Step(q) = "recv_identity"
    BY <1>2, <2>1 DEF Step
  <2>4. Recvs(q, s) = 0
    BY <1>7, <2>3 DEF Recvs
  <2>5. Len(Hello(p)) = 1 /\ Hello(p)[1] = Identity(p)
    BY <2>2
  <2>6. Step(q) = "recv_identity" /\ Step(q) # "recv_empty" /\ Recvs(q, s) + 1 = 1
    BY <2>3, <2>4
  <2> QED
    BY <1>1, <1>2, <1>3, <2>4, <2>5, <2>6
<1> QED
  BY <1>4, <1>5, <1>6, <1>7 DEF Sides

\* A reader that is told that nothing more comes, or that the connection was reset.
LEMMA ToldKeeps ==
  ASSUME NInv, NEW q \in Sides, Reading(q), NEW new \in Readers, r' = [r EXCEPT ![q] = new],
         new.opened = r[q].opened, new.item.kind \in {"eof", "error"},
         \/ new.state \in {"EofOk", "EofErr"}
         \/ new.state = r[q].state /\ new.buf = r[q].buf /\ new.len = r[q].len,
         UNCHANGED <<setup, wire, link, frames, w, hs, out, app>>,
         broken' \in [Sides -> {"no", "due", "told"}],
         \A x \in Sides : broken[x] = "no" <=> broken'[x] = "no",
         new.item.kind = "eof" =>
            /\ link[Other(q)] = "shut"
            /\ hs[Other(q)].closed /\ broken'[q] = "no" =>
                    r[q].opened = Len(frames[Other(q)]) /\ out[q].recv = <<>>,
         Going(q) => Reason
  PROVE  NInv'
<1>1. PICK p : p = Other(q)
  OBVIOUS
<1>2. p \in Sides /\ Other(p) = q /\ p # q /\ Other(q) = p
  BY <1>1, TwoSides
<1>3. /\ Typed /\ \A x \in Sides : Flow(x) /\ Len(wire[x]) <= Room /\ Cargo(x)
      /\ Unpacked(p, q) /\ Unpacked(q, p) /\ Hand(p) /\ Hand(q)
  BY <1>2 DEF NInv
<1>4. /\ UNCHANGED <<setup, wire, link, frames, w, hs, out, peer, written, read>>
      /\ r'[q] = new /\ r'[p] = r[p]
  BY <1>2, <1>3 DEF app, Typed
<1>5. Typed'
  <2>1. r' \in [Sides -> Readers]
    BY <1>3 DEF Typed
  <2> QED
    BY <1>3, <1>4, <2>1 DEF Typed
<1>6. \A x \in Sides : Longer(x) /\ SameEnd(x)
  <2> SUFFICES ASSUME NEW x \in Sides PROVE Longer(x) /\ SameEnd(x)
    OBVIOUS
  <2>1. frames[x] \in Seq(Payloads) /\ Len(frames[x]) \in Nat
    BY <1>3 DEF Typed
  <2> QED
    BY <1>4, <2>1 DEF Longer, SameEnd
<1>7. /\ r[q].opened <= Len(frames[p]) /\ r[p].opened <= Len(frames[q])
      /\ r[q].opened \in Nat /\ Len(frames[p]) \in Nat /\ Len(frames[q]) \in Nat
  BY <1>2, <1>3, OpenedIs
\* What is under way.
<1>8. \A x \in Sides : Framed(x)' /\ WriterAt(x)' /\ OnWire(x)' /\ Writing(x)' = Writing(x)
                       /\ OutFrame(x)' = OutFrame(x) /\ OutAt(x)' = OutAt(x)
  <2> SUFFICES ASSUME NEW x \in Sides
               PROVE  Framed(x)' /\ WriterAt(x)' /\ OnWire(x)' /\ Writing(x)' = Writing(x)
                      /\ OutFrame(x)' = OutFrame(x) /\ OutAt(x)' = OutAt(x)
    OBVIOUS
  <2>1. Hello(x)' = Hello(x)
    BY <1>4, SetupKept
  <2>2. Framed(x)' /\ WriterAt(x)'
    BY <1>3, <1>4, <2>1 DEF Flow, Framed, WriterAt
  <2>3. Writing(x)' = Writing(x) /\ OutFrame(x)' = OutFrame(x) /\ OutAt(x)' = OutAt(x)
    BY <1>4 DEF Writing, OutFrame, OutAt
  <2>4. /\ \A b : Place(x, b)' = Place(x, b)
        /\ \A b, d, f, at : After(x, b, d, f, at)' = After(x, b, d, f, at)
    BY <1>4 DEF Place, After, Left
  <2>5. OnWire(x)
    BY <1>3 DEF Flow
  <2>6. broken'[x] # "no" => wire'[x] = <<>>
    BY <1>4, <2>5 DEF OnWire
  <2>7. \A i \in DOMAIN wire[x] : Place(x, wire[x][i])'
    BY <1>4, <2>4, <2>5 DEF OnWire
  <2>8. \A i, j \in DOMAIN wire[x] :
            i <= j => After(x, wire[x][i], j - i, wire[x][j].frame, wire[x][j].at)'
    BY <1>4, <2>4, <2>5 DEF OnWire
  <2>9. Writing(x)' => \A i \in DOMAIN wire[x] :
            After(x, wire[x][i], Len(wire[x]) + 1 - i, OutFrame(x), OutAt(x))'
    <3> SUFFICES ASSUME Writing(x), NEW i \in DOMAIN wire[x]
                 PROVE  After(x, wire[x][i], Len(wire[x]) + 1 - i, OutFrame(x), OutAt(x))'
      BY <2>3
    <3>1. After(x, wire[x][i], Len(wire[x]) + 1 - i, OutFrame(x), OutAt(x))
      BY <2>5 DEF OnWire
    <3> QED
      BY <1>4, <2>3, <3>1 DEF After, Left
  <2> QED
    BY <1>4, <2>2, <2>3, <2>6, <2>7, <2>8, <2>9 DEF OnWire
<1>9. Flow(p)'
  <2>1. ReaderAt(p, q) /\ Meets(p, q)
    BY <1>2, <1>3 DEF Flow
  <2>2. ReaderAt(p, q)'
    BY <1>4, <2>1 DEF ReaderAt
  <2>3. Meets(p, q)'
    BY <1>2, <1>4, <1>8, <2>1 DEF Meets, Readable, InFrame, InAt
  <2> QED
    BY <1>2, <1>8, <2>2, <2>3 DEF Flow
<1>10. Flow(q)'
  <2>1. ReaderAt(q, p) /\ Meets(q, p)
    BY <1>2, <1>3 DEF Flow
  <2>2. ReaderAt(q, p)'
    BY <1>4, <2>1 DEF ReaderAt
  <2>3. Meets(q, p)'
    BY <1>2, <1>4, <1>8, <2>1 DEF Meets, Readable, InFrame, InAt
  <2> QED
    BY <1>2, <1>8, <2>2, <2>3 DEF Flow
<1>11. \A x \in Sides : Cargo(x)'
  BY <1>3, <1>4, CargoKept
<1>12. Unpacked(q, p)' /\ Hand(p)'
  <2>1. Unpacked(q, p)'
    BY <1>2, <1>3, <1>4, <1>6, <1>7, UnpackedKept
  <2>2. SameHand(p)
    BY <1>4, <1>7 DEF SameHand, Readable
  <2> QED
    BY <1>2, <1>3, <1>4, <1>5, <1>6, <2>1, <2>2, HandKept
<1>13. Unpacked(p, q)' /\ Hand(q)'
  <2>1. r[q].item.kind = "none" /\ Used(q) = r[q].opened /\ Used(q)' = r[q].opened
    BY <1>4 DEF Reading, None, Used
  <2>2. Hello(p)' = Hello(p)
    BY <1>4, SetupKept
  <2>3. Unpacked(p, q)'
    BY <1>3, <1>4, <2>1, <2>2 DEF Unpacked, Numbered, EndOf
  <2>4. Hand(q)'
    BY <1>2, <1>3, <1>4, <1>5, <2>1, HandRead
  <2> QED
    BY <2>3, <2>4
<1>14. Explained'
  <2>1. Reason => Reason'
    BY <1>4, ReasonKept
  <2>2. (\A x \in Sides : Sound(x)) /\ ~Going(q) => \A x \in Sides : Sound(x)'
    <3> SUFFICES ASSUME \A x \in Sides : Sound(x), ~Going(q) PROVE \A x \in Sides : Sound(x)'
      OBVIOUS
    <3>1. Sound(p)'
      BY <1>2, <1>4 DEF Sound, Going
    <3>2. Sound(q)'
      BY <1>4 DEF Sound, Going
    <3> QED
      BY <1>2, <3>1, <3>2, TwoSides
  <2> QED
    BY <2>1, <2>2 DEF NInv, Explained
<1>15. BothBroken'
  BY TwoSides DEF NInv, BothBroken
<1>16. \A x \in Sides : Flow(x)' /\ Unpacked(Other(x), x)' /\ Hand(x)'
  BY <1>2, <1>9, <1>10, <1>12, <1>13, TwoSides
<1> QED
  BY <1>3, <1>4, <1>5, <1>11, <1>14, <1>15, <1>16 DEF NInv

LEMMA ReadEofKeeps ==
  ASSUME NInv, NEW q \in Sides, ReadEof(q)
  PROVE  NInv'
<1>1. PICK p : p = Other(q)
  OBVIOUS
<1>2. p \in Sides /\ Other(p) = q /\ p # q
  BY <1>1, TwoSides
<1>3. /\ Typed /\ Flow(p) /\ Hand(p) /\ Hand(q) /\ BothBroken /\ Explained
      /\ Reading(q) /\ wire[p] = <<>> /\ link[p] = "shut" /\ broken[q] # "due"
      /\ r[q] \in Readers
  BY <1>1, <1>2 DEF NInv, ReadEof, Typed
<1>4. PICK new : new = [r[q] EXCEPT
                  !.state = IF r[q].state = "ReadLen" THEN "EofOk" ELSE "EofErr",
                  !.item = IF r[q].state = "ReadLen" THEN [kind |-> "eof"] ELSE [kind |-> "error"]]
  OBVIOUS
<1>5. r' = [r EXCEPT ![q] = new] /\ UNCHANGED <<setup, wire, link, broken, frames, w, hs, out, app>>
  <2>1. r' = [r EXCEPT ![q].state = IF @ = "ReadLen" THEN "EofOk" ELSE "EofErr",
                       ![q].item = IF r[q].state = "ReadLen" THEN [kind |-> "eof"]
                                                              ELSE [kind |-> "error"]]
    BY DEF ReadEof
  <2>2. r \in [Sides -> Readers]
    BY <1>3 DEF Typed
  <2>3. r' = [r EXCEPT ![q] = new]
    BY <1>4, <2>1, <2>2 DEF Readers
  <2> QED
    BY <2>3 DEF ReadEof
<1>6. /\ new \in Readers /\ new.opened = r[q].opened /\ new.state \in {"EofOk", "EofErr"}
      /\ new.item.kind \in {"eof", "error"} /\ (new.item.kind = "eof" => r[q].state = "ReadLen")
  <2>1. [kind |-> "eof"] \in Items /\ [kind |-> "error"] \in Items
    BY DEF Items
  <2>2. CASE r[q].state = "ReadLen"
    <3>1. new = [r[q] EXCEPT !.state = "EofOk", !.item = [kind |-> "eof"]]
      BY <1>4, <2>2
    <3> QED
      BY <1>3, <2>1, <2>2, <3>1 DEF Readers
  <2>3. CASE r[q].state # "ReadLen"
    <3>1. new = [r[q] EXCEPT !.state = "EofErr", !.item = [kind |-> "error"]]
      BY <1>4, <2>3
    <3> QED
      BY <1>3, <2>1, <2>3, <3>1 DEF Readers
  <2> QED
    BY <2>2, <2>3
<1>7. out[q].recv = <<>>
  BY <1>3 DEF Reading, Hand, InHandshake
\* Who closed has written everything.
<1>8. hs[p].closed /\ broken[q] = "no" => w[p].state = "Ready" /\ Writing(p)
  <2>1. broken[q] = "no" => broken[p] = "no"
    BY <1>1, <1>3 DEF BothBroken
  <2>2. hs[p].closed => w[p].state = "Ready"
    BY <1>3 DEF Hand
  <2> QED
    BY <2>1, <2>2 DEF Writing
<1>9. new.item.kind = "eof" /\ hs[p].closed /\ broken[q] = "no" => r[q].opened = Len(frames[p])
  BY <1>1, <1>3, <1>6, <1>8, EndIsLast DEF Readable
<1>10. Going(q) => Reason
  <2> SUFFICES ASSUME Going(q), ~Reason PROVE FALSE
    OBVIOUS
  <2>1. Sound(p) /\ Sound(q) /\ broken[q] = "no"
    BY <1>2, <1>3 DEF Explained, Reason
  <2>2. hs[p].closed /\ w[p].state = "Ready" /\ Writing(p)
    BY <1>3, <1>8, <2>1 DEF Sound
  <2>3. r[q].item.kind = "none"
    BY <1>3 DEF Reading, None
  <2>4. Readable(q)
    BY <1>3, <2>3 DEF Hand
  <2>5. r[q].opened = Len(frames[p])
    BY <1>1, <1>3, <2>2, <2>4, EndIsLast
  <2>6. InHandshake(q)
    BY <1>3 DEF Hand
  <2>7. Step(q) \in {"recv_empty", "recv_identity"}
    BY <1>3, <2>6 DEF Reading, Established, InHandshake
  <2>8. r[q].opened = Recvs(q, hs[q].step)
    BY <2>3, <2>6 DEF InHandshake, Used
  <2>9. Recvs(q, hs[q].step) \in Nat /\ Recvs(q, hs[q].step) + 1 <= Len(Hello(p))
    BY <1>1, <1>3, <2>6, <2>7, RecvsIs DEF InHandshake
  <2>10. Len(frames[p]) >= Len(Hello(p))
    BY <1>3, <2>2 DEF Hand
  <2>11. Len(Hello(p)) \in Nat
    BY <1>2, <1>3, HelloIs
  <2> QED
    BY <2>5, <2>8, <2>9, <2>10, <2>11
<1>11. broken' = broken /\ broken \in [Sides -> {"no", "due", "told"}]
  BY <1>3, <1>5 DEF Typed
<1> QED
  BY <1>1, <1>3, <1>5, <1>6, <1>7, <1>9, <1>10, <1>11, ToldKeeps

LEMMA ReadResetKeeps ==
  ASSUME NInv, NEW q \in Sides, ReadReset(q)
  PROVE  NInv'
<1>1. Typed /\ Reading(q) /\ broken[q] = "due" /\ r[q] \in Readers
  BY DEF NInv, ReadReset, Typed
<1>2. PICK new : new = [r[q] EXCEPT !.item = [kind |-> "error"]]
  OBVIOUS
<1>3. r' = [r EXCEPT ![q] = new] /\ UNCHANGED <<setup, wire, link, frames, w, hs, out, app>>
  <2>1. r' = [r EXCEPT ![q].item = [kind |-> "error"]]
    BY DEF ReadReset
  <2>2. r \in [Sides -> Readers]
    BY <1>1 DEF Typed
  <2>3. r' = [r EXCEPT ![q] = new]
    BY <1>2, <2>1, <2>2 DEF Readers
  <2> QED
    BY <2>3 DEF ReadReset
<1>4. /\ new \in Readers /\ new.opened = r[q].opened /\ new.item.kind = "error"
      /\ new.state = r[q].state /\ new.buf = r[q].buf /\ new.len = r[q].len
  <2>1. [kind |-> "error"] \in Items
    BY DEF Items
  <2> QED
    BY <1>1, <1>2, <2>1 DEF Readers
<1>5. /\ broken' \in [Sides -> {"no", "due", "told"}]
      /\ \A x \in Sides : broken[x] = "no" <=> broken'[x] = "no"
  BY <1>1 DEF ReadReset, Typed
<1>6. Reason
  BY <1>1 DEF Reason
<1> QED
  BY <1>1, <1>3, <1>4, <1>5, <1>6, ToldKeeps

-----------------------------------------------------------------------------
(* Writing keeps the invariant.                                            *)

LEMMA LongerSame ==
  ASSUME NEW p \in Sides, Typed, frames'[p] = frames[p]
  PROVE  Longer(p) /\ Len(frames[p]) \in Nat
<1>1. frames[p] \in Seq(Payloads) /\ Len(frames[p]) \in Nat
  BY DEF Typed
<1> QED
  BY <1>1 DEF Longer

LEMMA WriterKeeps ==
  ASSUME NInv, NEW p \in Sides, NEW q, q = Other(p), Typed', Flow(p)', Flow(q)',
         Len(wire'[p]) <= Room, wire'[q] = wire[q], w'[q] = w[q], w[p].state # "Ready",
         UNCHANGED <<setup, link, broken, frames, r, hs, out, app>>,
         w'[p].state = "Eof" => Reason
  PROVE  NInv'
<1>1. q \in Sides /\ Other(q) = p /\ p # q
  BY TwoSides
<1>2. /\ Typed /\ \A x \in Sides : Len(wire[x]) <= Room /\ Cargo(x)
      /\ \A x \in Sides : Flow(x) /\ Unpacked(Other(x), x) /\ Hand(x)
      /\ Explained /\ BothBroken
  BY DEF NInv
<1>3. UNCHANGED <<setup, link, broken, frames, r, hs, out, peer, written, read>>
  BY DEF app
<1>4. \A x \in Sides : Longer(x) /\ Len(frames[x]) \in Nat
  BY <1>2, <1>3, LongerSame
<1>5. \A x \in Sides : Cargo(x)'
  BY <1>2, <1>3, CargoKept
<1>6. \A x \in Sides : Unpacked(Other(x), x)'
  <2> SUFFICES ASSUME NEW x \in Sides PROVE Unpacked(Other(x), x)'
    OBVIOUS
  <2>1. PICK y \in Sides : y = Other(x)
    BY TwoSides
  <2>2. r[x].opened <= Len(frames[y]) /\ Unpacked(y, x) /\ Flow(y)
    <3>1. Flow(y) /\ Unpacked(y, x)
      BY <1>2, <2>1
    <3> QED
      BY <1>2, <2>1, <3>1, OpenedIs
  <2>3. Unpacked(y, x)'
    BY <1>2, <1>3, <1>4, <2>2, UnpackedKept
  <2> QED
    BY <2>1, <2>3
<1>7. \A x \in Sides : Hand(x)'
  <2> SUFFICES ASSUME NEW x \in Sides PROVE Hand(x)'
    OBVIOUS
  <2>1. hs[x].closed => w'[x].state = w[x].state
    <3>1. x = p => ~hs[x].closed
      BY <1>2 DEF Hand
    <3> QED
      BY <1>1, <3>1, TwoSides
  <2>2. SameHand(x) /\ SameEnd(x)
    BY <1>3, <1>4, <2>1 DEF SameHand, SameEnd, Readable
  <2> QED
    BY <1>2, <1>3, <2>2, HandKept
<1>8. Explained'
  <2>1. Reason => Reason'
    BY <1>3, ReasonKept
  <2>2. (\A x \in Sides : Sound(x)) /\ w'[p].state # "Eof" => \A x \in Sides : Sound(x)'
    BY <1>1, <1>3, TwoSides DEF Sound, Going
  <2> QED
    BY <1>2, <2>1, <2>2 DEF Explained
<1>9. \A x \in Sides : Len(wire'[x]) <= Room
  BY <1>1, <1>2, TwoSides
<1>10. BothBroken'
  BY <1>2, <1>3 DEF BothBroken
<1>11. \A x \in Sides : Flow(x)'
  BY <1>1, TwoSides
<1> QED
  BY <1>5, <1>6, <1>7, <1>8, <1>9, <1>10, <1>11 DEF NInv

LEMMA WriteSomeKeeps ==
  ASSUME NInv, NEW p \in Sides, WriteSome(p)
  PROVE  NInv'
<1>1. PICK q : q = Other(p)
  OBVIOUS
<1>2. q \in Sides
  BY <1>1, TwoSides
<1>3. Typed /\ Flow(p) /\ Flow(q) /\ Len(wire[p]) <= Room
  BY <1>2 DEF NInv
<1>4. /\ Typed' /\ Flow(p)' /\ Flow(q)' /\ Len(wire'[p]) <= Room /\ wire'[q] = wire[q]
      /\ w'[q] = w[q] /\ w'[p].state \in {"WriteLen", "WriteData", "Ready"}
      /\ w[p].state \in {"WriteLen", "WriteData"}
  BY <1>1, <1>3, WriteSomeFlow
<1>5. UNCHANGED <<setup, link, broken, frames, r, hs, out, app>>
  BY DEF WriteSome
<1> QED
  BY <1>1, <1>4, <1>5, WriterKeeps

LEMMA WriteEofKeeps ==
  ASSUME NInv, NEW p \in Sides, WriteEof(p)
  PROVE  NInv'
<1>1. PICK q : q = Other(p)
  OBVIOUS
<1>2. q \in Sides /\ Other(q) = p /\ p # q
  BY <1>1, TwoSides
<1>3. Typed /\ Flow(p) /\ Flow(q) /\ Len(wire[p]) <= Room /\ Explained
  BY <1>2 DEF NInv
<1>4. /\ Remaining(p) > 0 /\ (~Alive(q) \/ broken[p] # "no")
      /\ w' = [w EXCEPT ![p].state = "Eof"]
      /\ UNCHANGED <<setup, wire, link, broken, frames, r, hs, out, app>>
  BY <1>1 DEF WriteEof
<1>5. w[p].state # "Ready"
  BY <1>4 DEF Remaining
<1>6. w'[p] \in Writers /\ w'[p].state = "Eof" /\ w'[q] = w[q] /\ w' \in [Sides -> Writers]
  BY <1>2, <1>3, <1>4 DEF Typed, Writers
<1>7. Typed'
  BY <1>3, <1>4, <1>6 DEF Typed, app
<1>8. \A x \in Sides : Longer(x) /\ SameReader(Other(x)) /\ Framed(x)'
  <2> SUFFICES ASSUME NEW x \in Sides PROVE Longer(x) /\ SameReader(Other(x)) /\ Framed(x)'
    OBVIOUS
  <2>1. Framed(x)
    BY <1>2, <1>3, TwoSides DEF Flow
  <2> QED
    BY <1>3, <1>4, <2>1, LongerSame, SetupKept DEF SameReader, Framed
<1>9. Flow(p)'
  <2>1. WriterAt(p)' /\ ~Writing(p)'
    BY <1>6 DEF WriterAt, Writing
  <2> QED
    BY <1>3, <1>4, <1>7, <1>8, <2>1, FlowKept
<1>10. Flow(q)'
  <2>1. WriterAt(q)' /\ Writing(q)' = Writing(q) /\ OutFrame(q)' = OutFrame(q) /\ OutAt(q)' = OutAt(q)
    BY <1>3, <1>4, <1>6 DEF Flow, WriterAt, Writing, OutFrame, OutAt
  <2> QED
    BY <1>2, <1>3, <1>4, <1>7, <1>8, <2>1, FlowKept
<1>11. Reason
  <2>1. (\A x \in Sides : Sound(x)) => hs[q].state # "failed"
    BY <1>2 DEF Sound
  <2> QED
    BY <1>2, <1>3, <1>4, <2>1 DEF Explained, Reason, Alive
<1> QED
  BY <1>1, <1>3, <1>4, <1>5, <1>6, <1>7, <1>9, <1>10, <1>11, WriterKeeps

-----------------------------------------------------------------------------
(* The steps of a handshake keep the invariant.                            *)

LEMMA StepIs ==
  ASSUME Typed, NEW p \in Sides, NEW s, s = hs[p].step, s \in 1 .. Len(Upgrade(p).script) + 1
  PROVE  /\ Step(p) \in {"send_empty", "send_identity", "recv_empty", "recv_identity", "finish"}
         /\ Step(p) # "finish" => s + 1 \in 1 .. Len(Upgrade(p).script) + 1
         /\ Step(p) \in {"send_empty", "send_identity"} =>
                /\ Sends(p, s) \in Nat /\ Sends(p, s) + 1 <= Len(Hello(p))
                /\ Hello(p)[Sends(p, s) + 1] = IF Step(p) = "send_empty" THEN Empty ELSE Identity(p)
                /\ Sends(p, s + 1) = Sends(p, s) + 1 /\ Recvs(p, s + 1) = Recvs(p, s)
                /\ (Knows(p, s + 1) <=> Knows(p, s))
         /\ Step(p) \in {"recv_empty", "recv_identity"} =>
                /\ Recvs(p, s) \in Nat
                /\ Recvs(p, s + 1) = Recvs(p, s) + 1 /\ Sends(p, s + 1) = Sends(p, s)
                /\ ~Knows(p, s) /\ (Knows(p, s + 1) <=> Step(p) = "recv_identity")
         /\ Step(p) = "finish" =>
                /\ Sends(p, s) = Len(Hello(p)) /\ Recvs(p, s) = Len(Hello(Other(p))) /\ Knows(p, s)
<1>1. PICK q : q = Other(p)
  OBVIOUS
<1>2. q \in Sides /\ Identity(p) # Empty /\ Identity(q) # Empty
  BY <1>1, TwoSides, IdentityIs
<1>3. CASE setup.pattern = "XX" /\ p = "dialer"
  <2>1. Upgrade(p).script = <<"send_empty", "recv_identity", "send_identity">>
    BY <1>3, UpgradeIs DEF OneAndAHalf
  <2>2. q = "listener" /\ Hello(p) = <<Empty, Identity(p)>> /\ Hello(q) = <<Identity(q)>>
    BY <1>1, <1>3, TwoSides DEF Hello
  <2>3. s \in 1 .. 4 /\ Len(Upgrade(p).script) = 3
    BY <2>1
  <2>4. /\ Len(Hello(p)) = 2 /\ Len(Hello(q)) = 1
        /\ Hello(p)[1] = Empty /\ Hello(p)[2] = Identity(p)
    BY <2>2
  <2>5. \A n : Sends(p, n) = IF n > 3 THEN 2 ELSE IF n > 1 THEN 1 ELSE 0
    BY <1>3 DEF Sends
  <2>6. \A n : Recvs(p, n) = IF n > 2 THEN 1 ELSE 0
    BY <1>3 DEF Recvs
  <2>7. \A n : Knows(p, n) <=> n > 2
    BY <1>3 DEF Knows
  <2>8. CASE s = 1
    <3>1. Step(p) = "send_empty"
      BY <2>1, <2>3, <2>8 DEF Step
    <3>2. Sends(p, s) = 0 /\ Recvs(p, s) = 0 /\ ~Knows(p, s)
      BY <2>5, <2>6, <2>7, <2>8
    <3>3. Sends(p, s + 1) = 1 /\ Recvs(p, s + 1) = 0 /\ ~Knows(p, s + 1)
      BY <2>5, <2>6, <2>7, <2>8
    <3>4. Sends(p, s) + 1 = 1
      BY <3>2
    <3> QED
      BY <1>1, <1>2, <2>3, <2>4, <2>8, <3>1, <3>2, <3>3, <3>4
  <2>9. CASE s = 2
    <3>1. Step(p) = "recv_identity"
      BY <2>1, <2>3, <2>9 DEF Step
    <3>2. Sends(p, s) = 1 /\ Recvs(p, s) = 0 /\ ~Knows(p, s)
      BY <2>5, <2>6, <2>7, <2>9
    <3>3. Sends(p, s + 1) = 1 /\ Recvs(p, s + 1) = 1 /\ Knows(p, s + 1)
      BY <2>5, <2>6, <2>7, <2>9
    <3> QED
      BY <1>1, <1>2, <2>3, <2>4, <2>9, <3>1, <3>2, <3>3
  <2>10. CASE s = 3
    <3>1. Step(p) = "send_identity"
      BY <2>1, <2>3, <2>10 DEF Step
    <3>2. Sends(p, s) = 1 /\ Recvs(p, s) = 1 /\ Knows(p, s)
      BY <2>5, <2>6, <2>7, <2>10
    <3>3. Sends(p, s + 1) = 2 /\ Recvs(p, s + 1) = 1 /\ Knows(p, s + 1)
      BY <2>5, <2>6, <2>7, <2>10
    <3>4. Sends(p, s) + 1 = 2
      BY <3>2
    <3> QED
      BY <1>1, <1>2, <2>3, <2>4, <2>10, <3>1, <3>2, <3>3, <3>4
  <2>11. CASE s = 4
    <3>1. Step(p) = "finish"
      BY <2>1, <2>3, <2>11 DEF Step
    <3>2. Sends(p, s) = 2 /\ Recvs(p, s) = 1 /\ Knows(p, s)
      BY <2>5, <2>6, <2>7, <2>11
    <3> QED
      BY <1>1, <1>2, <2>3, <2>4, <2>11, <3>1, <3>2
  <2> QED
    BY <2>3, <2>8, <2>9, <2>10, <2>11
<1>4. CASE setup.pattern = "XX" /\ p = "listener"
  <2>1. Upgrade(p).script = <<"recv_empty", "send_identity", "recv_identity">>
    BY <1>4, UpgradeIs DEF OneAndAHalf
  <2>2. q = "dialer" /\ Hello(p) = <<Identity(p)>> /\ Hello(q) = <<Empty, Identity(q)>>
    BY <1>1, <1>4, TwoSides DEF Hello
  <2>3. s \in 1 .. 4 /\ Len(Upgrade(p).script) = 3
    BY <2>1
  <2>4. /\ Len(Hello(p)) = 1 /\ Len(Hello(q)) = 2
        /\ Hello(p)[1] = Identity(p)
    BY <2>2
  <2>5. \A n : Sends(p, n) = IF n > 2 THEN 1 ELSE 0
    BY <1>4 DEF Sends
  <2>6. \A n : Recvs(p, n) = IF n > 3 THEN 2 ELSE IF n > 1 THEN 1 ELSE 0
    BY <1>4 DEF Recvs
  <2>7. \A n : Knows(p, n) <=> n > 3
    BY <1>4 DEF Knows
  <2>8. CASE s = 1
    <3>1. Step(p) = "recv_empty"
      BY <2>1, <2>3, <2>8 DEF Step
    <3>2. Sends(p, s) = 0 /\ Recvs(p, s) = 0 /\ ~Knows(p, s)
      BY <2>5, <2>6, <2>7, <2>8
    <3>3. Sends(p, s + 1) = 0 /\ Recvs(p, s + 1) = 1 /\ ~Knows(p, s + 1)
      BY <2>5, <2>6, <2>7, <2>8
    <3> QED
      BY <1>1, <1>2, <2>3, <2>4, <2>8, <3>1, <3>2, <3>3
  <2>9. CASE s = 2
    <3>1. Step(p) = "send_identity"
      BY <2>1, <2>3, <2>9 DEF Step
    <3>2. Sends(p, s) = 0 /\ Recvs(p, s) = 1 /\ ~Knows(p, s)
      BY <2>5, <2>6, <2>7, <2>9
    <3>3. Sends(p, s + 1) = 1 /\ Recvs(p, s + 1) = 1 /\ ~Knows(p, s + 1)
      BY <2>5, <2>6, <2>7, <2>9
    <3>4. Sends(p, s) + 1 = 1
      BY <3>2
    <3> QED
      BY <1>1, <1>2, <2>3, <2>4, <2>9, <3>1, <3>2, <3>3, <3>4
  <2>10. CASE s = 3
    <3>1. Step(p) = "recv_identity"
      BY <2>1, <2>3, <2>10 DEF Step
    <3>2. Sends(p, s) = 1 /\ Recvs(p, s) = 1 /\ ~Knows(p, s)
      BY <2>5, <2>6, <2>7, <2>10
    <3>3. Sends(p, s + 1) = 1 /\ Recvs(p, s + 1) = 2 /\ Knows(p, s + 1)
      BY <2>5, <2>6, <2>7, <2>10
    <3> QED
      BY <1>1, <1>2, <2>3, <2>4, <2>10, <3>1, <3>2, <3>3
  <2>11. CASE s = 4
    <3>1. Step(p) = "finish"
      BY <2>1, <2>3, <2>11 DEF Step
    <3>2. Sends(p, s) = 1 /\ Recvs(p, s) = 2 /\ Knows(p, s)
      BY <2>5, <2>6, <2>7, <2>11
    <3> QED
      BY <1>1, <1>2, <2>3, <2>4, <2>11, <3>1, <3>2
  <2> QED
    BY <2>3, <2>8, <2>9, <2>10, <2>11
<1>5. CASE setup.pattern # "XX" /\ p = "dialer"
  <2>1. Upgrade(p).script = <<"send_identity", "recv_identity">>
    BY <1>5, UpgradeIs DEF RoundTrip
  <2>2. q = "listener" /\ Hello(p) = <<Identity(p)>> /\ Hello(q) = <<Identity(q)>>
    BY <1>1, <1>5, TwoSides DEF Hello
  <2>3. s \in 1 .. 3 /\ Len(Upgrade(p).script) = 2
    BY <2>1
  <2>4. /\ Len(Hello(p)) = 1 /\ Len(Hello(q)) = 1
        /\ Hello(p)[1] = Identity(p)
    BY <2>2
  <2>5. \A n : Sends(p, n) = IF n > 1 THEN 1 ELSE 0
    BY <1>5 DEF Sends
  <2>6. \A n : Recvs(p, n) = IF n > 2 THEN 1 ELSE 0
    BY <1>5 DEF Recvs
  <2>7. \A n : Knows(p, n) <=> n > 2
    BY <1>5 DEF Knows
  <2>8. CASE s = 1
    <3>1. Step(p) = "send_identity"
      BY <2>1, <2>3, <2>8 DEF Step
    <3>2. Sends(p, s) = 0 /\ Recvs(p, s) = 0 /\ ~Knows(p, s)
      BY <2>5, <2>6, <2>7, <2>8
    <3>3. Sends(p, s + 1) = 1 /\ Recvs(p, s + 1) = 0 /\ ~Knows(p, s + 1)
      BY <2>5, <2>6, <2>7, <2>8
    <3>4. Sends(p, s) + 1 = 1
      BY <3>2
    <3> QED
      BY <1>1, <1>2, <2>3, <2>4, <2>8, <3>1, <3>2, <3>3, <3>4
  <2>9. CASE s = 2
    <3>1. Step(p) = "recv_identity"
      BY <2>1, <2>3, <2>9 DEF Step
    <3>2. Sends(p, s) = 1 /\ Recvs(p, s) = 0 /\ ~Knows(p, s)
      BY <2>5, <2>6, <2>7, <2>9
    <3>3. Sends(p, s + 1) = 1 /\ Recvs(p, s + 1) = 1 /\ Knows(p, s + 1)
      BY <2>5, <2>6, <2>7, <2>9
    <3> QED
      BY <1>1, <1>2, <2>3, <2>4, <2>9, <3>1, <3>2, <3>3
  <2>10. CASE s = 3
    <3>1. Step(p) = "finish"
      BY <2>1, <2>3, <2>10 DEF Step
    <3>2. Sends(p, s) = 1 /\ Recvs(p, s) = 1 /\ Knows(p, s)
      BY <2>5, <2>6, <2>7, <2>10
    <3> QED
      BY <1>1, <1>2, <2>3, <2>4, <2>10, <3>1, <3>2
  <2> QED
    BY <2>3, <2>8, <2>9, <2>10
<1>6. CASE setup.pattern # "XX" /\ p = "listener"
  <2>1. Upgrade(p).script = <<"recv_identity", "send_identity">>
    BY <1>6, UpgradeIs DEF RoundTrip
  <2>2. q = "dialer" /\ Hello(p) = <<Identity(p)>> /\ Hello(q) = <<Identity(q)>>
    BY <1>1, <1>6, TwoSides DEF Hello
  <2>3. s \in 1 .. 3 /\ Len(Upgrade(p).script) = 2
    BY <2>1
  <2>4. /\ Len(Hello(p)) = 1 /\ Len(Hello(q)) = 1
        /\ Hello(p)[1] = Identity(p)
    BY <2>2
  <2>5. \A n : Sends(p, n) = IF n > 2 THEN 1 ELSE 0
    BY <1>6 DEF Sends
  <2>6. \A n : Recvs(p, n) = IF n > 1 THEN 1 ELSE 0
    BY <1>6 DEF Recvs
  <2>7. \A n : Knows(p, n) <=> n > 1
    BY <1>6 DEF Knows
  <2>8. CASE s = 1
    <3>1. Step(p) = "recv_identity"
      BY <2>1, <2>3, <2>8 DEF Step
    <3>2. Sends(p, s) = 0 /\ Recvs(p, s) = 0 /\ ~Knows(p, s)
      BY <2>5, <2>6, <2>7, <2>8
    <3>3. Sends(p, s + 1) = 0 /\ Recvs(p, s + 1) = 1 /\ Knows(p, s + 1)
      BY <2>5, <2>6, <2>7, <2>8
    <3> QED
      BY <1>1, <1>2, <2>3, <2>4, <2>8, <3>1, <3>2, <3>3
  <2>9. CASE s = 2
    <3>1. Step(p) = "send_identity"
      BY <2>1, <2>3, <2>9 DEF Step
    <3>2. Sends(p, s) = 0 /\ Recvs(p, s) = 1 /\ Knows(p, s)
      BY <2>5, <2>6, <2>7, <2>9
    <3>3. Sends(p, s + 1) = 1 /\ Recvs(p, s + 1) = 1 /\ Knows(p, s + 1)
      BY <2>5, <2>6, <2>7, <2>9
    <3>4. Sends(p, s) + 1 = 1
      BY <3>2
    <3> QED
      BY <1>1, <1>2, <2>3, <2>4, <2>9, <3>1, <3>2, <3>3, <3>4
  <2>10. CASE s = 3
    <3>1. Step(p) = "finish"
      BY <2>1, <2>3, <2>10 DEF Step
    <3>2. Sends(p, s) = 1 /\ Recvs(p, s) = 1 /\ Knows(p, s)
      BY <2>5, <2>6, <2>7, <2>10
    <3> QED
      BY <1>1, <1>2, <2>3, <2>4, <2>10, <3>1, <3>2
  <2> QED
    BY <2>3, <2>8, <2>9, <2>10
<1> QED
  BY <1>3, <1>4, <1>5, <1>6 DEF Sides

\* Steps that concern an end alone, and not the bytes under way.
LEMMA OwnKeeps ==
  ASSUME NInv, NEW p \in Sides, NEW q, q = Other(p), Typed',
         UNCHANGED <<setup, wire, broken, frames, w, written>>,
         hs'[q] = hs[q], link'[q] = link[q], peer'[q] = peer[q], r'[q] = r[q], out'[q] = out[q],
         read'[q] = read[q], out'[p].fill = out[p].fill, out'[p].send = out[p].send,
         link[p] = "shut" => link'[p] = "shut" /\ (hs'[p].closed => hs[p].closed),
         SameReader(p), hs[p].state # "ended", Unpacked(q, p)', Hand(p)',
         Sound(p) /\ Sound(q) => Reason' \/ Sound(p)'
  PROVE  NInv'
<1>1. q \in Sides /\ Other(q) = p /\ p # q
  BY TwoSides
<1>2. /\ Typed /\ \A x \in Sides : Len(wire[x]) <= Room /\ Cargo(x)
      /\ \A x \in Sides : Flow(x) /\ Unpacked(Other(x), x) /\ Hand(x)
      /\ Explained /\ BothBroken
  BY DEF NInv
<1>3. \A x \in Sides : Longer(x) /\ Len(frames[x]) \in Nat
  BY <1>2, LongerSame
<1>4. \A x \in Sides : Flow(x)'
  <2>1. \A x \in Sides : SameReader(x)
    BY <1>1, TwoSides DEF SameReader
  <2> QED
    BY <1>2, <2>1, FlowSame
<1>5. \A x \in Sides : Cargo(x)'
  BY <1>1, <1>2, TwoSides, CargoKept
<1>6. Unpacked(p, q)'
  <2>1. r[q].opened <= Len(frames[p]) /\ Unpacked(p, q)
    <3>1. Flow(p) /\ Unpacked(p, q)
      BY <1>1, <1>2
    <3> QED
      BY <1>1, <1>2, <3>1, OpenedIs
  <2> QED
    BY <1>1, <1>2, <1>3, <2>1, UnpackedKept
<1>7. Hand(q)'
  <2>1. SameHand(q)
    BY <1>1, <1>3 DEF SameHand, Readable
  <2>2. \A x \in Sides : link[x] = "shut" => link'[x] = "shut"
    BY <1>1, TwoSides
  <2>3. SameEnd(q)
    BY <1>1, <2>2 DEF SameEnd
  <2> QED
    BY <1>1, <1>2, <2>1, <2>3, HandKept
<1>8. Explained'
  <2>1. Reason => Reason'
    <3>1. \A x \in Sides : hs[x].state = "ended" => hs'[x].state = "ended"
      BY <1>1, TwoSides
    <3> QED
      BY <3>1, ReasonKept
  <2>2. (\A x \in Sides : Sound(x)) => Reason' \/ \A x \in Sides : Sound(x)'
    <3> SUFFICES ASSUME \A x \in Sides : Sound(x), ~Reason' PROVE \A x \in Sides : Sound(x)'
      OBVIOUS
    <3>1. Sound(p)' /\ Sound(q)
      BY <1>1
    <3>2. Sound(q)'
      BY <1>1, <3>1 DEF Sound, Going
    <3> QED
      BY <1>1, <3>1, <3>2, TwoSides
  <2> QED
    BY <1>2, <2>1, <2>2 DEF Explained
<1>9. BothBroken'
  BY <1>2 DEF BothBroken
<1>10. \A x \in Sides : Hand(x)' /\ Unpacked(Other(x), x)'
  BY <1>1, <1>6, <1>7, TwoSides
<1> QED
  BY <1>2, <1>4, <1>5, <1>8, <1>9, <1>10 DEF NInv

LEMMA QuietKeeps ==
  ASSUME NInv, NEW p \in Sides, NEW q, q = Other(p), NEW h \in Hands, hs' = [hs EXCEPT ![p] = h],
         NEW l \in {"open", "shut"}, link' = [link EXCEPT ![p] = l], link[p] = "shut" => l = "shut",
         peer' \in [Sides -> Names], peer'[q] = peer[q],
         UNCHANGED <<setup, wire, broken, frames, w, r, out, written, read>>,
         link[p] = "shut" /\ h.closed => hs[p].closed,
         hs[p].state # "ended", Hand(p)', Sound(p) /\ Sound(q) => Reason' \/ Sound(p)'
  PROVE  NInv'
<1>1. q \in Sides /\ Other(q) = p /\ p # q
  BY TwoSides
<1>2. Typed /\ Flow(q) /\ Unpacked(q, p)
  BY <1>1 DEF NInv
<1>3. /\ hs'[p] = h /\ hs'[q] = hs[q] /\ hs' \in [Sides -> Hands]
      /\ link'[p] = l /\ link'[q] = link[q] /\ link' \in [Sides -> {"open", "shut"}]
  BY <1>1, <1>2 DEF Typed
<1>4. Typed'
  BY <1>2, <1>3 DEF Typed
<1>5. Unpacked(q, p)'
  <2>1. Longer(q) /\ r[p].opened <= Len(frames[q])
    BY <1>1, <1>2, LongerSame, OpenedIs
  <2> QED
    BY <1>1, <1>2, <2>1, UnpackedKept
<1>6. SameReader(p)
  BY DEF SameReader
<1> QED
  BY <1>3, <1>4, <1>5, <1>6, OwnKeeps

\* The end of a process, or of a connection that was not upgraded.
LEMMA StoppedHand ==
  ASSUME NEW p \in Sides, Typed, Hand(p), NEW h, h \in {"failed", "ended"},
         hs' = [hs EXCEPT ![p].state = h], link' = [link EXCEPT ![p] = "shut"],
         UNCHANGED <<setup, broken, frames, w, out, peer>>,
         r'[p].item.kind = "eof" => r'[p] = r[p]
  PROVE  Hand(p)'
<1>1. PICK q : q = Other(p)
  OBVIOUS
<1>2. q \in Sides /\ p # q
  BY <1>1, TwoSides
<1>3. /\ hs'[p].state = h /\ hs'[p].closed = hs[p].closed /\ hs'[q] = hs[q]
      /\ link'[p] = "shut" /\ link'[q] = link[q]
  BY <1>2 DEF Typed, Hands
<1>4. ~Going(p)'
  BY <1>3 DEF Going
<1>5. hs'[p].closed =>
        /\ link'[p] = "shut" /\ out'[p].fill = 0 /\ w'[p].state = "Ready"
        /\ Len(frames'[p]) >= Len(Hello(p))'
  BY <1>3, SetupKept DEF Hand
<1>6. r'[p].item.kind = "eof" \/ hs'[p].state = "eof" =>
        /\ link'[q] = "shut"
        /\ hs'[q].closed /\ broken'[p] = "no" =>
                r'[p].opened = Len(frames'[q]) /\ out'[p].recv = <<>>
  BY <1>1, <1>3 DEF Hand
<1>7. peer'[p] \in {Nobody, Other(p)}
  BY DEF Hand
<1> QED
  BY <1>1, <1>3, <1>4, <1>5, <1>6, <1>7 DEF Hand

LEMMA FailKeeps ==
  ASSUME NInv, NEW p \in Sides, NEW q, q = Other(p), Going(p), Fail(p),
         UNCHANGED <<setup, wire, broken, frames, w, out, app>>,
         r' \in [Sides -> Readers], r'[q] = r[q], SameReader(p), r'[p].item.kind = "eof" => r'[p] = r[p],
         Unpacked(q, p)', Sound(p) /\ Sound(q) => Reason
  PROVE  NInv'
<1>1. q \in Sides /\ p # q
  BY TwoSides
<1>2. Typed /\ Hand(p)
  BY DEF NInv
<1>3. UNCHANGED <<setup, wire, broken, frames, w, out, peer, written, read>>
  BY DEF app
<1>4. hs' = [hs EXCEPT ![p].state = "failed"] /\ link' = [link EXCEPT ![p] = "shut"]
  BY DEF Fail
<1>5. Hand(p)'
  BY <1>2, <1>3, <1>4, StoppedHand
<1>6. /\ hs' \in [Sides -> Hands] /\ hs'[q] = hs[q] /\ hs'[p].closed = hs[p].closed
      /\ link' \in [Sides -> {"open", "shut"}] /\ link'[q] = link[q] /\ link'[p] = "shut"
  <2>1. hs[p] \in Hands /\ hs \in [Sides -> Hands] /\ link \in [Sides -> {"open", "shut"}]
    BY <1>2 DEF Typed
  <2>2. PICK h : h = [hs[p] EXCEPT !.state = "failed"]
    OBVIOUS
  <2>3. h \in Hands /\ h.closed = hs[p].closed
    BY <2>1, <2>2 DEF Hands
  <2>4. hs' = [hs EXCEPT ![p] = h]
    BY <1>4, <2>1, <2>2
  <2>5. hs' \in [Sides -> Hands] /\ hs'[q] = hs[q] /\ hs'[p] = h
    BY <1>1, <2>1, <2>3, <2>4
  <2>6. link' \in [Sides -> {"open", "shut"}] /\ link'[q] = link[q] /\ link'[p] = "shut"
    BY <1>1, <1>4, <2>1
  <2> QED
    BY <2>3, <2>5, <2>6
<1>7. Typed' /\ hs[p].state # "ended"
  BY <1>2, <1>3, <1>6 DEF Typed, Going
<1>8. Reason => Reason'
  <2>1. \A x \in Sides : hs[x].state = "ended" => hs'[x].state = "ended"
    BY <1>2, <1>4, <1>7 DEF Typed
  <2> QED
    BY <1>3, <2>1, ReasonKept
<1> QED
  BY <1>3, <1>5, <1>6, <1>7, <1>8, OwnKeeps

LEMMA EndKeeps ==
  ASSUME NInv, NEW p \in Sides, End(p)
  PROVE  NInv'
<1>1. PICK q : q = Other(p)
  OBVIOUS
<1>2. Typed /\ Hand(p)
  BY DEF NInv
<1>3. UNCHANGED <<setup, wire, broken, frames, w, r, out, peer, written, read>>
  BY DEF End, app
<1>4. hs' = [hs EXCEPT ![p].state = "ended"] /\ link' = [link EXCEPT ![p] = "shut"]
  BY DEF End
<1>5. Hand(p)'
  BY <1>2, <1>3, <1>4, StoppedHand
<1>6. PICK h : h = [hs[p] EXCEPT !.state = "ended"]
  OBVIOUS
<1>7. h \in Hands /\ hs' = [hs EXCEPT ![p] = h] /\ h.closed = hs[p].closed /\ hs'[p] = h
      /\ h.state = "ended"
  <2>1. hs[p] \in Hands /\ hs \in [Sides -> Hands]
    BY <1>2 DEF Typed
  <2> QED
    BY <1>4, <1>6, <2>1 DEF Hands
<1>8. hs[p].state # "ended" /\ peer' \in [Sides -> Names] /\ peer'[q] = peer[q]
  BY <1>2, <1>3 DEF End, Alive, Typed
<1>9. Reason'
  BY <1>7 DEF Reason
<1> QED
  BY <1>1, <1>3, <1>4, <1>5, <1>7, <1>8, <1>9, QuietKeeps

\* The next step of a handshake.
LEMMA GoingHand ==
  ASSUME NEW p \in Sides, UNCHANGED <<setup, frames, peer>>, peer[p] = Nobody,
         hs'[p].state = "going", ~hs'[p].closed, hs'[p].sent = FALSE,
         NEW s \in 1 .. Len(Upgrade(p).script) + 1, hs'[p].step = s,
         Len(frames[p]) = Sends(p, s), Sends(p, s) \in Nat, Used(p)' = Recvs(p, s),
         r'[p].item.kind = "none", Readable(p)', out'[p].recv = <<>>,
         hs'[p].sig = IF Knows(p, s) THEN Signature(Other(p)) ELSE NoSignature,
         hs'[p].key = IF Knows(p, s) /\ Upgrade(Other(p)).sends THEN Other(p) ELSE Upgrade(p).expects
  PROVE  Hand(p)'
<1>1. Upgrade(p)' = Upgrade(p) /\ Upgrade(Other(p))' = Upgrade(Other(p))
  BY SetupKept
<1>2. Sends(p, s)' = Sends(p, s) /\ Recvs(p, s)' = Recvs(p, s) /\ Knows(p, s)' = Knows(p, s)
  BY SetupKept
<1>3. Knows(p, hs[p].step)' = Knows(p, s)
  BY <1>2 DEF Knows
<1>4. /\ Len(frames'[p]) = Sends(p, hs[p].step)' + (IF hs'[p].sent THEN 1 ELSE 0)
      /\ Used(p)' = Recvs(p, hs[p].step)'
  BY <1>2 DEF Sends, Recvs
<1>5. hs'[p].sig = IF Knows(p, hs[p].step)' THEN Signature(Other(p))' ELSE NoSignature'
  BY <1>3 DEF Signature, NoSignature
<1>6. hs'[p].key = IF Knows(p, hs[p].step)' /\ Upgrade(Other(p))'.sends
                   THEN Other(p)' ELSE Upgrade(p)'.expects
  BY <1>1, <1>3
<1>7. InHandshake(p)'
  BY <1>1, <1>4, <1>5, <1>6 DEF InHandshake
<1> QED
  BY <1>7 DEF Hand

LEMMA AdvanceIs ==
  ASSUME Typed, NEW p \in Sides, NEW new \in Hands, Advance(p, new)
  PROVE  \E h \in Hands : /\ hs' = [hs EXCEPT ![p] = h] /\ h.step = new.step + 1
                          /\ h.state = new.state /\ h.sent = new.sent /\ h.closed = new.closed
                          /\ h.key = new.key /\ h.sig = new.sig
<1>1. PICK h : h = [new EXCEPT !.step = new.step + 1]
  OBVIOUS
<1>2. hs' = [hs EXCEPT ![p] = h]
  BY <1>1 DEF Advance
<1>3. /\ h \in Hands /\ h.step = new.step + 1
      /\ h.state = new.state /\ h.sent = new.sent /\ h.closed = new.closed
      /\ h.key = new.key /\ h.sig = new.sig
  BY <1>1 DEF Hands
<1> QED
  BY <1>2, <1>3

LEMMA SentKeeps ==
  ASSUME NInv, NEW p \in Sides, Sent(p)
  PROVE  NInv'
<1>1. PICK q : q = Other(p)
  OBVIOUS
<1>2. q \in Sides /\ Other(q) = p /\ p # q
  BY <1>1, TwoSides
<1>3. /\ Typed /\ Hand(p) /\ Flow(q) /\ Unpacked(q, p) /\ Going(p) /\ hs[p].sent
      /\ UNCHANGED <<setup, wire, broken, frames, w, r, out, peer, written, read>>
  BY <1>1, <1>2 DEF NInv, Sent, app
<1>4. hs[p] \in Hands /\ InHandshake(p) /\ hs[p].state = "going"
  BY <1>3 DEF Typed, Hand, Going
<1>5. CASE w[p].state = "Ready" /\ Advance(p, [hs[p] EXCEPT !.sent = FALSE]) /\ UNCHANGED link
  <2>1. PICK new : new = [hs[p] EXCEPT !.sent = FALSE]
    OBVIOUS
  <2>2. /\ new \in Hands /\ new.step = hs[p].step /\ new.state = "going" /\ new.sent = FALSE
        /\ new.closed = hs[p].closed /\ new.key = hs[p].key /\ new.sig = hs[p].sig
    BY <1>4, <2>1 DEF Hands
  <2>3. PICK h \in Hands : /\ hs' = [hs EXCEPT ![p] = h] /\ h.step = hs[p].step + 1
                           /\ h.state = "going" /\ h.sent = FALSE /\ h.closed = hs[p].closed
                           /\ h.key = hs[p].key /\ h.sig = hs[p].sig
    <3>1. Advance(p, new)
      BY <1>5, <2>1
    <3>2. PICK h \in Hands : /\ hs' = [hs EXCEPT ![p] = h] /\ h.step = new.step + 1
                             /\ h.state = new.state /\ h.sent = new.sent /\ h.closed = new.closed
                             /\ h.key = new.key /\ h.sig = new.sig
      BY <1>3, <2>2, <3>1, AdvanceIs
    <3> QED
      BY <2>2, <3>2
  <2>4. hs'[p] = h
    BY <1>3, <2>3 DEF Typed
  <2>5. PICK s : s = hs[p].step
    OBVIOUS
  <2>6. s \in 1 .. Len(Upgrade(p).script) + 1 /\ Step(p) \in {"send_empty", "send_identity"}
    BY <1>3, <1>4, <2>5 DEF InHandshake
  <2>7. /\ s + 1 \in 1 .. Len(Upgrade(p).script) + 1
        /\ Sends(p, s) \in Nat
        /\ Sends(p, s + 1) = Sends(p, s) + 1 /\ Recvs(p, s + 1) = Recvs(p, s)
        /\ (Knows(p, s + 1) <=> Knows(p, s))
    BY <1>3, <2>5, <2>6, StepIs
  <2>8. Len(frames[p]) = Sends(p, s) + 1 /\ Used(p) = Recvs(p, s)
    BY <1>3, <1>4, <2>5 DEF InHandshake
  <2>9. r[p].item.kind = "none" /\ peer[p] = Nobody /\ ~hs[p].closed /\ out[p].recv = <<>>
    BY <1>3, <1>4, <2>6 DEF InHandshake
  <2>10. Used(p)' = Recvs(p, s + 1) /\ Readable(p)'
    BY <1>3, <2>7, <2>8, <2>9 DEF Used, Hand, Readable
  <2>11. hs'[p].sig = IF Knows(p, s + 1) THEN Signature(Other(p)) ELSE NoSignature
    BY <1>4, <2>3, <2>4, <2>5, <2>7 DEF InHandshake
  <2>12. hs'[p].key = IF Knows(p, s + 1) /\ Upgrade(Other(p)).sends
                      THEN Other(p) ELSE Upgrade(p).expects
    BY <1>4, <2>3, <2>4, <2>5, <2>7 DEF InHandshake
  <2>13. Hand(p)'
    <3>1. Len(frames[p]) = Sends(p, s + 1) /\ Sends(p, s + 1) \in Nat
      BY <2>7, <2>8
    <3>2. hs'[p].state = "going" /\ ~hs'[p].closed /\ hs'[p].sent = FALSE /\ hs'[p].step = s + 1
      BY <2>3, <2>4, <2>5, <2>9
    <3>3. UNCHANGED <<setup, frames, peer>> /\ r'[p].item.kind = "none" /\ out'[p].recv = <<>>
      BY <1>3, <2>9
    <3> QED
      BY <2>7, <2>9, <2>10, <2>11, <2>12, <3>1, <3>2, <3>3, GoingHand
  <2>14. Sound(p) => Sound(p)'
    BY <1>3, <1>5, <2>3, <2>4, <2>9 DEF Sound, Going
  <2>15. link' = [link EXCEPT ![p] = link[p]] /\ link[p] \in {"open", "shut"}
    BY <1>3, <1>5 DEF Typed
  <2>16. peer' \in [Sides -> Names] /\ peer'[q] = peer[q]
    BY <1>3 DEF Typed
  <2> QED
    BY <1>1, <1>3, <1>4, <2>3, <2>13, <2>14, <2>15, <2>16, QuietKeeps
<1>6. CASE w[p].state = "Eof" /\ Fail(p)
  <2>1. Longer(q) /\ r[p].opened <= Len(frames[q])
    <3>1. frames'[q] = frames[q]
      BY <1>3
    <3> QED
      BY <1>1, <1>2, <1>3, <3>1, LongerSame, OpenedIs
  <2>2. Unpacked(q, p)'
    BY <1>2, <1>3, <2>1, UnpackedKept
  <2>3. ~Sound(p)
    BY <1>6 DEF Sound
  <2>4. r' \in [Sides -> Readers] /\ SameReader(p)
    BY <1>3 DEF Typed, SameReader
  <2>5. UNCHANGED <<setup, wire, broken, frames, w, out, app>>
    BY DEF Sent
  <2> QED
    BY <1>1, <1>3, <1>6, <2>2, <2>3, <2>4, <2>5, FailKeeps
<1> QED
  BY <1>5, <1>6 DEF Sent

\* What a handshake receives is what the other end's handshake sent.
LEMMA HelloRead ==
  ASSUME NInv, NEW p \in Sides, NEW q, q = Other(p), Going(p), r[p].item # None
  PROVE  /\ InHandshake(p) /\ Step(p) \in {"recv_empty", "recv_identity"}
         /\ r[p].item.kind \in {"eof", "error", "frame"}
         /\ Recvs(p, hs[p].step) \in Nat /\ Len(read[p]) = 0 /\ out[p].recv = <<>>
         /\ r[p].opened <= Len(Hello(q)) /\ r[p].opened \in Nat
         /\ r[p].item.kind = "frame" =>
                /\ r[p].opened = Recvs(p, hs[p].step) + 1
                /\ r[p].item.payload = IF Step(p) = "recv_empty" THEN Empty ELSE Identity(q)
<1>1. q \in Sides /\ Other(q) = p /\ p # q
  BY TwoSides
<1>2. Typed /\ Hand(p) /\ Flow(q) /\ Unpacked(q, p)
  BY <1>1 DEF NInv
<1>3. r[p].item \in Items /\ r[p].opened \in Nat
  <2>1. r[p] \in Readers
    BY <1>2 DEF Typed
  <2> QED
    BY <2>1 DEF Readers
<1>4. r[p].item.kind \in {"eof", "error", "frame"}
  BY <1>3 DEF Items, None
<1>5. InHandshake(p)
  BY <1>2 DEF Hand
<1>6. Step(p) \in {"recv_empty", "recv_identity"} /\ out[p].recv = <<>>
  BY <1>4, <1>5 DEF InHandshake
<1>7. PICK k : k = Recvs(p, hs[p].step)
  OBVIOUS
<1>8. /\ k \in Nat /\ k + 1 <= Len(Hello(q)) /\ Len(Hello(q)) \in Nat
      /\ Step(p) = "recv_empty" => Hello(q)[k + 1] = Empty
      /\ Step(p) = "recv_identity" => Hello(q)[k + 1] = Identity(q)
  <2>1. Len(Hello(q)) \in Nat
    BY <1>1, <1>2, HelloIs
  <2> QED
    BY <1>2, <1>5, <1>6, <1>7, <2>1, RecvsIs DEF InHandshake
<1>9. Used(p) = k
  BY <1>5, <1>7 DEF InHandshake
<1>10. Len(read[p]) = 0
  <2>1. Len(read[p]) = EndOf(q, k)
    BY <1>2, <1>6, <1>9 DEF Unpacked
  <2>2. k <= Len(Hello(q))
    BY <1>8
  <2> QED
    BY <2>1, <2>2 DEF EndOf
<1>11. r[p].item.kind # "frame" => r[p].opened = k
  BY <1>9 DEF Used
<1>12. r[p].item.kind = "frame" =>
                /\ r[p].opened = k + 1
                /\ r[p].item.payload = IF Step(p) = "recv_empty" THEN Empty ELSE Identity(q)
  <2> SUFFICES ASSUME r[p].item.kind = "frame"
               PROVE  /\ r[p].opened = k + 1
                      /\ r[p].item.payload = IF Step(p) = "recv_empty" THEN Empty ELSE Identity(q)
    OBVIOUS
  <2>1. r[p].opened = k + 1
    <3>1. r[p].opened - 1 = k
      BY <1>9 DEF Used
    <3> QED
      BY <1>3, <1>8, <3>1
  <2>2. k + 1 \in DOMAIN frames[q] /\ r[p].item.payload = frames[q][k + 1]
    BY <1>2, <2>1 DEF Unpacked
  <2>3. frames[q][k + 1] = Hello(q)[k + 1]
    BY <1>2, <1>8, <2>2 DEF Flow, Framed
  <2> QED
    BY <1>6, <1>8, <2>1, <2>2, <2>3
<1>13. r[p].opened <= Len(Hello(q))
  BY <1>4, <1>8, <1>11, <1>12
<1> QED
  BY <1>3, <1>4, <1>5, <1>6, <1>7, <1>8, <1>10, <1>12, <1>13

LEMMA RecvKeeps ==
  ASSUME NInv, NEW p \in Sides, Recv(p)
  PROVE  NInv'
<1>1. PICK q : q = Other(p)
  OBVIOUS
<1>2. q \in Sides /\ Other(q) = p /\ p # q
  BY <1>1, TwoSides
<1>3. /\ Typed /\ Hand(p) /\ Hand(q) /\ Unpacked(q, p) /\ Going(p) /\ r[p].item # None
      /\ r' = [r EXCEPT ![p].item = None]
      /\ UNCHANGED <<setup, wire, broken, frames, w, out, peer, written, read>>
  BY <1>1, <1>2 DEF NInv, Recv, app
<1>4. /\ InHandshake(p) /\ Step(p) \in {"recv_empty", "recv_identity"}
      /\ r[p].item.kind \in {"eof", "error", "frame"}
      /\ Len(read[p]) = 0 /\ out[p].recv = <<>>
      /\ r[p].opened <= Len(Hello(q)) /\ r[p].opened \in Nat
  BY <1>1, <1>3, HelloRead
<1>5. r[p].item.kind = "frame" =>
                /\ r[p].opened = Recvs(p, hs[p].step) + 1
                /\ r[p].item.payload = IF Step(p) = "recv_empty" THEN Empty ELSE Identity(q)
  BY <1>1, <1>3, HelloRead
<1>6. /\ r' \in [Sides -> Readers] /\ r'[q] = r[q] /\ SameReader(p) /\ r'[p].item = None
      /\ r'[p].item.kind = "none"
  <2>1. None \in Items
    BY DEF None, Items
  <2>2. r \in [Sides -> Readers] /\ r[p] \in Readers
    BY <1>3 DEF Typed
  <2>3. r'[p] = [r[p] EXCEPT !.item = None]
    BY <1>3, <2>2
  <2>4. r'[p] \in Readers /\ r'[p].item = None /\ SameReader(p)
    BY <2>1, <2>2, <2>3 DEF Readers, SameReader
  <2> QED
    BY <1>2, <1>3, <2>2, <2>3, <2>4 DEF None
<1>7. Unpacked(q, p)'
  <2>1. Hello(q)' = Hello(q)
    BY <1>3, SetupKept
  <2>2. Used(p)' = r[p].opened
    BY <1>6 DEF Used, SameReader
  <2>3. EndOf(q, Used(p))' = 0
    BY <1>4, <2>1, <2>2 DEF EndOf
  <2> QED
    BY <1>3, <1>4, <1>6, <2>3 DEF Unpacked, Numbered
<1>8. hs[p] \in Hands /\ hs[p].state = "going" /\ UNCHANGED <<setup, wire, broken, frames, w, out, app>>
  BY <1>3 DEF Typed, Going, Recv
\* A step that goes on.
<1>9. ASSUME NEW new \in Hands, r[p].item.kind = "frame", Advance(p, new), UNCHANGED link,
             new.step = hs[p].step, new.state = hs[p].state, new.sent = hs[p].sent,
             new.closed = hs[p].closed,
             Step(p) = "recv_empty" => new.sig = hs[p].sig /\ new.key = hs[p].key,
             Step(p) = "recv_identity" =>
                /\ new.sig = Signature(q)
                /\ new.key = IF Upgrade(q).sends THEN q ELSE hs[p].key
      PROVE  NInv'
  <2>1. PICK h \in Hands : /\ hs' = [hs EXCEPT ![p] = h] /\ h.step = hs[p].step + 1
                           /\ h.state = "going" /\ h.sent = hs[p].sent /\ h.closed = hs[p].closed
                           /\ h.key = new.key /\ h.sig = new.sig
    BY <1>3, <1>8, <1>9, AdvanceIs
  <2>2. hs'[p] = h /\ hs'[q] = hs[q] /\ hs' \in [Sides -> Hands]
    BY <1>2, <1>3, <2>1 DEF Typed
  <2>3. PICK s : s = hs[p].step
    OBVIOUS
  <2>4. s \in 1 .. Len(Upgrade(p).script) + 1
    BY <1>4, <2>3 DEF InHandshake
  <2>5. /\ s + 1 \in 1 .. Len(Upgrade(p).script) + 1
        /\ Recvs(p, s) \in Nat
        /\ Recvs(p, s + 1) = Recvs(p, s) + 1 /\ Sends(p, s + 1) = Sends(p, s)
        /\ ~Knows(p, s) /\ (Knows(p, s + 1) <=> Step(p) = "recv_identity")
    BY <1>3, <1>4, <2>3, <2>4, StepIs
  <2>6. hs[p].sent = FALSE /\ peer[p] = Nobody /\ ~hs[p].closed
    BY <1>4, <1>8 DEF InHandshake, Hands
  <2>7. Len(frames[p]) = Sends(p, s) /\ Len(frames[p]) \in Nat
    <3>1. Len(frames[p]) = Sends(p, s) + 0
      BY <1>4, <2>3, <2>6 DEF InHandshake
    <3>2. Sends(p, s) \in Nat
      BY DEF Sends
    <3> QED
      BY <3>1, <3>2
  <2>8. Used(p)' = Recvs(p, s + 1)
    BY <1>5, <1>6, <1>9, <2>3, <2>5 DEF Used, SameReader
  <2>9. Readable(p)'
    <3>1. Readable(p)
      BY <1>3, <1>9 DEF Hand
    <3> QED
      BY <1>6, <3>1 DEF Readable, SameReader
  <2>10. hs'[p].sig = IF Knows(p, s + 1) THEN Signature(Other(p)) ELSE NoSignature
    <3>1. hs[p].sig = NoSignature
      BY <1>4, <2>3, <2>5 DEF InHandshake
    <3> QED
      BY <1>1, <1>4, <1>9, <2>1, <2>2, <2>5, <3>1
  <2>11. hs'[p].key = IF Knows(p, s + 1) /\ Upgrade(Other(p)).sends
                      THEN Other(p) ELSE Upgrade(p).expects
    <3>1. hs[p].key = Upgrade(p).expects
      BY <1>4, <2>3, <2>5 DEF InHandshake
    <3> QED
      BY <1>1, <1>4, <1>9, <2>1, <2>2, <2>5, <3>1
  <2>12. Hand(p)'
    <3>1. Len(frames[p]) = Sends(p, s + 1) /\ Sends(p, s + 1) \in Nat
      BY <2>5, <2>7
    <3>2. hs'[p].state = "going" /\ ~hs'[p].closed /\ hs'[p].sent = FALSE /\ hs'[p].step = s + 1
      BY <2>1, <2>2, <2>3, <2>6
    <3>3. UNCHANGED <<setup, frames, peer>> /\ out'[p].recv = <<>>
      BY <1>3, <1>4
    <3> QED
      BY <1>6, <2>5, <2>6, <2>8, <2>9, <2>10, <2>11, <3>1, <3>2, <3>3, GoingHand
  <2>13. Typed'
    BY <1>3, <1>6, <1>9, <2>2 DEF Typed
  <2>14. Sound(p) => Sound(p)'
    BY <1>3, <1>6, <1>9, <2>1, <2>2 DEF Sound, Going
  <2> QED
    BY <1>1, <1>3, <1>6, <1>7, <1>8, <1>9, <2>1, <2>2, <2>12, <2>13, <2>14, OwnKeeps
\* A step that ends the handshake.
<1>10. ASSUME Fail(p), Sound(p) /\ Sound(q) => Reason
       PROVE  NInv'
  BY <1>1, <1>3, <1>6, <1>7, <1>8, <1>10, FailKeeps
<1>11. /\ r[p].item.kind = "frame" /\ Step(p) = "recv_identity" =>
            /\ r[p].item.payload.key = (IF Upgrade(q).sends THEN q ELSE Nobody)
            /\ r[p].item.payload.sig = Signature(q)
            /\ r[p].item.payload.kind = "identity" /\ r[p].item.payload.old = setup.old[q]
  BY <1>2, <1>3, <1>5, IdentityIs
<1>12. CASE /\ Step(p) = "recv_empty" /\ r[p].item = [kind |-> "frame", payload |-> Empty]
            /\ Advance(p, hs[p]) /\ UNCHANGED link
  BY <1>8, <1>9, <1>12
<1>13. CASE /\ Step(p) = "recv_identity" /\ r[p].item.kind = "frame"
            /\ Advance(p, [hs[p] EXCEPT !.key = IF r[p].item.payload.key = Nobody THEN hs[p].key
                                                                             ELSE r[p].item.payload.key,
                                        !.sig = r[p].item.payload.sig])
            /\ UNCHANGED link
  <2>1. PICK new : new = [hs[p] EXCEPT !.key = IF r[p].item.payload.key = Nobody THEN hs[p].key
                                                                             ELSE r[p].item.payload.key,
                                       !.sig = r[p].item.payload.sig]
    OBVIOUS
  <2>2. Signature(q) \in Sigs /\ q \in Names /\ q # Nobody
    BY <1>2, SignatureIs, TwoSides
  <2>3. new = [hs[p] EXCEPT !.key = IF Upgrade(q).sends THEN q ELSE hs[p].key, !.sig = Signature(q)]
    BY <1>11, <1>13, <2>1, <2>2
  <2>4. /\ new \in Hands /\ new.step = hs[p].step /\ new.state = hs[p].state /\ new.sent = hs[p].sent
        /\ new.closed = hs[p].closed /\ new.sig = Signature(q)
        /\ new.key = IF Upgrade(q).sends THEN q ELSE hs[p].key
    BY <1>8, <2>2, <2>3 DEF Hands
  <2> QED
    BY <1>9, <1>13, <2>1, <2>4
<1>14. CASE /\ IF r[p].item.kind # "frame" THEN TRUE
               ELSE IF Step(p) = "recv_empty" THEN r[p].item.payload # Empty
               ELSE ~(Decodes(r[p].item.payload) /\ Accepts(p, r[p].item.payload))
            /\ Fail(p)
  <2>1. Sound(p) /\ Sound(q) => Reason
    <3> SUFFICES ASSUME Sound(p) PROVE Reason
      OBVIOUS
    <3>1. r[p].item.kind = "frame"
      BY <1>3, <1>4 DEF Sound
    <3>2. Step(p) = "recv_identity"
      BY <1>4, <1>5, <1>14, <3>1
    <3>3. ~Decodes(r[p].item.payload) \/ ~Accepts(p, r[p].item.payload)
      BY <1>14, <3>1, <3>2
    <3>4. ~Decodes(r[p].item.payload) => Reason
      BY <1>2, <1>11, <3>1, <3>2 DEF Decodes, Reason
    <3>5. ~Accepts(p, r[p].item.payload) => setup.expected = "stranger"
      <4> SUFFICES ASSUME ~Accepts(p, r[p].item.payload) PROVE setup.expected = "stranger"
        OBVIOUS
      <4>1. r[p].item.payload.key = q /\ hs[p].key \notin {Nobody, q}
        BY <1>11, <3>1, <3>2 DEF Accepts
      <4>2. ~Knows(p, hs[p].step)
        <5>1. hs[p].step \in 1 .. Len(Upgrade(p).script) + 1
          BY <1>4 DEF InHandshake
        <5> QED
          BY <1>3, <1>4, <5>1, StepIs
      <4>3. hs[p].key = Upgrade(p).expects
        BY <1>4, <4>2 DEF InHandshake
      <4>4. p = "dialer" /\ hs[p].key = setup.expected
        BY <1>3, <4>1, <4>3, UpgradeIs
      <4>5. q = "listener"
        BY <1>1, <4>4, TwoSides
      <4> QED
        BY <1>3, <4>1, <4>4, <4>5, SetupIs
    <3> QED
      BY <3>3, <3>4, <3>5 DEF Reason
  <2> QED
    BY <1>10, <1>14, <2>1
<1>15. \/ /\ Step(p) = "recv_empty" /\ r[p].item = [kind |-> "frame", payload |-> Empty]
          /\ Advance(p, hs[p]) /\ UNCHANGED link
       \/ /\ Step(p) = "recv_identity" /\ r[p].item.kind = "frame"
          /\ Advance(p, [hs[p] EXCEPT !.key = IF r[p].item.payload.key = Nobody THEN @ ELSE r[p].item.payload.key,
                                      !.sig = r[p].item.payload.sig])
          /\ UNCHANGED link
       \/ /\ IF r[p].item.kind # "frame" THEN TRUE
             ELSE IF Step(p) = "recv_empty" THEN r[p].item.payload # Empty
             ELSE ~(Decodes(r[p].item.payload) /\ Accepts(p, r[p].item.payload))
          /\ Fail(p)
  BY DEF Recv
<1> QED
  BY <1>12, <1>13, <1>14, <1>15

LEMMA FinishKeeps ==
  ASSUME NInv, NEW p \in Sides, Finish(p)
  PROVE  NInv'
<1>1. PICK q : q = Other(p)
  OBVIOUS
<1>2. q \in Sides /\ Other(q) = p /\ p # q
  BY <1>1, TwoSides
<1>3. /\ Typed /\ Hand(p) /\ Flow(q) /\ Unpacked(q, p) /\ Going(p) /\ Step(p) = "finish"
      /\ UNCHANGED <<setup, wire, broken, frames, w, r, out, written, read>>
  BY <1>1, <1>2 DEF NInv, Finish
<1>4. InHandshake(p) /\ hs[p].state = "going" /\ hs[p] \in Hands
  BY <1>3 DEF Hand, Going, Typed
<1>5. PICK s : s = hs[p].step
  OBVIOUS
<1>6. Sends(p, s) = Len(Hello(p)) /\ Recvs(p, s) = Len(Hello(q)) /\ Knows(p, s)
  <2>1. s \in 1 .. Len(Upgrade(p).script) + 1
    BY <1>4, <1>5 DEF InHandshake
  <2> QED
    BY <1>1, <1>3, <1>5, <2>1, StepIs
<1>7. r[p].item.kind = "none" /\ hs[p].sent = FALSE /\ ~hs[p].closed /\ out[p].recv = <<>>
      /\ Readable(p) /\ peer[p] = Nobody
  <2>1. r[p].item.kind = "none" /\ hs[p].sent = FALSE /\ ~hs[p].closed /\ out[p].recv = <<>>
        /\ peer[p] = Nobody
    BY <1>3, <1>4 DEF InHandshake, Hands
  <2> QED
    BY <1>3, <2>1 DEF Hand
<1>8. Len(frames[p]) = Len(Hello(p)) /\ Used(p) = Len(Hello(q)) /\ Len(Hello(p)) \in Nat
      /\ Len(Hello(q)) \in Nat
  <2>1. Len(Hello(p)) \in Nat /\ Len(Hello(q)) \in Nat
    BY <1>2, <1>3, HelloIs
  <2>2. Len(frames[p]) = Sends(p, s) + 0 /\ Used(p) = Recvs(p, s)
    BY <1>4, <1>5, <1>7 DEF InHandshake
  <2> QED
    BY <1>6, <2>1, <2>2
\* The key and the proof of it.
<1>9. /\ hs[p].sig = Signature(q)
      /\ hs[p].key = IF Upgrade(q).sends THEN q ELSE Upgrade(p).expects
  BY <1>1, <1>4, <1>5, <1>6 DEF InHandshake
<1>10. hs[p].key = q \/ setup.expected = "stranger"
  <2>1. CASE Upgrade(q).sends
    BY <1>9, <2>1
  <2>2. CASE ~Upgrade(q).sends
    <3>1. setup.pattern = "IK" /\ q # "dialer"
      BY <1>2, <1>3, <2>2, UpgradeIs
    <3>2. q = "listener" /\ p = "dialer"
      BY <1>2, <3>1 DEF Sides
    <3>3. hs[p].key = setup.expected
      BY <1>3, <1>9, <2>2, <3>2, UpgradeIs
    <3> QED
      BY <1>3, <3>1, <3>2, <3>3, SetupIs
  <2> QED
    BY <2>1, <2>2
<1>11. hs[p].key = q => Remote(p) = q
  <2>1. Signature(q) = [by |-> q, over |-> q]
    BY DEF Signature
  <2> QED
    BY <1>1, <1>2, <1>9, <2>1, TwoSides DEF Remote, Verified
<1>12. CASE Admits(p)
  <2>1. hs[p].key = q
    <3>1. Verified(hs[p].key, hs[p].sig, p)
      BY <1>12 DEF Admits, Remote
    <3>2. hs[p].sig.by = hs[p].key /\ Signature(q).by = q
      BY <1>2, <3>1, SignatureIs DEF Verified
    <3> QED
      BY <1>9, <3>2
  <2>2. /\ peer' = [peer EXCEPT ![p] = q] /\ UNCHANGED link
        /\ hs' = [hs EXCEPT ![p].state = "done"]
    BY <1>11, <1>12, <2>1 DEF Finish
  <2>3. PICK h : h = [hs[p] EXCEPT !.state = "done"]
    OBVIOUS
  <2>4. h \in Hands /\ hs' = [hs EXCEPT ![p] = h] /\ h.closed = hs[p].closed /\ h.state = "done"
    BY <1>3, <1>4, <2>2, <2>3 DEF Hands, Typed
  <2>5. hs'[p] = h /\ peer'[p] = q /\ peer'[q] = peer[q] /\ peer' \in [Sides -> Names]
    BY <1>2, <1>3, <2>2, <2>4, TwoSides DEF Typed
  <2>6. Upgraded(p)'
    <3>1. Used(p)' = Used(p) /\ Hello(p)' = Hello(p) /\ Hello(q)' = Hello(q)
      BY <1>3, SetupKept DEF Used
    <3> QED
      BY <1>1, <1>3, <1>8, <2>5, <3>1 DEF Upgraded
  <2>7. Hand(p)'
    BY <1>1, <1>3, <1>7, <2>4, <2>5, <2>6 DEF Hand, Going, Readable
  <2>8. Sound(p) => Sound(p)'
    BY <1>3, <1>7, <2>2, <2>4, <2>5 DEF Sound, Going
  <2>9. link' = [link EXCEPT ![p] = link[p]] /\ link[p] \in {"open", "shut"}
    BY <1>3, <2>2 DEF Typed
  <2> QED
    BY <1>1, <1>3, <1>4, <2>4, <2>5, <2>7, <2>8, <2>9, QuietKeeps
<1>13. CASE ~Admits(p)
  <2>1. Fail(p) /\ UNCHANGED <<setup, wire, broken, frames, w, out, app>>
    BY <1>3, <1>13 DEF Finish, app
  <2>2. Reason
    <3> SUFFICES ASSUME setup.expected # "stranger" PROVE Reason
      BY DEF Reason
    <3>1. Remote(p) = q /\ q \notin {Nobody, "invalid"}
      BY <1>2, <1>10, <1>11 DEF Sides, Nobody
    <3>2. \/ setup.check[p] = "nodes" /\ "nodes" \notin setup.rows[q]
          \/ setup.check[p] = "users" /\ "users" \notin setup.rows[q]
      BY <1>1, <1>13, <3>1 DEF Admits, AdmitsNode, AdmitsUser
    <3>3. setup.check[p] \notin setup.rows[q] \cup {Nobody}
      BY <3>2 DEF Nobody
    <3> QED
      BY <1>1, <3>3 DEF Reason
  <2>3. Unpacked(q, p)'
    <3>1. Longer(q) /\ r[p].opened <= Len(frames[q])
      <4>1. frames'[q] = frames[q]
        BY <1>3
      <4> QED
        BY <1>1, <1>2, <1>3, <4>1, LongerSame, OpenedIs
    <3> QED
      BY <1>2, <1>3, <3>1, UnpackedKept
  <2>4. r' \in [Sides -> Readers] /\ SameReader(p)
    BY <1>3 DEF Typed, SameReader
  <2> QED
    BY <1>1, <1>3, <2>1, <2>2, <2>3, <2>4, FailKeeps
<1> QED
  BY <1>12, <1>13

-----------------------------------------------------------------------------
(* The stream keeps the invariant.                                         *)

\* Who is established has an upgraded connection.
LEMMA EstablishedIs ==
  ASSUME Typed, NEW p \in Sides, Hand(p), Established(p)
  PROVE  hs[p].state \in {"done", "eof", "error"} /\ Upgraded(p) /\ hs[p].state # "ended"
<1>1. hs[p] \in Hands
  BY DEF Typed
<1>2. hs[p].state \in {"going", "done", "failed", "ended", "eof", "error"}
  BY <1>1 DEF Hands
<1>3. hs[p].state # "going"
  BY DEF Hand, Going, InHandshake, Established
<1> QED
  BY <1>2, <1>3 DEF Established, Alive, Hand

LEMMA CloseKeeps ==
  ASSUME NInv, NEW p \in Sides, Close(p)
  PROVE  NInv'
<1>1. PICK q : q = Other(p)
  OBVIOUS
<1>2. q \in Sides /\ Other(q) = p /\ p # q
  BY <1>1, TwoSides
<1>3. /\ Typed /\ Hand(p) /\ Established(p) /\ link[p] = "open"
      /\ out[p].fill = 0 /\ w[p].state = "Ready"
      /\ link' = [link EXCEPT ![p] = "shut"] /\ hs' = [hs EXCEPT ![p].closed = TRUE]
      /\ UNCHANGED <<setup, wire, broken, frames, w, r, out, peer, written, read>>
  BY DEF NInv, Close, Open, Flushed, app
<1>4. hs[p].state \in {"done", "eof", "error"} /\ Upgraded(p) /\ hs[p] \in Hands
  BY <1>3, EstablishedIs DEF Typed
<1>5. PICK h : h = [hs[p] EXCEPT !.closed = TRUE]
  OBVIOUS
<1>6. h \in Hands /\ h.state = hs[p].state /\ h.closed = TRUE /\ hs' = [hs EXCEPT ![p] = h]
  BY <1>3, <1>4, <1>5 DEF Hands, Typed
<1>7. hs'[p] = h /\ hs'[q] = hs[q] /\ link'[p] = "shut" /\ link'[q] = link[q]
  BY <1>2, <1>3, <1>6 DEF Typed
<1>8. Upgraded(p)'
  BY <1>3, <1>4, SetupKept DEF Upgraded, Used
<1>9. Len(frames'[p]) >= Len(Hello(p))'
  BY <1>8 DEF Upgraded
<1>10. r'[p].item.kind = "eof" \/ hs'[p].state = "eof" =>
        /\ link'[Other(p)] = "shut"
        /\ hs'[Other(p)].closed /\ broken'[p] = "no" =>
                r'[p].opened = Len(frames'[Other(p)]) /\ out'[p].recv = <<>>
  BY <1>1, <1>3, <1>6, <1>7 DEF Hand
<1>11. Hand(p)'
  BY <1>3, <1>4, <1>6, <1>7, <1>8, <1>9, <1>10 DEF Hand, Going, Readable
<1>12. Sound(p) => Sound(p)'
  BY <1>3, <1>6, <1>7 DEF Sound, Going
<1>13. peer' \in [Sides -> Names] /\ peer'[q] = peer[q]
  BY <1>3 DEF Typed
<1> QED
  BY <1>1, <1>3, <1>4, <1>6, <1>11, <1>12, <1>13, QuietKeeps

LEMMA RefillKeeps ==
  ASSUME NInv, NEW p \in Sides, Refill(p)
  PROVE  NInv'
<1>1. PICK q : q = Other(p)
  OBVIOUS
<1>2. q \in Sides /\ Other(q) = p /\ p # q
  BY <1>1, TwoSides
<1>3. /\ Typed /\ Hand(p) /\ Flow(q) /\ Unpacked(q, p) /\ Established(p) /\ r[p].item # None
      /\ r' = [r EXCEPT ![p].item = None]
      /\ UNCHANGED <<setup, wire, link, broken, frames, w, peer, written, read>>
  BY <1>1, <1>2 DEF NInv, Refill, app
<1>4. hs[p].state \in {"done", "eof", "error"} /\ Upgraded(p) /\ hs[p] \in Hands /\ out[p] \in Buffers
  BY <1>3, EstablishedIs DEF Typed
<1>5. r[p].item.kind \in {"eof", "error", "frame"}
  <2>1. r[p].item \in Items
    BY <1>3 DEF Typed, Readers
  <2> QED
    BY <1>3, <2>1 DEF Items, None
<1>6. hs[p].state = "done"
  BY <1>3, <1>4, <1>5 DEF Hand
<1>7. /\ r' \in [Sides -> Readers] /\ r'[q] = r[q] /\ SameReader(p) /\ r'[p].item.kind = "none"
      /\ r'[p].opened = r[p].opened
  <2>1. None \in Items
    BY DEF None, Items
  <2>2. r \in [Sides -> Readers] /\ r[p] \in Readers
    BY <1>3 DEF Typed
  <2>3. r'[p] = [r[p] EXCEPT !.item = None]
    BY <1>3, <2>2
  <2>4. r'[p] \in Readers /\ r'[p].item = None /\ SameReader(p)
    BY <2>1, <2>2, <2>3 DEF Readers, SameReader
  <2> QED
    BY <1>2, <1>3, <2>2, <2>3, <2>4 DEF None, SameReader
<1>8. /\ r[p].opened \in Nat /\ r[p].opened <= Len(frames[q])
      /\ Len(Hello(q)) \in Nat /\ Hello(q)' = Hello(q) /\ Hello(p)' = Hello(p)
      /\ Used(p)' = r[p].opened /\ Used(p) >= Len(Hello(q))
  <2>1. Used(p)' = r[p].opened
    BY <1>7 DEF Used
  <2> QED
    BY <1>1, <1>2, <1>3, <1>4, <2>1, OpenedIs, HelloIs, SetupKept DEF Upgraded
<1>9. Used(p)' >= Len(Hello(q))'
  <2>1. Used(p) = r[p].opened \/ Used(p) = r[p].opened - 1
    BY DEF Used
  <2> QED
    BY <1>8, <2>1
<1>10. peer'[p] = Other(p) /\ Len(frames'[p]) >= Len(Hello(p))'
  BY <1>3, <1>4, <1>8 DEF Upgraded
<1>11. CASE r[p].item.kind = "frame"
  <2>1. out' = [out EXCEPT ![p].recv = r[p].item.payload.bytes, ![p].taken = 0] /\ UNCHANGED hs
    BY <1>11 DEF Refill
  <2>2. PICK k : k = r[p].opened
    OBVIOUS
  <2>3. k \in DOMAIN frames[q] /\ r[p].item.payload = frames[q][k] /\ out[p].recv = <<>>
    BY <1>3, <1>11, <2>2 DEF Unpacked
  <2>4. Used(p) = k - 1 /\ k > Len(Hello(q)) /\ k - 1 \in Nat
    <3>1. Used(p) = k - 1
      BY <1>11, <2>2 DEF Used
    <3> QED
      BY <1>8, <2>2, <3>1
  <2>5. frames[q][k].bytes \in Seq(Nat) /\ Len(frames[q][k].bytes) \in 1 .. MaxFrame
    <3>1. ~(k <= Len(Hello(q)))
      BY <1>8, <2>2, <2>4
    <3> QED
      BY <1>3, <2>3, <3>1 DEF Flow, Framed
  <2>6. out'[p] = [out[p] EXCEPT !.recv = frames[q][k].bytes, !.taken = 0] /\ out'[q] = out[q]
    BY <1>2, <1>3, <2>1, <2>3 DEF Typed
  <2>7. /\ out'[p] \in Buffers /\ out'[p].recv = frames[q][k].bytes /\ out'[p].taken = 0
        /\ out'[p].fill = out[p].fill /\ out'[p].send = out[p].send
    <3>1. PICK b : b = frames[q][k].bytes
      OBVIOUS
    <3>2. b \in Seq(Nat) /\ out'[p] = [out[p] EXCEPT !.recv = b, !.taken = 0]
      BY <2>5, <2>6, <3>1
    <3>3. PICK o, new : o = out[p] /\ new = out'[p]
      OBVIOUS
    <3>4. new = [o EXCEPT !.recv = b, !.taken = 0] /\ o \in Buffers
      BY <1>4, <3>2, <3>3
    <3>5. new \in Buffers /\ new.recv = b /\ new.taken = 0 /\ new.fill = o.fill /\ new.send = o.send
      BY <3>2, <3>4 DEF Buffers
    <3> QED
      BY <3>1, <3>3, <3>5
  <2>8. out' \in [Sides -> Buffers]
    BY <1>2, <1>3, <2>1, <2>6, <2>7, TwoSides DEF Typed
  <2>9. Typed'
    BY <1>3, <1>7, <2>1, <2>8 DEF Typed
  <2>10. out'[p].recv # <<>> /\ out'[p].taken < Len(out'[p].recv)
    <3>1. Len(frames[q][k].bytes) >= 1 /\ Len(frames[q][k].bytes) \in Nat
      BY <2>5, Constants
    <3>2. frames[q][k].bytes # <<>>
      BY <3>1
    <3> QED
      BY <2>7, <3>1, <3>2
  <2>11. Len(read[p]) = EndOf(q, k - 1)
    BY <1>3, <2>3, <2>4 DEF Unpacked
  <2>12. Unpacked(q, p)'
    <3>1. EndOf(q, k - 1)' = EndOf(q, k - 1)
      BY <1>3, <1>8 DEF EndOf
    <3>2. EndOf(q, r[p].opened - 1)' = EndOf(q, k - 1)
      BY <1>7, <2>2, <3>1 DEF EndOf
    <3>3. EndOf(q, k - 1) \in Nat
      <4>1. Len(read[p]) \in Nat
        <5>1. read[p] \in Seq(Nat)
          BY <1>3 DEF Typed
        <5> QED
          BY <5>1
      <4> QED
        BY <2>11, <4>1
    <3>4. Len(read'[p]) = EndOf(q, r[p].opened - 1)' + out'[p].taken
      BY <1>3, <2>7, <2>11, <3>2, <3>3
    <3>5. Numbered(read[p])'
      BY <1>3 DEF Unpacked, Numbered
    <3> QED
      BY <1>3, <1>7, <1>8, <2>2, <2>3, <2>4, <2>7, <2>10, <3>4, <3>5 DEF Unpacked
  <2>13. Readable(p)'
    <3>1. Readable(p)
      BY <1>3, <1>6, <1>11 DEF Hand
    <3> QED
      BY <1>7, <3>1 DEF Readable, SameReader
  <2>14. Hand(p)'
    <3>1. Upgraded(p)'
      BY <1>1, <1>9, <1>10 DEF Upgraded
    <3> QED
      BY <1>1, <1>3, <1>6, <1>7, <1>10, <2>1, <2>7, <2>13, <3>1 DEF Hand, Going
  <2>15. Sound(p) => Sound(p)'
    BY <1>3, <1>6, <2>1 DEF Sound, Going
  <2> QED
    BY <1>1, <1>3, <1>6, <1>7, <2>1, <2>6, <2>7, <2>9, <2>12, <2>14, <2>15, OwnKeeps
<1>12. CASE r[p].item.kind # "frame"
  <2>1. hs' = [hs EXCEPT ![p].state = r[p].item.kind] /\ UNCHANGED out
    BY <1>12 DEF Refill
  <2>2. /\ hs'[p] \in Hands /\ hs'[p].state = r[p].item.kind /\ hs'[p].closed = hs[p].closed
        /\ hs'[q] = hs[q] /\ hs' \in [Sides -> Hands]
    BY <1>2, <1>3, <1>4, <1>5, <1>12, <2>1 DEF Typed, Hands
  <2>3. Typed'
    BY <1>3, <1>7, <2>1, <2>2 DEF Typed
  <2>4. Used(p) = r[p].opened
    BY <1>12 DEF Used
  <2>5. Unpacked(q, p)'
    <3>1. \A k : EndOf(q, k)' = EndOf(q, k)
      BY <1>3, <1>8 DEF EndOf
    <3> QED
      BY <1>3, <1>7, <1>8, <2>1, <2>4, <3>1 DEF Unpacked, Numbered, EndOf
  <2>6. Hand(p)'
    <3>1. Upgraded(p)'
      BY <1>1, <1>9, <1>10 DEF Upgraded
    <3>2. hs'[p].state \in {"eof", "error"}
      BY <1>5, <1>12, <2>2
    <3>3. r'[p].item.kind = "eof" \/ hs'[p].state = "eof" =>
            /\ link'[q] = "shut"
            /\ hs'[q].closed /\ broken'[p] = "no" =>
                    r'[p].opened = Len(frames'[q]) /\ out'[p].recv = <<>>
      BY <1>1, <1>3, <1>7, <2>1, <2>2 DEF Hand
    <3>4. hs'[p].closed =>
            /\ link'[p] = "shut" /\ out'[p].fill = 0 /\ w'[p].state = "Ready"
            /\ Len(frames'[p]) >= Len(Hello(p))'
      BY <1>3, <1>10, <2>1, <2>2 DEF Hand
    <3> QED
      BY <1>1, <1>7, <1>10, <3>1, <3>2, <3>3, <3>4 DEF Hand, Going
  <2>7. Sound(p) => Sound(p)'
    BY <1>3, <1>5, <1>12, <2>2 DEF Sound, Going
  <2> QED
    BY <1>1, <1>3, <1>6, <1>7, <2>1, <2>2, <2>3, <2>5, <2>6, <2>7, OwnKeeps
<1> QED
  BY <1>11, <1>12

LEMMA AppReadKeeps ==
  ASSUME NInv, NEW p \in Sides, AppRead(p)
  PROVE  NInv'
<1>1. PICK q : q = Other(p)
  OBVIOUS
<1>2. q \in Sides /\ Other(q) = p /\ p # q
  BY <1>1, TwoSides
<1>3. /\ Typed /\ Hand(p) /\ Flow(q) /\ Cargo(q) /\ Unpacked(q, p) /\ Established(p)
      /\ UNCHANGED <<setup, wire, link, broken, frames, w, r, hs, peer, written>>
  BY <1>1, <1>2 DEF NInv, AppRead
<1>4. hs[p].state \in {"done", "eof", "error"} /\ Upgraded(p) /\ out[p] \in Buffers /\ read[p] \in Seq(Nat)
  BY <1>3, EstablishedIs DEF Typed
<1>5. PICK recv, have : recv = out[p].recv /\ have = out[p].taken
  OBVIOUS
<1>6. recv \in Seq(Nat) /\ have \in Nat /\ Len(recv) \in Nat
  BY <1>4, <1>5 DEF Buffers
<1>7. PICK n \in 1 .. Len(recv) - have :
        /\ read' = [read EXCEPT ![p] = @ \o SubSeq(recv, have + 1, have + n)]
        /\ out' = [out EXCEPT ![p].taken = have + n,
                              ![p].recv = IF have + n = Len(@) THEN <<>> ELSE @]
  BY <1>5 DEF AppRead
<1>8. n \in Nat /\ n >= 1 /\ have + n <= Len(recv) /\ have + n \in Nat
  BY <1>6, <1>7
<1>9. recv # <<>>
  <2>1. Len(recv) # 0
    BY <1>6, <1>8
  <2> QED
    BY <2>1
\* What is left of the buffer.
<1>10. /\ out'[p] = [out[p] EXCEPT !.taken = have + n,
                                   !.recv = IF have + n = Len(recv) THEN <<>> ELSE recv]
       /\ out'[q] = out[q]
  BY <1>2, <1>3, <1>5, <1>7 DEF Typed, Buffers
<1>11. /\ out'[p] \in Buffers /\ out'[p].fill = out[p].fill /\ out'[p].send = out[p].send
       /\ out'[p].taken = have + n
       /\ out'[p].recv = IF have + n = Len(recv) THEN <<>> ELSE recv
  <2>1. (IF have + n = Len(recv) THEN <<>> ELSE recv) \in Seq(Nat)
    BY <1>6
  <2> QED
    BY <1>4, <1>8, <1>10, <2>1 DEF Buffers
<1>12. out' \in [Sides -> Buffers]
  <2>1. DOMAIN out' = Sides /\ out' = [x \in Sides |-> out'[x]]
    BY <1>3, <1>7 DEF Typed
  <2>2. \A x \in Sides : out'[x] \in Buffers
    BY <1>2, <1>3, <1>10, <1>11, TwoSides DEF Typed
  <2> QED
    BY <2>1, <2>2
\* What is read.
<1>13. PICK k : k = r[p].opened
  OBVIOUS
<1>14. PICK e : e = EndOf(q, k - 1)
  OBVIOUS
<1>15. /\ k \in DOMAIN frames[q] /\ k > Len(Hello(q)) /\ recv = frames[q][k].bytes
       /\ have < Len(recv) /\ Len(read[p]) = e + have /\ Numbered(read[p])
       /\ r[p].item.kind # "frame"
  BY <1>3, <1>5, <1>9, <1>13, <1>14 DEF Unpacked
<1>16. /\ k \in Nat /\ k >= 1 /\ k <= Len(frames[q]) /\ Len(Hello(q)) \in Nat /\ Len(frames[q]) \in Nat
       /\ k - 1 \in 0 .. Len(frames[q])
  <2>1. k \in Nat /\ k <= Len(frames[q]) /\ Len(frames[q]) \in Nat /\ DOMAIN frames[q] = 1 .. Len(frames[q])
    BY <1>1, <1>2, <1>3, <1>13, OpenedIs
  <2>2. Len(Hello(q)) \in Nat
    BY <1>2, <1>3, HelloIs
  <2> QED
    BY <1>15, <2>1, <2>2
<1>17. e \in Nat /\ EndOf(q, k) = e + Len(recv) /\ \A i \in 1 .. Len(recv) : recv[i] = e + i
  <2>1. e \in Nat
    BY <1>3, <1>14, <1>16 DEF Cargo
  <2>2. \A i \in DOMAIN recv : recv[i] = e + i
    BY <1>3, <1>14, <1>15 DEF Cargo
  <2>3. DOMAIN recv = 1 .. Len(recv)
    BY <1>6
  <2>4. recv[Len(recv)] = e + Len(recv)
    BY <1>6, <1>8, <2>2, <2>3
  <2>5. EndOf(q, k) = recv[Len(recv)]
    BY <1>15, <1>16 DEF EndOf
  <2> QED
    BY <2>1, <2>2, <2>3, <2>4, <2>5
<1>18. PICK x : x = SubSeq(recv, have + 1, have + n)
  OBVIOUS
<1>19. x \in Seq(Nat) /\ Len(x) = n /\ \A i \in 1 .. n : x[i] = e + have + i
  <2>1. x \in Seq(Nat) /\ Len(x) = n /\ \A i \in 1 .. n : x[i] = recv[have + i]
    <3>1. /\ recv \in Seq(Nat) /\ have \in Nat /\ n \in Nat /\ n >= 1
          /\ have + n <= Len(recv)
      BY <1>6, <1>8
    <3> QED
      BY <1>18, <3>1, Slice
  <2>2. ASSUME NEW i \in 1 .. n PROVE x[i] = e + have + i
    <3>1. x[i] = recv[have + i]
      BY <2>1
    <3>2. have + i \in 1 .. Len(recv) /\ e + (have + i) = e + have + i
      BY <1>6, <1>8, <1>17
    <3> QED
      BY <1>17, <3>1, <3>2
  <2> QED
    BY <2>1, <2>2
<1>20. read'[p] = read[p] \o x /\ read'[q] = read[q]
  BY <1>2, <1>3, <1>7, <1>18 DEF Typed
<1>21. /\ read'[p] \in Seq(Nat) /\ Len(read'[p]) = e + (have + n)
       /\ Numbered(read[p])'
  <2>1. PICK s, t, m : s = read[p] /\ t = read'[p] /\ m = e + have
    OBVIOUS
  <2>2. s \in Seq(Nat) /\ Len(s) = m /\ t = s \o x /\ m \in Nat /\ x \in Seq(Nat) /\ Len(x) = n
    BY <1>4, <1>6, <1>15, <1>17, <1>19, <1>20, <2>1
  <2>3. /\ t \in Seq(Nat) /\ Len(t) = m + n
        /\ \A i \in 1 .. m + n : t[i] = IF i <= m THEN s[i] ELSE x[i - m]
    BY <2>2, ConcatProperties
  <2>4. \A i \in 1 .. m : s[i] = i
    <3>1. DOMAIN s = 1 .. m
      BY <2>2
    <3> QED
      BY <1>15, <2>1, <3>1 DEF Numbered
  <2>5. \A i \in 1 .. m + n : i > m => i - m \in 1 .. n /\ m + (i - m) = i
    BY <1>8, <2>2
  <2>6. \A i \in 1 .. n : x[i] = m + i
    BY <1>19, <2>1
  <2>7. \A i \in 1 .. m + n : t[i] = i
    <3> SUFFICES ASSUME NEW i \in 1 .. m + n PROVE t[i] = i
      OBVIOUS
    <3>1. CASE i <= m
      <4>1. i \in 1 .. m
        BY <2>2, <3>1
      <4> QED
        BY <2>3, <2>4, <3>1, <4>1
    <3>2. CASE ~(i <= m)
      <4>1. i > m
        BY <1>8, <2>2, <3>2
      <4>2. t[i] = x[i - m] /\ i - m \in 1 .. n /\ m + (i - m) = i
        BY <2>3, <2>5, <3>2, <4>1
      <4> QED
        BY <2>6, <4>2
    <3> QED
      BY <3>1, <3>2
  <2>8. DOMAIN t = 1 .. m + n
    BY <2>3
  <2>9. Len(t) = e + (have + n)
    BY <1>6, <1>8, <1>17, <2>1, <2>3
  <2> QED
    BY <2>1, <2>3, <2>7, <2>8, <2>9 DEF Numbered
<1>22. read' \in [Sides -> Seq(Nat)]
  <2>1. DOMAIN read' = Sides /\ read' = [y \in Sides |-> read'[y]]
    BY <1>3, <1>7 DEF Typed
  <2>2. \A y \in Sides : read'[y] \in Seq(Nat)
    BY <1>2, <1>3, <1>20, <1>21, TwoSides DEF Typed
  <2> QED
    BY <2>1, <2>2
<1>23. Typed'
  BY <1>3, <1>12, <1>22 DEF Typed
<1>24. Unpacked(q, p)'
  <2>1. Hello(q)' = Hello(q) /\ Used(p)' = k
    BY <1>3, <1>13, <1>15, SetupKept DEF Used
  <2>2. EndOf(q, k)' = EndOf(q, k) /\ EndOf(q, k - 1)' = e
    BY <1>3, <1>14, <2>1 DEF EndOf
  <2>3. out'[p].recv = <<>> => Len(read'[p]) = EndOf(q, Used(p))'
    <3> SUFFICES ASSUME out'[p].recv = <<>> PROVE Len(read'[p]) = EndOf(q, Used(p))'
      OBVIOUS
    <3>1. have + n = Len(recv)
      BY <1>9, <1>11
    <3>2. EndOf(q, Used(p))' = EndOf(q, k)
      BY <2>1, <2>2 DEF EndOf
    <3> QED
      BY <1>17, <1>21, <3>1, <3>2
  <2>4. out'[p].recv # <<>> =>
          /\ out'[p].recv = recv /\ out'[p].taken < Len(recv)
          /\ Len(read'[p]) = e + out'[p].taken
    BY <1>6, <1>8, <1>11, <1>21
  <2>5. EndOf(q, r[p].opened - 1)' = e
    BY <1>3, <1>13, <2>2 DEF EndOf
  <2> QED
    BY <1>3, <1>13, <1>15, <1>21, <2>1, <2>3, <2>4, <2>5 DEF Unpacked
<1>25. Hand(p)'
  <2>1. Upgraded(p)'
    BY <1>3, <1>4, SetupKept DEF Upgraded, Used
  <2>2. Len(frames'[p]) >= Len(Hello(p))'
    BY <2>1 DEF Upgraded
  <2>3. r'[p].item.kind = "eof" \/ hs'[p].state = "eof" =>
            /\ link'[q] = "shut"
            /\ hs'[q].closed /\ broken'[p] = "no" =>
                    r'[p].opened = Len(frames'[q]) /\ out'[p].recv = <<>>
    BY <1>1, <1>3, <1>5, <1>9 DEF Hand
  <2>4. hs'[p].closed =>
            /\ link'[p] = "shut" /\ out'[p].fill = 0 /\ w'[p].state = "Ready"
            /\ Len(frames'[p]) >= Len(Hello(p))'
    BY <1>3, <1>11, <2>2 DEF Hand
  <2> QED
    BY <1>1, <1>3, <1>4, <2>1, <2>3, <2>4 DEF Hand, Going, Readable
<1>26. Sound(p) => Sound(p)'
  BY <1>3 DEF Sound, Going
<1>27. SameReader(p) /\ hs[p].state # "ended"
  BY <1>3, <1>4 DEF SameReader
<1> QED
  BY <1>1, <1>3, <1>10, <1>11, <1>20, <1>23, <1>24, <1>25, <1>26, <1>27, OwnKeeps

-----------------------------------------------------------------------------
(* Sealing a frame keeps the invariant.                                    *)

LEMMA Appended ==
  ASSUME NEW s \in Seq(Payloads), NEW x \in Payloads, NEW t, t = Append(s, x)
  PROVE  /\ t \in Seq(Payloads) /\ Len(t) = Len(s) + 1 /\ Len(s) \in Nat
         /\ \A k \in DOMAIN s : k \in DOMAIN t /\ t[k] = s[k]
         /\ t[Len(s) + 1] = x /\ DOMAIN t = 1 .. Len(s) + 1
  OBVIOUS

LEMMA SealIs ==
  ASSUME Typed, NEW p \in Sides, NEW q, q = Other(p), NEW x \in Payloads, StartSend(p, x)
  PROVE  /\ frames' \in [Sides -> Seq(Payloads)] /\ w' \in [Sides -> Writers]
         /\ frames'[p] = Append(frames[p], x) /\ frames'[q] = frames[q] /\ w'[q] = w[q]
         /\ w[p].state = "Ready" /\ w'[p].state = "WriteLen" /\ w'[p].off = 0
         /\ frames'[p] \in Seq(Payloads)
         /\ Len(frames'[p]) = Len(frames[p]) + 1 /\ Len(frames[p]) \in Nat
         /\ frames'[p][Len(frames[p]) + 1] = x /\ DOMAIN frames'[p] = 1 .. Len(frames[p]) + 1
         /\ DOMAIN frames[p] = 1 .. Len(frames[p])
         /\ Longer(p) /\ Longer(q)
<1>1. q \in Sides /\ p # q
  BY TwoSides
<1>2. frames[p] \in Seq(Payloads)
  BY DEF Typed
<1>3. frames' = [frames EXCEPT ![p] = Append(frames[p], x)] /\ frames'[p] = Append(frames[p], x)
      /\ frames'[q] = frames[q]
  BY <1>1 DEF StartSend, Typed
<1>4. /\ frames'[p] \in Seq(Payloads) /\ Len(frames'[p]) = Len(frames[p]) + 1 /\ Len(frames[p]) \in Nat
      /\ \A k \in DOMAIN frames[p] : k \in DOMAIN frames'[p] /\ frames'[p][k] = frames[p][k]
      /\ frames'[p][Len(frames[p]) + 1] = x /\ DOMAIN frames'[p] = 1 .. Len(frames[p]) + 1
  BY <1>2, <1>3, Appended
<1>5. frames' \in [Sides -> Seq(Payloads)]
  BY <1>3, <1>4 DEF Typed
<1>6. PICK y : y = [state |-> "WriteLen", off |-> 0]
  OBVIOUS
<1>7. y \in Writers /\ y.state = "WriteLen" /\ y.off = 0
  BY <1>6 DEF Writers
<1>8. w' = [w EXCEPT ![p] = y]
  BY <1>6 DEF StartSend
<1>9. w' \in [Sides -> Writers] /\ w'[p] = y /\ w'[q] = w[q]
  BY <1>1, <1>7, <1>8 DEF Typed
<1>10. Longer(p)
  BY <1>4 DEF Longer
<1>11. Longer(q)
  BY <1>1, <1>3, LongerSame
<1>12. DOMAIN frames[p] = 1 .. Len(frames[p])
  BY <1>2
<1> QED
  BY <1>3, <1>4, <1>5, <1>7, <1>9, <1>10, <1>11, <1>12 DEF StartSend

\* A frame that may be sent: the next of the handshake, or data.
Sendable(p, x) ==
    IF Len(frames[p]) + 1 <= Len(Hello(p)) THEN x = Hello(p)[Len(frames[p]) + 1]
    ELSE x.kind = "data" /\ x.bytes \in Seq(Nat) /\ Len(x.bytes) \in 1 .. MaxFrame

LEMMA SealFlow ==
  ASSUME Typed, Typed', NEW p \in Sides, NEW q, q = Other(p), NEW x \in Payloads, StartSend(p, x),
         Sendable(p, x), Flow(p), Flow(q), UNCHANGED <<setup, wire, broken, r>>
  PROVE  Flow(p)' /\ Flow(q)'
<1>1. q \in Sides /\ Other(q) = p /\ p # q
  BY TwoSides
<1>2. /\ frames'[p] = Append(frames[p], x) /\ frames'[q] = frames[q] /\ w'[q] = w[q]
      /\ w[p].state = "Ready" /\ w'[p].state = "WriteLen" /\ w'[p].off = 0
      /\ Len(frames'[p]) = Len(frames[p]) + 1 /\ Len(frames[p]) \in Nat
      /\ frames'[p][Len(frames[p]) + 1] = x /\ DOMAIN frames'[p] = 1 .. Len(frames[p]) + 1
      /\ DOMAIN frames[p] = 1 .. Len(frames[p])
      /\ Longer(p) /\ Longer(q)
  BY SealIs
<1>3. Hello(p)' = Hello(p) /\ Hello(q)' = Hello(q)
  BY SetupKept
<1>4. Framed(p)'
  <2> SUFFICES ASSUME NEW k \in 1 .. Len(frames[p]) + 1
               PROVE  IF k <= Len(Hello(p)) THEN frames'[p][k] = Hello(p)[k]
                      ELSE /\ frames'[p][k].kind = "data" /\ frames'[p][k].bytes \in Seq(Nat)
                           /\ Len(frames'[p][k].bytes) \in 1 .. MaxFrame
    BY <1>2, <1>3 DEF Framed
  <2>1. CASE k = Len(frames[p]) + 1
    BY <1>2, <2>1 DEF Sendable
  <2>2. CASE k # Len(frames[p]) + 1
    <3>1. k \in DOMAIN frames[p]
      BY <1>2, <2>2
    <3>2. frames'[p][k] = frames[p][k]
      BY <1>2, <3>1 DEF Longer
    <3> QED
      BY <3>1, <3>2 DEF Flow, Framed
  <2> QED
    BY <2>1, <2>2
<1>5. Framed(q)' /\ WriterAt(q)'
  BY <1>2, <1>3 DEF Flow, Framed, WriterAt
<1>6. WriterAt(p)'
  <2>1. frames'[p] # <<>>
    BY <1>2
  <2> QED
    BY <1>2, <2>1 DEF WriterAt
<1>7. Writing(p)' => Writing(p) /\ OutFrame(p)' = OutFrame(p) /\ OutAt(p)' = OutAt(p)
  BY <1>2 DEF Writing, OutFrame, OutAt
<1>8. Writing(q)' => Writing(q) /\ OutFrame(q)' = OutFrame(q) /\ OutAt(q)' = OutAt(q)
  BY <1>2 DEF Writing, OutFrame, OutAt
<1>9. SameReader(p) /\ SameReader(q)
  BY DEF SameReader
<1>10. Flow(p)'
  BY <1>2, <1>4, <1>6, <1>7, <1>9, FlowKept
<1>11. Flow(q)'
  BY <1>1, <1>2, <1>5, <1>8, <1>9, FlowKept
<1> QED
  BY <1>10, <1>11

\* Whoever writes into its buffer, and may send a frame.
LEMMA SenderKeeps ==
  ASSUME NInv, NEW p \in Sides, NEW q, q = Other(p), Typed', Flow(p)', Flow(q)', Longer(p), Longer(q),
         UNCHANGED <<setup, wire, link, broken, r, read, peer>>,
         hs'[q] = hs[q], hs'[p].state = hs[p].state, hs'[p].closed = hs[p].closed, ~hs[p].closed,
         out'[q] = out[q], out'[p].recv = out[p].recv, out'[p].taken = out[p].taken,
         written'[q] = written[q], w'[q] = w[q], frames'[q] = frames[q],
         w'[p].state = "Eof" => w[p].state = "Eof", Cargo(p)', Hand(p)'
  PROVE  NInv'
<1>1. q \in Sides /\ Other(q) = p /\ p # q
  BY TwoSides
<1>2. /\ Typed /\ \A x \in Sides : Len(wire[x]) <= Room /\ Cargo(x)
      /\ \A x \in Sides : Flow(x) /\ Unpacked(Other(x), x) /\ Hand(x)
      /\ Explained /\ BothBroken
  BY DEF NInv
<1>3. Cargo(q)'
  BY <1>1, <1>2, CargoKept
<1>4. Unpacked(p, q)' /\ Unpacked(q, p)'
  <2>1. r[q].opened <= Len(frames[p]) /\ r[p].opened <= Len(frames[q])
    BY <1>1, <1>2, OpenedIs
  <2>2. Unpacked(p, q) /\ Unpacked(q, p)
    BY <1>1, <1>2
  <2> QED
    BY <1>1, <1>2, <2>1, <2>2, UnpackedKept
<1>5. Hand(q)'
  <2>1. Len(frames[q]) \in Nat
    BY <1>1, <1>2, LongerSame
  <2>2. SameHand(q)
    BY <2>1 DEF SameHand, Readable
  <2>3. SameEnd(q)
    BY <1>1 DEF SameEnd
  <2> QED
    BY <1>1, <1>2, <2>2, <2>3, HandKept
<1>6. Explained'
  <2>1. Reason => Reason'
    <3>1. \A x \in Sides : hs[x].state = "ended" => hs'[x].state = "ended"
      BY <1>1, TwoSides
    <3> QED
      BY <3>1, ReasonKept
  <2>2. (\A x \in Sides : Sound(x)) => \A x \in Sides : Sound(x)'
    <3> SUFFICES ASSUME \A x \in Sides : Sound(x) PROVE \A x \in Sides : Sound(x)'
      OBVIOUS
    <3>1. Sound(p)' /\ Sound(q)'
      BY <1>1 DEF Sound, Going
    <3> QED
      BY <1>1, <3>1, TwoSides
  <2> QED
    BY <1>2, <2>1, <2>2 DEF Explained
<1>7. BothBroken'
  BY <1>2 DEF BothBroken
<1>8. \A x \in Sides : Flow(x)' /\ Cargo(x)' /\ Hand(x)' /\ Unpacked(Other(x), x)'
  BY <1>1, <1>3, <1>4, <1>5, TwoSides
<1> QED
  BY <1>2, <1>6, <1>7, <1>8 DEF NInv

LEMMA SendKeeps ==
  ASSUME NInv, NEW p \in Sides, Send(p)
  PROVE  NInv'
<1>1. PICK q : q = Other(p)
  OBVIOUS
<1>2. q \in Sides /\ Other(q) = p /\ p # q
  BY <1>1, TwoSides
<1>3. /\ Typed /\ Hand(p) /\ Flow(p) /\ Flow(q) /\ Cargo(p) /\ Going(p)
      /\ Step(p) \in {"send_empty", "send_identity"} /\ ~hs[p].sent
      /\ hs' = [hs EXCEPT ![p].sent = TRUE]
      /\ UNCHANGED <<setup, wire, link, broken, r, out, peer, written, read>>
  BY <1>1, <1>2 DEF NInv, Send, app
<1>4. PICK x : x = IF Step(p) = "send_empty" THEN Empty ELSE Identity(p)
  OBVIOUS
<1>5. StartSend(p, x) /\ x \in Payloads
  BY <1>3, <1>4, IdentityIs DEF Send
<1>6. InHandshake(p) /\ hs[p] \in Hands /\ hs[p].state = "going"
  BY <1>3 DEF Hand, Typed, Going
<1>7. PICK s : s = hs[p].step
  OBVIOUS
<1>8. s \in 1 .. Len(Upgrade(p).script) + 1 /\ ~hs[p].closed /\ peer[p] = Nobody /\ out[p].recv = <<>>
      /\ r[p].item.kind = "none" /\ Used(p) = Recvs(p, s) /\ hs[p].sent = FALSE
  BY <1>3, <1>6, <1>7 DEF InHandshake, Hands
<1>9. Sends(p, s) \in Nat /\ Sends(p, s) + 1 <= Len(Hello(p)) /\ Hello(p)[Sends(p, s) + 1] = x
      /\ Len(Hello(p)) \in Nat
  BY <1>3, <1>4, <1>7, <1>8, StepIs, HelloIs
<1>10. Len(frames[p]) = Sends(p, s)
  <2>1. Len(frames[p]) = Sends(p, s) + 0
    BY <1>6, <1>7, <1>8 DEF InHandshake
  <2> QED
    BY <1>9, <2>1
<1>11. Sendable(p, x)
  BY <1>9, <1>10 DEF Sendable
<1>12. /\ frames' \in [Sides -> Seq(Payloads)] /\ w' \in [Sides -> Writers]
       /\ frames'[q] = frames[q] /\ w'[q] = w[q] /\ w'[p].state = "WriteLen"
       /\ Len(frames'[p]) = Len(frames[p]) + 1 /\ Len(frames[p]) \in Nat
       /\ DOMAIN frames'[p] = 1 .. Len(frames[p]) + 1
       /\ Longer(p) /\ Longer(q)
  BY <1>1, <1>3, <1>5, SealIs
<1>13. PICK h : h = [hs[p] EXCEPT !.sent = TRUE]
  OBVIOUS
<1>14. /\ h \in Hands /\ hs' = [hs EXCEPT ![p] = h] /\ h.step = s /\ h.state = "going" /\ h.sent = TRUE
       /\ h.closed = hs[p].closed /\ h.key = hs[p].key /\ h.sig = hs[p].sig
  <2>1. hs' = [hs EXCEPT ![p] = h]
    BY <1>3, <1>13 DEF Typed
  <2>2. PICK old : old = hs[p]
    OBVIOUS
  <2>3. old \in Hands /\ h = [old EXCEPT !.sent = TRUE]
    BY <1>6, <1>13, <2>2
  <2>4. /\ h \in Hands /\ h.step = old.step /\ h.state = old.state /\ h.sent = TRUE
        /\ h.closed = old.closed /\ h.key = old.key /\ h.sig = old.sig
    BY <2>3 DEF Hands
  <2> QED
    BY <1>6, <1>7, <2>1, <2>2, <2>4
<1>15. hs'[p] = h /\ hs'[q] = hs[q] /\ hs' \in [Sides -> Hands]
  <2>1. hs \in [Sides -> Hands] /\ hs' = [hs EXCEPT ![p] = h] /\ h \in Hands
    BY <1>3, <1>14 DEF Typed
  <2> QED
    BY <1>2, <2>1
<1>16. Typed'
  BY <1>3, <1>12, <1>15 DEF Typed
<1>17. Flow(p)' /\ Flow(q)'
  BY <1>1, <1>3, <1>5, <1>11, <1>16, SealFlow
\* No byte of the application is in a frame of the handshake.
<1>18. Cargo(p)'
  <2>1. Hello(p)' = Hello(p)
    BY <1>3, SetupKept
  <2>2. \A k \in 0 .. Len(frames[p]) + 1 : EndOf(p, k)' = 0
    BY <1>9, <1>10, <2>1 DEF EndOf
  <2>3. 0 <= Len(written[p]) - out[p].fill /\ 0 = Len(written[p]) - out[p].fill
    <3>1. EndOf(p, Len(frames[p])) = 0
      BY <1>9, <1>10 DEF EndOf
    <3>2. Len(written[p]) - out[p].fill = 0
      BY <1>3, <3>1 DEF Cargo
    <3> QED
      BY <3>2
  <2>4. \A k \in DOMAIN frames'[p] : ~(k > Len(Hello(p)))
    BY <1>9, <1>10, <1>12
  <2>5. EndOf(p, Len(frames[p]))' = 0
    BY <1>9, <1>10, <1>12, <2>1 DEF EndOf
  <2>6. \A k \in 0 .. Len(frames'[p]) : EndOf(p, k)' = 0
    BY <1>12, <2>2
  <2>7. Numbered(written[p])'
    BY <1>3 DEF Cargo, Numbered
  <2>8. /\ out[p].fill <= Len(written[p]) /\ out[p].fill <= Len(out[p].send)
        /\ Len(out[p].send) <= MaxFrame
        /\ out[p].fill > 0 =>
            /\ Len(out[p].send) = out[p].fill
            /\ \A i \in 1 .. out[p].fill : out[p].send[i] = Len(written[p]) - out[p].fill + i
    BY <1>3 DEF Cargo
  <2> QED
    BY <1>3, <2>1, <2>3, <2>4, <2>5, <2>6, <2>7, <2>8 DEF Cargo
<1>19. Hand(p)'
  <2>1. Upgrade(p)' = Upgrade(p) /\ Upgrade(Other(p))' = Upgrade(Other(p))
    BY <1>3, SetupKept
  <2>2. Sends(p, s)' = Sends(p, s) /\ Recvs(p, s)' = Recvs(p, s) /\ Knows(p, s)' = Knows(p, s)
    BY <1>3, SetupKept
  <2>3. Knows(p, hs[p].step)' = Knows(p, hs[p].step)
    BY <1>7, <1>14, <1>15, <2>2 DEF Knows
  <2>4. /\ Len(frames'[p]) = Sends(p, hs[p].step)' + 1
        /\ Used(p)' = Recvs(p, hs[p].step)'
    BY <1>3, <1>8, <1>10, <1>12, <1>14, <1>15, <2>2 DEF Sends, Recvs, Used
  <2>5. hs'[p].sig = IF Knows(p, hs[p].step)' THEN Signature(Other(p))' ELSE NoSignature'
    BY <1>6, <1>14, <1>15, <2>3 DEF InHandshake, Signature, NoSignature
  <2>6. hs'[p].key = IF Knows(p, hs[p].step)' /\ Upgrade(Other(p))'.sends
                     THEN Other(p)' ELSE Upgrade(p)'.expects
    BY <1>6, <1>14, <1>15, <2>1, <2>3 DEF InHandshake
  <2>7. Step(p)' \in {"send_empty", "send_identity"}
    BY <1>3, <1>7, <1>14, <1>15, <2>1 DEF Step
  <2>8. /\ peer'[p] = Nobody /\ ~hs'[p].closed /\ hs'[p].sent /\ r'[p].item.kind = "none"
        /\ hs'[p].step \in 1 .. Len(Upgrade(p).script)' + 1 /\ out'[p].recv = <<>>
    BY <1>3, <1>8, <1>14, <1>15, <2>1
  <2>9. InHandshake(p)'
    BY <2>4, <2>5, <2>6, <2>7, <2>8 DEF InHandshake
  <2> QED
    BY <1>3, <1>8, <1>14, <1>15, <2>8, <2>9 DEF Hand, Readable
<1> QED
  BY <1>1, <1>3, <1>6, <1>8, <1>12, <1>14, <1>15, <1>16, <1>17, <1>18, <1>19, SenderKeeps

\* What a full buffer becomes, when it is sent.
LEMMA CargoSealed ==
  ASSUME Typed, NEW p \in Sides, Flow(p), Cargo(p), Len(frames[p]) >= Len(Hello(p)), out[p].fill > 0,
         StartSend(p, Data(out[p].send)), UNCHANGED setup
  PROVE  /\ Data(out[p].send) \in Payloads /\ Sendable(p, Data(out[p].send))
         /\ \A k \in DOMAIN frames'[p] : k > Len(Hello(p))' =>
                \A i \in DOMAIN frames'[p][k].bytes : frames'[p][k].bytes[i] = EndOf(p, k - 1)' + i
         /\ \A k \in 0 .. Len(frames'[p]) : EndOf(p, k)' \in Nat /\ EndOf(p, k)' <= Len(written[p])
         /\ EndOf(p, Len(frames[p]))' = Len(written[p])
<1>1. PICK x, b, n : x = Data(out[p].send) /\ b = out[p].send /\ n = Len(frames[p]) + 1
  OBVIOUS
<1>2. /\ b \in Seq(Nat) /\ out[p].fill \in Nat /\ Len(b) \in Nat
      /\ Len(written[p]) \in Nat /\ Len(frames[p]) \in Nat /\ Len(Hello(p)) \in Nat
  <2>1. out[p] \in Buffers /\ written[p] \in Seq(Nat) /\ frames[p] \in Seq(Payloads)
    BY DEF Typed
  <2>2. b \in Seq(Nat) /\ out[p].fill \in Nat
    BY <1>1, <2>1 DEF Buffers
  <2> QED
    BY <2>1, <2>2, HelloIs
<1>3. x.kind = "data" /\ x.bytes = b /\ x \in Payloads
  BY <1>1, <1>2 DEF Data, Payloads
<1>4. /\ Len(b) = out[p].fill /\ Len(b) <= MaxFrame /\ out[p].fill <= Len(written[p])
      /\ \A i \in 1 .. out[p].fill : b[i] = Len(written[p]) - out[p].fill + i
      /\ EndOf(p, n - 1) = Len(written[p]) - out[p].fill
  <2>1. n - 1 = Len(frames[p])
    BY <1>1, <1>2
  <2> QED
    BY <1>1, <2>1 DEF Cargo
<1>5. Sendable(p, x)
  BY <1>1, <1>2, <1>3, <1>4, Constants DEF Sendable
<1>6. PICK q : q = Other(p)
  OBVIOUS
<1>7. /\ Len(frames'[p]) = n /\ frames'[p][n] = x /\ DOMAIN frames'[p] = 1 .. n
      /\ DOMAIN frames[p] = 1 .. n - 1 /\ Longer(p)
  <2>1. /\ Len(frames'[p]) = n /\ frames'[p][n] = x /\ DOMAIN frames'[p] = 1 .. n /\ Longer(p)
        /\ DOMAIN frames[p] = 1 .. Len(frames[p])
    BY <1>1, <1>3, <1>6, SealIs
  <2> QED
    BY <1>1, <1>2, <2>1
<1>8. Hello(p)' = Hello(p) /\ n > Len(Hello(p)) /\ n \in Nat
  BY <1>1, <1>2, SetupKept
<1>9. \A k \in 0 .. n - 1 : EndOf(p, k)' = EndOf(p, k) /\ EndOf(p, k) \in Nat
                            /\ EndOf(p, k) <= Len(written[p])
  <2> SUFFICES ASSUME NEW k \in 0 .. n - 1
               PROVE  EndOf(p, k)' = EndOf(p, k) /\ EndOf(p, k) \in Nat /\ EndOf(p, k) <= Len(written[p])
    OBVIOUS
  <2>1. k \in 0 .. Len(frames[p])
    BY <1>1, <1>2
  <2>2. EndOf(p, k)' = EndOf(p, k)
    BY <1>7, <2>1, EndKept
  <2>3. EndOf(p, k) \in Nat /\ EndOf(p, k) <= Len(written[p]) - out[p].fill
    BY <2>1 DEF Cargo
  <2> QED
    BY <1>2, <2>2, <2>3
<1>10. EndOf(p, n)' = Len(written[p])
  <2>1. EndOf(p, n)' = b[Len(b)]
    BY <1>3, <1>7, <1>8 DEF EndOf
  <2>2. b[Len(b)] = Len(written[p])
    BY <1>2, <1>4
  <2> QED
    BY <2>1, <2>2
<1>11. \A k \in DOMAIN frames'[p] : k > Len(Hello(p))' =>
            \A i \in DOMAIN frames'[p][k].bytes : frames'[p][k].bytes[i] = EndOf(p, k - 1)' + i
  <2> SUFFICES ASSUME NEW k \in 1 .. n, k > Len(Hello(p)), NEW i \in DOMAIN frames'[p][k].bytes
               PROVE  frames'[p][k].bytes[i] = EndOf(p, k - 1)' + i
    BY <1>7, <1>8
  <2>1. k - 1 \in 0 .. n - 1 /\ k - 1 \in Nat
    BY <1>8
  <2>2. EndOf(p, k - 1)' = EndOf(p, k - 1)
    BY <1>9, <2>1
  <2>3. CASE k = n
    <3>1. i \in 1 .. out[p].fill /\ frames'[p][k].bytes = b
      BY <1>2, <1>3, <1>4, <1>7, <2>3
    <3> QED
      BY <1>4, <2>2, <2>3, <3>1
  <2>4. CASE k # n
    <3>1. k \in DOMAIN frames[p]
      BY <1>7, <1>8, <2>4
    <3>2. frames'[p][k] = frames[p][k]
      BY <1>7, <3>1 DEF Longer
    <3> QED
      BY <2>2, <3>1, <3>2 DEF Cargo
  <2> QED
    BY <2>3, <2>4
<1>12. \A k \in 0 .. n : EndOf(p, k)' \in Nat /\ EndOf(p, k)' <= Len(written[p])
  <2> SUFFICES ASSUME NEW k \in 0 .. n PROVE EndOf(p, k)' \in Nat /\ EndOf(p, k)' <= Len(written[p])
    OBVIOUS
  <2>1. CASE k = n
    BY <1>2, <1>10, <2>1
  <2>2. CASE k # n
    <3>1. k \in 0 .. n - 1
      BY <1>8, <2>2
    <3> QED
      BY <1>9, <3>1
  <2> QED
    BY <2>1, <2>2
<1>13. EndOf(p, Len(frames[p]))' = Len(written[p])
  BY <1>7, <1>10 DEF EndOf
<1> QED
  BY <1>1, <1>3, <1>5, <1>7, <1>11, <1>12, <1>13

\* A stream that writes is not closed, and stays where it is.
LEMMA WriterHand ==
  ASSUME NEW p \in Sides, NEW q, q = Other(p), Typed, Typed', Hand(p), Open(p),
         UNCHANGED <<setup, link, broken, r, hs, peer>>, out'[p].recv = out[p].recv,
         Longer(p), frames'[q] = frames[q]
  PROVE  Hand(p)' /\ ~hs[p].closed
<1>1. Established(p) /\ link[p] = "open"
  BY DEF Open
<1>2. ~hs[p].closed /\ ~Going(p)
  BY <1>1, EstablishedIs DEF Hand, Going
<1>3. SameHand(p)
  BY <1>2 DEF SameHand, Readable, Longer
<1>4. SameEnd(p)
  BY DEF SameEnd
<1> QED
  BY <1>2, <1>3, <1>4, HandKept

LEMMA FlushKeeps ==
  ASSUME NInv, NEW p \in Sides, Flush(p)
  PROVE  NInv'
<1>1. PICK q : q = Other(p)
  OBVIOUS
<1>2. q \in Sides /\ Other(q) = p /\ p # q
  BY <1>1, TwoSides
<1>3. /\ Typed /\ Hand(p) /\ Flow(p) /\ Flow(q) /\ Cargo(p) /\ Open(p) /\ out[p].fill > 0
      /\ StartSend(p, Data(out[p].send)) /\ out' = [out EXCEPT ![p].fill = 0]
      /\ UNCHANGED <<setup, wire, link, broken, r, hs, peer, written, read>>
  BY <1>1, <1>2 DEF NInv, Flush, app
<1>4. PICK x : x = Data(out[p].send)
  OBVIOUS
<1>5. Len(frames[p]) >= Len(Hello(p))
  BY <1>3, EstablishedIs DEF Open, Upgraded
<1>6. /\ x \in Payloads /\ Sendable(p, x) /\ StartSend(p, x)
      /\ \A k \in DOMAIN frames'[p] : k > Len(Hello(p))' =>
             \A i \in DOMAIN frames'[p][k].bytes : frames'[p][k].bytes[i] = EndOf(p, k - 1)' + i
      /\ \A k \in 0 .. Len(frames'[p]) : EndOf(p, k)' \in Nat /\ EndOf(p, k)' <= Len(written[p])
      /\ EndOf(p, Len(frames[p]))' = Len(written[p])
  BY <1>3, <1>4, <1>5, CargoSealed
<1>7. /\ frames' \in [Sides -> Seq(Payloads)] /\ w' \in [Sides -> Writers]
      /\ frames'[q] = frames[q] /\ w'[q] = w[q] /\ w'[p].state = "WriteLen"
      /\ Longer(p) /\ Longer(q)
  BY <1>1, <1>3, <1>6, SealIs
<1>8. /\ out' \in [Sides -> Buffers] /\ out'[q] = out[q]
      /\ out'[p].fill = 0 /\ out'[p].send = out[p].send
      /\ out'[p].recv = out[p].recv /\ out'[p].taken = out[p].taken
  BY <1>2, <1>3 DEF Typed, Buffers
<1>9. Typed'
  BY <1>3, <1>7, <1>8 DEF Typed
<1>10. Flow(p)' /\ Flow(q)'
  BY <1>1, <1>3, <1>6, <1>9, SealFlow
<1>11. Cargo(p)'
  <2>1. Len(written[p]) \in Nat /\ Len(out[p].send) \in Nat
    <3>1. written[p] \in Seq(Nat) /\ out[p] \in Buffers
      BY <1>3 DEF Typed
    <3>2. out[p].send \in Seq(Nat)
      BY <3>1 DEF Buffers
    <3> QED
      BY <3>1, <3>2
  <2>2. Len(written[p]) - 0 = Len(written[p]) /\ 0 <= Len(written[p]) /\ 0 <= Len(out[p].send)
    BY <2>1
  <2>3. Numbered(written[p])' /\ Len(out[p].send) <= MaxFrame
    BY <1>3 DEF Cargo, Numbered
  <2> QED
    BY <1>3, <1>6, <1>8, <2>2, <2>3 DEF Cargo
<1>12. Hand(p)' /\ ~hs[p].closed
  BY <1>1, <1>3, <1>7, <1>8, <1>9, WriterHand
<1> QED
  BY <1>1, <1>3, <1>7, <1>8, <1>9, <1>10, <1>11, <1>12, SenderKeeps

\* Bytes that are put behind those of a buffer: new holds the m numbers up to base.
HoldsTo(new, m, base) ==
    /\ new \in Seq(Nat) /\ Len(new) = m /\ \A i \in 1 .. m : new[i] = base - m + i

Earlier(send, off, base) == off > 0 => \A i \in 1 .. off : send[i] = base - off + i

Renewed(new, send, off, took, base) ==
    /\ DOMAIN new = DOMAIN Resized(send, off + took) /\ new = [i \in DOMAIN new |-> new[i]]
    /\ \A i \in DOMAIN new : new[i] = IF i \in off + 1 .. off + took THEN base + i - off
                                      ELSE Resized(send, off + took)[i]

LEMMA BufferGrown ==
  ASSUME NEW send, send \in Seq(Nat), NEW off, off \in Nat, NEW took, took \in Nat,
         NEW base, base \in Nat, off <= base, off <= Len(send),
         Earlier(send, off, base), NEW new, Renewed(new, send, off, took, base)
  PROVE  HoldsTo(new, off + took, base + took)
<1>a. off > 0 => \A i \in 1 .. off : send[i] = base - off + i
  BY DEF Earlier
<1>b. /\ DOMAIN new = DOMAIN Resized(send, off + took) /\ new = [i \in DOMAIN new |-> new[i]]
      /\ \A i \in DOMAIN new : new[i] = IF i \in off + 1 .. off + took THEN base + i - off
                                        ELSE Resized(send, off + took)[i]
  BY DEF Renewed
<1>1. PICK old, m : old = Resized(send, off + took) /\ m = off + took
  OBVIOUS
<1>2. DOMAIN old = 1 .. m /\ m \in Nat /\ \A i \in 1 .. off : old[i] = send[i]
  <2>1. old = [i \in 1 .. m |-> IF i <= Len(send) THEN send[i] ELSE 0]
    BY <1>1 DEF Resized
  <2>2. Len(send) \in Nat
    OBVIOUS
  <2>3. \A i \in 1 .. off : i \in 1 .. m /\ i <= Len(send)
    BY <1>1, <2>2
  <2> QED
    BY <1>1, <2>1, <2>3
<1>3. \A i \in 1 .. m : new[i] = (base + took) - m + i
  <2> SUFFICES ASSUME NEW i \in 1 .. m PROVE new[i] = (base + took) - m + i
    OBVIOUS
  <2>1. i \in Nat /\ (base + took) - m + i = base - off + i
    BY <1>1
  <2>2. CASE i \in off + 1 .. m
    <3>1. new[i] = base + i - off
      BY <1>b, <1>1, <1>2, <2>2
    <3> QED
      BY <2>1, <3>1
  <2>3. CASE i \notin off + 1 .. m
    <3>1. i \in 1 .. off /\ off > 0
      BY <1>1, <2>1, <2>3
    <3>2. new[i] = send[i]
      BY <1>b, <1>1, <1>2, <2>3, <3>1
    <3> QED
      BY <1>a, <2>1, <3>1, <3>2
  <2> QED
    BY <2>2, <2>3
<1>4. \A i \in 1 .. m : (base + took) - m + i \in Nat
  <2> SUFFICES ASSUME NEW i \in 1 .. m PROVE (base + took) - m + i \in Nat
    OBVIOUS
  <2>1. i \in Nat /\ (base + took) - m + i = base - off + i /\ base - off \in Nat
    BY <1>1, <1>2
  <2> QED
    BY <2>1
<1>5. new \in [1 .. m -> Nat]
  <2>1. DOMAIN new = 1 .. m
    BY <1>b, <1>1, <1>2
  <2>2. \A i \in 1 .. m : new[i] \in Nat
    BY <1>3, <1>4
  <2> QED
    BY <1>b, <2>1, <2>2
<1>6. new \in Seq(Nat) /\ Len(new) = m
  BY <1>2, <1>5
<1> QED
  BY <1>1, <1>3, <1>6 DEF HoldsTo

\* The n numbers after m.
Numbers(x, m, n) == n \in Nat /\ x \in [1 .. n -> Nat] /\ \A i \in 1 .. n : x[i] = m + i

LEMMA NumbersWritten ==
  ASSUME NEW s, s \in Seq(Nat), Numbered(s), NEW n, NEW x, Numbers(x, Len(s), n)
  PROVE  s \o x \in Seq(Nat) /\ Len(s \o x) = Len(s) + n /\ Numbered(s \o x)
<1>1. PICK m, t : m = Len(s) /\ t = s \o x
  OBVIOUS
<1>2. x \in [1 .. n -> Nat] /\ n \in Nat /\ \A i \in 1 .. n : x[i] = m + i
  BY <1>1 DEF Numbers
<1>3. m \in Nat /\ DOMAIN s = 1 .. m
  BY <1>1
<1>4. x \in Seq(Nat) /\ Len(x) = n
  BY <1>2
<1>5. /\ t \in Seq(Nat) /\ Len(t) = m + n
      /\ \A i \in 1 .. m + n : t[i] = IF i <= m THEN s[i] ELSE x[i - m]
  <2>1. t \in Seq(Nat)
    BY <1>1, <1>4, ConcatProperties
  <2>2. Len(t) = m + n
    <3>1. Len(s \o x) = Len(s) + Len(x)
      BY <1>4, ConcatProperties
    <3> QED
      BY <1>1, <1>4, <3>1
  <2>3. \A i \in 1 .. Len(s) + Len(x) : (s \o x)[i] = IF i <= Len(s) THEN s[i] ELSE x[i - Len(s)]
    BY <1>4, ConcatProperties
  <2> QED
    BY <1>1, <1>4, <2>1, <2>2, <2>3
<1>6. \A i \in 1 .. m + n : t[i] = i
  <2> SUFFICES ASSUME NEW i \in 1 .. m + n PROVE t[i] = i
    OBVIOUS
  <2>1. CASE i <= m
    <3>1. i \in DOMAIN s
      BY <1>3, <2>1
    <3> QED
      BY <1>5, <2>1, <3>1 DEF Numbered
  <2>2. CASE ~(i <= m)
    <3>1. i - m \in 1 .. n /\ m + (i - m) = i
      BY <1>3, <1>2, <2>2
    <3> QED
      BY <1>5, <1>2, <2>2, <3>1
  <2> QED
    BY <2>1, <2>2
<1>7. DOMAIN t = 1 .. m + n
  BY <1>5
<1> QED
  BY <1>1, <1>5, <1>6, <1>7 DEF Numbered

\* What an application's n bytes do to the buffer that holds off bytes: took of them are
\* taken, x.
Written(p, off, base, n, took, new, x) ==
    /\ n \in 1 .. MaxBytes[p] - base /\ took = Took(off, n)
    /\ out' = [out EXCEPT ![p].fill = off + took, ![p].send = new]
    /\ DOMAIN new = DOMAIN Resized(out[p].send, off + took) /\ new = [i \in DOMAIN new |-> new[i]]
    /\ \A i \in DOMAIN new : new[i] = IF i \in off + 1 .. off + took THEN base + i - off
                                      ELSE Resized(out[p].send, off + took)[i]
    /\ written' = [written EXCEPT ![p] = written[p] \o x]
    /\ x = [i \in DOMAIN x |-> x[i]] /\ DOMAIN x = 1 .. took /\ \A i \in 1 .. took : x[i] = base + i

LEMMA AppWriteIs ==
  ASSUME NEW p \in Sides, AppWrite(p),
         NEW off, off = (IF out[p].fill = MaxFrame THEN 0 ELSE out[p].fill),
         NEW base, base = Len(written[p])
  PROVE  \E n, took, new, x : Written(p, off, base, n, took, new, x)
<1> DEFINE o == IF out[p].fill = MaxFrame THEN 0 ELSE out[p].fill
           b == Len(written[p])
           old(n) == Resized(out[p].send, o + Took(o, n))
           s(n) == [i \in DOMAIN old(n) |-> IF i \in o + 1 .. o + Took(o, n) THEN b + i - o ELSE old(n)[i]]
           y(n) == [i \in 1 .. Took(o, n) |-> b + i]
<1>1. PICK n \in 1 .. MaxBytes[p] - b :
        /\ out' = [out EXCEPT ![p].fill = o + Took(o, n), ![p].send = s(n)]
        /\ written' = [written EXCEPT ![p] = @ \o y(n)]
  BY DEF AppWrite
<1>2. PICK new : new = s(n)
  OBVIOUS
<1>3. PICK x : x = y(n)
  OBVIOUS
<1>4. DOMAIN new = DOMAIN old(n) /\ new = [i \in DOMAIN new |-> new[i]]
      /\ \A i \in DOMAIN new : new[i] = IF i \in o + 1 .. o + Took(o, n) THEN b + i - o ELSE old(n)[i]
  BY <1>2
<1>5. x = [i \in DOMAIN x |-> x[i]] /\ DOMAIN x = 1 .. Took(o, n) /\ \A i \in 1 .. Took(o, n) : x[i] = b + i
  BY <1>3
<1>6. /\ out' = [out EXCEPT ![p].fill = o + Took(o, n), ![p].send = new]
      /\ written' = [written EXCEPT ![p] = written[p] \o x]
  BY <1>1, <1>2, <1>3
<1> HIDE DEF s, y
<1>7. Written(p, off, base, n, Took(off, n), new, x)
  BY <1>1, <1>4, <1>5, <1>6 DEF Written
<1> QED
  BY <1>7

LEMMA AppWriteKeeps ==
  ASSUME NInv, NEW p \in Sides, AppWrite(p)
  PROVE  NInv'
<1>1. PICK q : q = Other(p)
  OBVIOUS
<1>2. q \in Sides /\ Other(q) = p /\ p # q
  BY <1>1, TwoSides
<1>3. /\ Typed /\ Hand(p) /\ Flow(p) /\ Flow(q) /\ Cargo(p) /\ Open(p)
      /\ UNCHANGED <<setup, wire, link, broken, r, hs, peer, read>>
  BY <1>1, <1>2 DEF NInv, AppWrite
<1>4. PICK off, base, send : /\ off = (IF out[p].fill = MaxFrame THEN 0 ELSE out[p].fill)
                             /\ base = Len(written[p]) /\ send = out[p].send
  OBVIOUS
<1>5. Buffered(p)
  BY DEF AppWrite
<1>6. PICK n, took, new, more : Written(p, off, base, n, took, new, more)
  BY <1>4, AppWriteIs
<1>7. /\ out' = [out EXCEPT ![p].fill = off + took, ![p].send = new]
      /\ written' = [written EXCEPT ![p] = written[p] \o more]
      /\ n \in 1 .. MaxBytes[p] - base /\ took = Took(off, n)
  BY <1>6 DEF Written
<1>8. /\ out[p] \in Buffers /\ send \in Seq(Nat) /\ out[p].fill \in Nat /\ written[p] \in Seq(Nat)
      /\ base \in Nat /\ Len(send) \in Nat /\ Len(frames[p]) \in Nat
  <2>1. out[p] \in Buffers /\ written[p] \in Seq(Nat) /\ frames[p] \in Seq(Payloads)
    BY <1>3 DEF Typed
  <2>2. send \in Seq(Nat) /\ out[p].fill \in Nat
    BY <1>4, <2>1 DEF Buffers
  <2> QED
    BY <1>4, <2>1, <2>2
<1>9. out[p].fill <= base /\ out[p].fill <= Len(send) /\ Len(send) <= MaxFrame
  BY <1>3, <1>4 DEF Cargo
<1>10. off \in Nat /\ off < MaxFrame /\ off <= base /\ off <= Len(send)
  <2>1. CASE out[p].fill = MaxFrame
    BY <1>4, <1>8, <2>1, Constants
  <2>2. CASE out[p].fill # MaxFrame
    <3>1. off = out[p].fill
      BY <1>4, <2>2
    <3> QED
      BY <1>8, <1>9, <2>2, <3>1, Constants
  <2> QED
    BY <2>1, <2>2
<1>11. took \in Nat /\ took >= 1 /\ off + took <= MaxFrame
  <2>1. n \in Nat /\ n >= 1
    <3>1. MaxBytes[p] \in Nat
      BY Constants
    <3> QED
      BY <1>7, <1>8, <3>1
  <2> QED
    BY <1>7, <1>10, <2>1, Constants DEF Took
<1>12. /\ new \in Seq(Nat) /\ Len(new) = off + took
       /\ \A i \in 1 .. off + took : new[i] = (base + took) - (off + took) + i
  <2>1. off > 0 => \A i \in 1 .. off : send[i] = base - off + i
    <3>1. off > 0 => off = out[p].fill
      BY <1>4
    <3>2. out[p].fill > 0 => \A i \in 1 .. out[p].fill : send[i] = base - out[p].fill + i
      BY <1>3, <1>4 DEF Cargo
    <3> QED
      BY <3>1, <3>2
  <2>2. /\ DOMAIN new = DOMAIN Resized(send, off + took) /\ new = [i \in DOMAIN new |-> new[i]]
        /\ \A i \in DOMAIN new : new[i] = IF i \in off + 1 .. off + took THEN base + i - off
                                          ELSE Resized(send, off + took)[i]
    BY <1>4, <1>6 DEF Written
  <2>3. Earlier(send, off, base) /\ Renewed(new, send, off, took, base)
    BY <2>1, <2>2 DEF Earlier, Renewed
  <2>4. HoldsTo(new, off + took, base + took)
    BY <1>8, <1>10, <1>11, <2>3, BufferGrown
  <2> QED
    BY <2>4 DEF HoldsTo
<1>13. /\ out' \in [Sides -> Buffers] /\ out'[q] = out[q]
       /\ out'[p].fill = off + took /\ out'[p].send = new
       /\ out'[p].recv = out[p].recv /\ out'[p].taken = out[p].taken
  <2>1. out'[p] = [out[p] EXCEPT !.fill = off + took, !.send = new] /\ out'[q] = out[q]
    BY <1>2, <1>3, <1>7 DEF Typed, Buffers
  <2>2. /\ out'[p] \in Buffers /\ out'[p].fill = off + took /\ out'[p].send = new
        /\ out'[p].recv = out[p].recv /\ out'[p].taken = out[p].taken
    <3>1. PICK o, o2, f : o = out[p] /\ o2 = out'[p] /\ f = off + took
      OBVIOUS
    <3>2. o \in Buffers /\ f \in Nat /\ o2 = [o EXCEPT !.fill = f, !.send = new]
      BY <1>8, <1>10, <1>11, <2>1, <3>1
    <3>3. o2 \in Buffers /\ o2.fill = f /\ o2.send = new /\ o2.recv = o.recv /\ o2.taken = o.taken
      BY <1>12, <3>2 DEF Buffers
    <3> QED
      BY <3>1, <3>3
  <2>3. DOMAIN out' = Sides /\ out' = [y \in Sides |-> out'[y]]
    BY <1>3, <1>7 DEF Typed
  <2>4. \A y \in Sides : out'[y] \in Buffers
    BY <1>2, <1>3, <2>1, <2>2, TwoSides DEF Typed
  <2>5. out' \in [Sides -> Buffers]
    BY <2>3, <2>4
  <2> QED
    BY <2>1, <2>2, <2>5
<1>14. written'[p] = written[p] \o more /\ written'[q] = written[q]
  BY <1>2, <1>3, <1>7 DEF Typed
<1>15. written'[p] \in Seq(Nat) /\ Len(written'[p]) = base + took /\ Numbered(written'[p])
  <2>1. DOMAIN more = 1 .. took /\ more = [i \in DOMAIN more |-> more[i]] /\ \A i \in 1 .. took : more[i] = base + i
    BY <1>6 DEF Written
  <2>2. Numbered(written[p])
    BY <1>3 DEF Cargo
  <2>3. PICK s : s = written[p]
    OBVIOUS
  <2>4. s \in Seq(Nat) /\ Numbered(s) /\ base = Len(s) /\ written'[p] = s \o more
    BY <1>4, <1>8, <1>14, <2>2, <2>3
  <2>5. Numbers(more, Len(s), took)
    <3>1. \A i \in 1 .. took : base + i \in Nat
      BY <1>8, <1>11
    <3>2. more \in [1 .. took -> Nat]
      BY <2>1, <3>1
    <3> QED
      BY <1>11, <2>1, <2>4, <3>2 DEF Numbers
  <2> QED
    BY <2>4, <2>5, NumbersWritten
<1>16. written' \in [Sides -> Seq(Nat)]
  <2>1. written' = [written EXCEPT ![p] = written'[p]]
    BY <1>3, <1>7, <1>14 DEF Typed
  <2> QED
    BY <1>3, <1>15, <2>1 DEF Typed
<1>17. Len(frames[p]) >= Len(Hello(p)) /\ Hello(p)' = Hello(p)
  BY <1>3, EstablishedIs, SetupKept DEF Open, Upgraded
\* Whether a frame is sent or not, the frames end where the buffer begins.
<1>18. /\ Typed' /\ Flow(p)' /\ Flow(q)' /\ Longer(p) /\ Longer(q)
       /\ frames'[q] = frames[q] /\ w'[q] = w[q] /\ (w'[p].state = "Eof" => w[p].state = "Eof")
       /\ \A k \in DOMAIN frames'[p] : k > Len(Hello(p))' =>
              \A i \in DOMAIN frames'[p][k].bytes : frames'[p][k].bytes[i] = EndOf(p, k - 1)' + i
       /\ \A k \in 0 .. Len(frames'[p]) : EndOf(p, k)' \in Nat /\ EndOf(p, k)' <= base - off
       /\ EndOf(p, Len(frames[p]))' = base - off
  <2>1. CASE out[p].fill = MaxFrame
    <3>1. PICK x : x = Data(send)
      OBVIOUS
    <3>2. out[p].fill > 0 /\ StartSend(p, Data(out[p].send)) /\ off = 0 /\ base - off = base
      BY <1>4, <1>5, <1>8, <2>1, Constants DEF Buffered
    <3>3. /\ x \in Payloads /\ Sendable(p, x) /\ StartSend(p, x)
          /\ \A k \in DOMAIN frames'[p] : k > Len(Hello(p))' =>
                 \A i \in DOMAIN frames'[p][k].bytes : frames'[p][k].bytes[i] = EndOf(p, k - 1)' + i
          /\ \A k \in 0 .. Len(frames'[p]) : EndOf(p, k)' \in Nat /\ EndOf(p, k)' <= base
          /\ EndOf(p, Len(frames[p]))' = base
      BY <1>3, <1>4, <1>17, <3>1, <3>2, CargoSealed
    <3>4. /\ frames' \in [Sides -> Seq(Payloads)] /\ w' \in [Sides -> Writers]
          /\ frames'[q] = frames[q] /\ w'[q] = w[q] /\ w'[p].state = "WriteLen"
          /\ Longer(p) /\ Longer(q)
      BY <1>1, <1>3, <3>3, SealIs
    <3>5. Typed'
      BY <1>3, <1>13, <1>16, <3>4 DEF Typed
    <3>6. Flow(p)' /\ Flow(q)'
      BY <1>1, <1>3, <3>3, <3>5, SealFlow
    <3> QED
      BY <3>2, <3>3, <3>4, <3>5, <3>6
  <2>2. CASE out[p].fill # MaxFrame
    <3>1. UNCHANGED <<frames, w>> /\ off = out[p].fill
      BY <1>4, <1>5, <2>2 DEF Buffered
    <3>2. Typed'
      BY <1>3, <1>13, <1>16, <3>1 DEF Typed
    <3>3. \A x \in Sides : Flow(x)'
      BY <1>1, <1>3, <3>1, <3>2, FlowSame, TwoSides DEF SameReader
    <3>4. Longer(p) /\ Longer(q)
      BY <1>2, <1>3, <3>1, LongerSame
    <3>5. \A k : EndOf(p, k)' = EndOf(p, k)
      BY <1>17, <3>1 DEF EndOf
    <3>6. EndOf(p, Len(frames[p]))' = EndOf(p, Len(frames[p]))
      BY <1>17, <3>1 DEF EndOf
    <3>7. /\ \A k \in DOMAIN frames'[p] : k > Len(Hello(p))' =>
                 \A i \in DOMAIN frames'[p][k].bytes : frames'[p][k].bytes[i] = EndOf(p, k - 1)' + i
          /\ \A k \in 0 .. Len(frames'[p]) : EndOf(p, k)' \in Nat /\ EndOf(p, k)' <= base - off
          /\ EndOf(p, Len(frames[p]))' = base - off
      BY <1>3, <1>4, <1>17, <3>1, <3>5, <3>6 DEF Cargo
    <3> QED
      BY <1>2, <3>1, <3>2, <3>3, <3>4, <3>7
  <2> QED
    BY <2>1, <2>2
<1>19. Cargo(p)'
  <2>1. PICK m, f : m = base + took /\ f = off + took
    OBVIOUS
  <2>2. /\ m - f = base - off /\ f <= m /\ f <= Len(new) /\ Len(new) <= MaxFrame /\ Len(new) = f
        /\ \A i \in 1 .. f : new[i] = m - f + i
    <3>1. base + took - (off + took) = base - off /\ off + took <= base + took
      BY <1>8, <1>10, <1>11
    <3> QED
      BY <1>8, <1>10, <1>11, <1>12, <2>1, <3>1, Constants
  <2>3. Len(written'[p]) = m /\ out'[p].fill = f /\ out'[p].send = new /\ Numbered(written[p])'
    BY <1>13, <1>15, <2>1 DEF Numbered
  <2> QED
    BY <1>18, <2>2, <2>3 DEF Cargo
<1>20. Hand(p)' /\ ~hs[p].closed
  BY <1>1, <1>3, <1>13, <1>18, WriterHand
<1> QED
  BY <1>1, <1>3, <1>13, <1>14, <1>18, <1>19, <1>20, SenderKeeps

-----------------------------------------------------------------------------
(* A connection that is reset.                                             *)

LEMMA ResetKeeps ==
  ASSUME NInv, Reset
  PROVE  NInv'
<1>1. /\ Typed /\ \A x \in Sides : Len(wire[x]) <= Room /\ Cargo(x)
      /\ \A x \in Sides : Flow(x) /\ Unpacked(Other(x), x) /\ Hand(x)
  BY DEF NInv
<1>2. /\ \A x \in Sides : wire'[x] = <<>> /\ link'[x] = "shut" /\ broken'[x] = "due"
      /\ UNCHANGED <<setup, frames, w, r, hs, out, peer, written, read>>
  BY DEF Reset, app
<1>3. Typed'
  <2>1. wire' \in [Sides -> Seq(Bytes)]
    <3>1. <<>> \in Seq(Bytes)
      OBVIOUS
    <3> QED
      BY <3>1 DEF Reset
  <2>2. link' \in [Sides -> {"open", "shut"}] /\ broken' \in [Sides -> {"no", "due", "told"}]
    BY DEF Reset
  <2> QED
    BY <1>1, <1>2, <2>1, <2>2 DEF Typed
<1>4. \A x \in Sides : Longer(x) /\ Len(frames[x]) \in Nat
  BY <1>1, <1>2, LongerSame
<1>5. ASSUME NEW x \in Sides
      PROVE  Len(wire'[x]) <= Room /\ Flow(x)' /\ Cargo(x)' /\ Unpacked(Other(x), x)' /\ Hand(x)'
  <2>1. PICK y \in Sides : y = Other(x)
    BY TwoSides
  <2>2. Len(wire'[x]) = 0 /\ DOMAIN wire'[x] = {} /\ wire'[x] = <<>>
    BY <1>2
  <2>3. Hello(x)' = Hello(x)
    BY <1>2, SetupKept
  <2>4. Framed(x)' /\ WriterAt(x)' /\ ReaderAt(x, y)'
    BY <1>1, <1>2, <2>1, <2>3 DEF Flow, Framed, WriterAt, ReaderAt
  <2>5. OnWire(x)' /\ Meets(x, y)' /\ ~Writing(x)'
    BY <1>2, <2>2 DEF OnWire, Meets, Writing
  <2>6. Flow(x)'
    BY <2>1, <2>4, <2>5 DEF Flow
  <2>7. Cargo(x)'
    BY <1>1, <1>2, CargoKept
  <2>8. Unpacked(y, x)'
    <3>1. Flow(y) /\ Unpacked(y, x)
      BY <1>1, <2>1
    <3>2. r[x].opened <= Len(frames[y])
      BY <1>1, <2>1, <3>1, OpenedIs
    <3> QED
      BY <1>1, <1>2, <1>4, <3>1, <3>2, UnpackedKept
  <2>9. SameHand(x) /\ SameEnd(x)
    BY <1>2, <1>4, TwoSides DEF SameHand, SameEnd, Readable
  <2>10. Hand(x)'
    BY <1>1, <1>2, <1>3, <2>9, HandKept
  <2> QED
    BY <2>1, <2>2, <2>6, <2>7, <2>8, <2>10, Constants
<1>6. Reason'
  BY <1>2 DEF Reason, Sides
<1>7. BothBroken'
  BY <1>2 DEF BothBroken
<1> QED
  BY <1>3, <1>5, <1>6, <1>7 DEF NInv, Explained

-----------------------------------------------------------------------------
(* The invariant.                                                          *)

LEMMA NInvInit ==
  Init => NInv
<1> SUFFICES ASSUME Init PROVE NInv
  OBVIOUS
<1>1. None \in Items /\ None.kind = "none"
  BY DEF None, Items
<1>2. WReady \in Writers /\ WReady.state = "Ready"
  BY DEF WReady, Writers
<1>3. /\ RReady \in Readers /\ RReady.state = "ReadLen" /\ RReady.buf = <<>> /\ RReady.opened = 0
      /\ RReady.item = None
  BY <1>1 DEF RReady, Readers
<1>4. setup \in Setups
  BY DEF Init
<1>5. \A p \in Sides : Upgrade(p).expects \in Names /\ Len(Upgrade(p).script) \in Nat
  <2> SUFFICES ASSUME NEW p \in Sides
               PROVE  Upgrade(p).expects \in Names /\ Len(Upgrade(p).script) \in Nat
    OBVIOUS
  <2>1. setup.pattern \in {"IK", "IX", "XX"} /\ setup.expected \in Names
    BY <1>4, ConstantsAssumption DEF AllSetups, Names, Sides
  <2>2. CASE setup.pattern = "IX"
    BY <2>1, <2>2 DEF Upgrade, IX, Names, RoundTrip
  <2>3. CASE setup.pattern = "XX"
    BY <2>1, <2>3 DEF Upgrade, XX, Names, OneAndAHalf
  <2>4. CASE setup.pattern = "IK"
    BY <2>1, <2>4 DEF Upgrade, IK, Names, RoundTrip
  <2> QED
    BY <2>1, <2>2, <2>3, <2>4
<1>6. hs \in [Sides -> Hands]
  BY <1>5, SignatureIs, TwoSides DEF Init, Hands
<1>7. out \in [Sides -> Buffers]
  BY DEF Init, Buffers
<1>8. Typed
  <2>1. wire \in [Sides -> Seq(Bytes)] /\ frames \in [Sides -> Seq(Payloads)]
    BY DEF Init
  <2>2. written \in [Sides -> Seq(Nat)] /\ read \in [Sides -> Seq(Nat)]
    BY DEF Init
  <2>3. w \in [Sides -> Writers] /\ r \in [Sides -> Readers]
    BY <1>2, <1>3 DEF Init
  <2>4. /\ link \in [Sides -> {"open", "shut"}] /\ broken \in [Sides -> {"no", "due", "told"}]
        /\ peer \in [Sides -> Names]
    BY TwoSides DEF Init
  <2> QED
    BY <1>4, <1>6, <1>7, <2>1, <2>2, <2>3, <2>4 DEF Typed
<1>9. ASSUME NEW p \in Sides
      PROVE  /\ Len(wire[p]) <= Room /\ Flow(p) /\ Cargo(p) /\ Unpacked(Other(p), p) /\ Hand(p)
             /\ Sound(p)
  <2>1. PICK q \in Sides : q = Other(p)
    BY TwoSides
  <2>2. /\ wire[p] = <<>> /\ frames[p] = <<>> /\ frames[q] = <<>> /\ w[p] = WReady /\ r[p] = RReady
        /\ r[q] = RReady
        /\ written[p] = <<>> /\ read[p] = <<>> /\ link[p] = "open" /\ broken[p] = "no"
        /\ peer[p] = Nobody /\ DOMAIN frames[p] = {} /\ DOMAIN wire[p] = {}
    BY DEF Init
  <2>3. /\ out[p].send = <<>> /\ out[p].fill = 0 /\ out[p].recv = <<>> /\ out[p].taken = 0
        /\ hs[p].step = 1 /\ hs[p].sent = FALSE /\ hs[p].state = "going" /\ hs[p].closed = FALSE
        /\ hs[p].key = Upgrade(p).expects /\ hs[p].sig = NoSignature
    BY DEF Init
  <2>4. Len(Hello(p)) \in Nat /\ Len(Hello(q)) \in Nat
    BY <1>8, HelloIs
  <2>5. \A k : k <= Len(Hello(p)) => EndOf(p, k) = 0
    BY DEF EndOf
  <2>6. \A k : k <= Len(Hello(q)) => EndOf(q, k) = 0
    BY DEF EndOf
  <2>7. Flow(p)
    <3>1. Framed(p) /\ OnWire(p) /\ WriterAt(p)
      BY <1>2, <2>2 DEF Framed, OnWire, WriterAt
    <3>2. ReaderAt(p, q) /\ Meets(p, q)
      BY <1>2, <1>3, <2>2 DEF ReaderAt, Meets, OutFrame, OutAt, InFrame, InAt
    <3> QED
      BY <2>1, <3>1, <3>2 DEF Flow
  <2>8. Cargo(p)
    <3>1. \A k \in 0 .. 0 : EndOf(p, k) = 0
      BY <2>4, <2>5
    <3> QED
      BY <2>2, <2>3, <3>1, Constants DEF Cargo, Numbered
  <2>9. Used(p) = 0
    BY <1>1, <1>3, <2>2 DEF Used
  <2>10. Unpacked(q, p)
    <3>1. EndOf(q, 0) = 0
      BY <2>4, <2>6
    <3> QED
      BY <1>1, <1>3, <2>2, <2>3, <2>9, <3>1 DEF Unpacked, Numbered
  <2>11. Hand(p)
    <3>1. Sends(p, 1) = 0 /\ Recvs(p, 1) = 0 /\ ~Knows(p, 1)
      BY DEF Sends, Recvs, Knows
    <3>2. InHandshake(p)
      BY <1>1, <1>3, <1>5, <2>2, <2>3, <2>9, <3>1 DEF InHandshake
    <3> QED
      BY <1>1, <1>3, <2>2, <2>3, <3>2 DEF Hand, Readable
  <2>12. Sound(p)
    BY <1>1, <1>2, <1>3, <2>2, <2>3 DEF Sound
  <2> QED
    BY <2>1, <2>2, <2>7, <2>8, <2>10, <2>11, <2>12, Constants
<1>10. BothBroken
  BY TwoSides DEF Init, BothBroken
<1> QED
  BY <1>8, <1>9, <1>10 DEF NInv, Explained

LEMMA StutterKeeps ==
  ASSUME NInv, UNCHANGED vars
  PROVE  NInv'
<1>1. /\ Typed /\ BothBroken /\ Explained
      /\ \A p \in Sides : Len(wire[p]) <= Room /\ Flow(p) /\ Cargo(p) /\ Unpacked(Other(p), p) /\ Hand(p)
  BY DEF NInv
<1>2. UNCHANGED <<setup, wire, link, broken, frames, w, r, hs, out, peer, written, read>>
  BY DEF vars
<1>3. Typed'
  BY <1>1, <1>2 DEF Typed
<1>4. \A p \in Sides : Longer(p) /\ Len(frames[p]) \in Nat
  BY <1>1, <1>2, LongerSame
<1>5. \A p \in Sides : Flow(p)'
  <2>1. \A p \in Sides : SameReader(p)
    BY <1>2 DEF SameReader
  <2> QED
    BY <1>1, <1>2, <1>3, <2>1, FlowSame
<1>6. ASSUME NEW p \in Sides
      PROVE  Cargo(p)' /\ Unpacked(Other(p), p)' /\ Hand(p)' /\ (Sound(p) => Sound(p)')
  <2>1. PICK q \in Sides : q = Other(p) /\ Other(q) = p
    BY TwoSides
  <2>2. Cargo(p)'
    BY <1>1, <1>2, CargoKept
  <2>3. Unpacked(q, p)'
    <3>1. r[p].opened <= Len(frames[q])
      BY <1>1, <2>1, OpenedIs
    <3> QED
      BY <1>1, <1>2, <1>4, <2>1, <3>1, UnpackedKept
  <2>4. Hand(p)'
    <3>1. SameHand(p)
      BY <1>2, <1>4 DEF SameHand, Readable
    <3>2. SameEnd(p)
      BY <1>2 DEF SameEnd
    <3> QED
      BY <1>1, <1>2, <1>3, <3>1, <3>2, HandKept
  <2>5. Sound(p) => Sound(p)'
    BY <1>2 DEF Sound, Going
  <2> QED
    BY <2>1, <2>2, <2>3, <2>4, <2>5
<1>7. Explained'
  <2>1. Reason => Reason'
    BY <1>2, ReasonKept
  <2> QED
    BY <1>1, <1>6, <2>1 DEF Explained
<1>8. BothBroken' /\ \A p \in Sides : Len(wire'[p]) <= Room
  BY <1>1, <1>2 DEF BothBroken
<1> QED
  BY <1>3, <1>5, <1>6, <1>7, <1>8 DEF NInv

LEMMA NInvNext ==
  NInv /\ [Next]_vars => NInv'
<1> SUFFICES ASSUME NInv, [Next]_vars PROVE NInv'
  OBVIOUS
<1>1. ASSUME NEW p \in Sides, Framing(p) PROVE NInv'
  BY <1>1, WriteSomeKeeps, WriteEofKeeps, ReadLenKeeps, ReadDataKeeps, ReadEofKeeps, ReadResetKeeps
     DEF Framing
<1>2. ASSUME NEW p \in Sides, Handshake(p) PROVE NInv'
  BY <1>2, SendKeeps, SentKeeps, RecvKeeps, FinishKeeps DEF Handshake
<1>3. ASSUME NEW p \in Sides, Stream(p) PROVE NInv'
  BY <1>3, AppWriteKeeps, FlushKeeps, CloseKeeps, RefillKeeps, AppReadKeeps DEF Stream
<1> QED
  BY <1>1, <1>2, <1>3, EndKeeps, ResetKeeps, StutterKeeps DEF Next

(***************************************************************************)
(* The invariant: whatever the two ends' polls interleave with, the bytes  *)
(* under way are those between the places of the writer and of the reader  *)
(* (framed.rs poll_ready, poll_next), what was read are the numbers up to  *)
(* what the reader has used (io.rs poll_read), the handshakes count the    *)
(* frames of both ends, and what failed has a reason.                      *)
(***************************************************************************)
THEOREM ChannelInvariant == Spec => []NInv
  BY NInvInit, NInvNext, PTL DEF Spec

-----------------------------------------------------------------------------
(* What follows.                                                           *)

LEMMA NInvTypes ==
  NInv => TypeOK
<1> SUFFICES ASSUME NInv PROVE TypeOK
  OBVIOUS
<1>1. /\ Typed
      /\ \A p \in Sides : Len(wire[p]) <= Room /\ Flow(p) /\ Cargo(p) /\ Unpacked(Other(p), p) /\ Hand(p)
  BY DEF NInv
<1>2. peer \in [Sides -> Sides \cup {Nobody, "stranger"}]
  BY <1>1 DEF Typed, Names
<1>3. ASSUME NEW p \in Sides
      PROVE  /\ Len(wire[p]) <= Room
             /\ w[p].state \in {"Ready", "WriteLen", "WriteData", "Eof"}
             /\ r[p].state \in {"ReadLen", "ReadData", "EofOk", "EofErr", "DecErr"}
             /\ r[p].state = "ReadData" => Len(r[p].buf) < r[p].len /\ r[p].len < Width
             /\ out[p].fill <= Len(out[p].send) /\ Len(out[p].send) <= MaxFrame
             /\ out[p].taken <= Len(out[p].recv) \/ out[p].recv = <<>>
  <2>1. PICK q \in Sides : q = Other(p) /\ Other(q) = p
    BY TwoSides
  <2>2. Flow(q) /\ Framed(q) /\ ReaderAt(q, p)
    BY <1>1, <2>1 DEF Flow
  <2>3. w[p] \in Writers /\ r[p] \in Readers /\ out[p] \in Buffers
    BY <1>1 DEF Typed
  <2>4. w[p].state \in {"Ready", "WriteLen", "WriteData", "Eof"}
    BY <2>3 DEF Writers
  <2>5. r[p].state \in {"ReadLen", "ReadData", "EofOk", "EofErr", "DecErr"}
    BY <2>3 DEF Readers
  <2>6. r[p].state = "ReadData" => Len(r[p].buf) < r[p].len /\ r[p].len < Width
    <3> SUFFICES ASSUME r[p].state = "ReadData"
                 PROVE  Len(r[p].buf) < r[p].len /\ r[p].len < Width
      OBVIOUS
    <3>1. /\ r[p].opened + 1 \in DOMAIN frames[q]
          /\ r[p].len = Length(frames[q][r[p].opened + 1])
          /\ Len(r[p].buf) < r[p].len
      BY <2>2 DEF ReaderAt
    <3> QED
      BY <1>1, <2>2, <3>1, LengthIs
  <2>7. out[p].fill <= Len(out[p].send) /\ Len(out[p].send) <= MaxFrame
    BY <1>1 DEF Cargo
  <2>8. out[p].taken <= Len(out[p].recv) \/ out[p].recv = <<>>
    <3>1. out[p].recv \in Seq(Nat) /\ out[p].taken \in Nat /\ Len(out[p].recv) \in Nat
      BY <2>3 DEF Buffers
    <3>2. Unpacked(q, p)
      BY <1>1, <2>1
    <3> QED
      BY <3>1, <3>2 DEF Unpacked
  <2> QED
    BY <1>1, <2>4, <2>5, <2>6, <2>7, <2>8
<1> QED
  BY <1>1, <1>2, <1>3 DEF TypeOK, Typed

(***************************************************************************)
(* Offsets and buffers are within the frames they belong to, and lengths   *)
(* within what two bytes hold (framed.rs, io.rs).                          *)
(***************************************************************************)
THEOREM ChannelTypes == Spec => []TypeOK
  BY ChannelInvariant, NInvTypes, PTL

(***************************************************************************)
(* No frame fails to open: whatever parts the sockets take and give, what  *)
(* is buffered when a length or a frame is complete are the bytes of the   *)
(* frame that is expected (framed.rs, DecErr).                             *)
(***************************************************************************)
THEOREM FramesOpen == Spec => []NeverGarbled
<1>1. NInv => NeverGarbled
  <2> SUFFICES ASSUME NInv, NEW p \in Sides PROVE r[p].state # "DecErr"
    BY DEF NeverGarbled
  <2>1. PICK q \in Sides : q = Other(p) /\ Other(q) = p
    BY TwoSides
  <2> QED
    BY <2>1 DEF NInv, Flow, ReaderAt
<1> QED
  BY <1>1, ChannelInvariant, PTL

(***************************************************************************)
(* An upgrade that fails has a reason outside of the protocol: the end of  *)
(* a process, a reset, an unexpected or unlisted peer, or a payload in a   *)
(* format that is not understood (handshake.rs, mod.rs).                   *)
(***************************************************************************)
THEOREM FailuresHaveReasons == Spec => []FailsForAReason
<1>1. NInv => FailsForAReason
  BY DEF NInv, Explained, Reason, Sound, FailsForAReason
<1> QED
  BY <1>1, ChannelInvariant, PTL

\* What an end has read is no more than what it has used of the frames the other sealed.
LEMMA ReadSoFar ==
  ASSUME NInv, NEW p \in Sides, NEW q, q = Other(p)
  PROVE  /\ read[p] \in Seq(Nat) /\ written[q] \in Seq(Nat)
         /\ Numbered(read[p]) /\ Numbered(written[q])
         /\ Len(read[p]) <= Len(written[q])
<1>1. q \in Sides /\ Other(q) = p
  BY TwoSides
<1>2. Typed /\ Cargo(q) /\ Unpacked(q, p) /\ Flow(q)
  BY <1>1 DEF NInv
<1>3. read[p] \in Seq(Nat) /\ written[q] \in Seq(Nat) /\ Len(read[p]) \in Nat /\ Len(written[q]) \in Nat
  <2>1. read[p] \in Seq(Nat) /\ written[q] \in Seq(Nat)
    BY <1>1, <1>2 DEF Typed
  <2> QED
    BY <2>1
<1>4. r[p].opened \in Nat /\ r[p].opened <= Len(frames[q]) /\ Len(frames[q]) \in Nat
      /\ DOMAIN frames[q] = 1 .. Len(frames[q])
  BY <1>1, <1>2, OpenedIs
<1>5. out[q].fill \in Nat /\ out[p].taken \in Nat /\ out[p].recv \in Seq(Nat)
  BY <1>1, <1>2 DEF Typed, Buffers
<1>6. \A k \in 0 .. Len(frames[q]) : EndOf(q, k) \in Nat /\ EndOf(q, k) <= Len(written[q])
  BY <1>2, <1>3, <1>5 DEF Cargo
<1>7. CASE out[p].recv = <<>>
  <2>1. Used(p) \in 0 .. Len(frames[q])
    BY <1>2, <1>4 DEF Used, Unpacked
  <2>2. Len(read[p]) = EndOf(q, Used(p))
    BY <1>2, <1>7 DEF Unpacked
  <2> QED
    BY <1>2, <1>3, <1>6, <2>1, <2>2 DEF Cargo, Unpacked
<1>8. CASE out[p].recv # <<>>
  <2>1. PICK k : k = r[p].opened
    OBVIOUS
  <2>2. /\ k \in DOMAIN frames[q] /\ k > Len(Hello(q)) /\ out[p].recv = frames[q][k].bytes
        /\ out[p].taken < Len(out[p].recv)
        /\ Len(read[p]) = EndOf(q, k - 1) + out[p].taken
    BY <1>2, <1>8, <2>1 DEF Unpacked
  <2>3. Len(out[p].recv) \in Nat /\ Len(out[p].recv) >= 1
    BY <1>5, <2>2
  <2>4. Len(Hello(q)) \in Nat /\ k \in Nat /\ k >= 1 /\ k <= Len(frames[q])
    BY <1>1, <1>2, <1>4, <2>2, HelloIs
  <2>5. EndOf(q, k) = frames[q][k].bytes[Len(frames[q][k].bytes)]
    BY <2>2, <2>4 DEF EndOf
  <2>6. frames[q][k].bytes[Len(frames[q][k].bytes)] = EndOf(q, k - 1) + Len(out[p].recv)
    <3>1. Len(out[p].recv) \in DOMAIN out[p].recv
      BY <1>5, <2>3
    <3> QED
      BY <1>2, <2>2, <3>1 DEF Cargo
  <2>7. EndOf(q, k - 1) \in Nat /\ EndOf(q, k) <= Len(written[q])
    BY <1>6, <2>4
  <2>8. Len(read[p]) <= Len(written[q])
    <3>1. PICK e, a, b, m : /\ e = EndOf(q, k - 1) /\ a = out[p].taken /\ b = Len(out[p].recv)
                            /\ m = Len(written[q])
      OBVIOUS
    <3>2. /\ e \in Nat /\ a \in Nat /\ b \in Nat /\ m \in Nat /\ a < b
          /\ e + b <= m /\ Len(read[p]) = e + a
      BY <1>3, <1>5, <2>2, <2>3, <2>5, <2>6, <2>7, <3>1
    <3> QED
      BY <3>1, <3>2
  <2> QED
    BY <1>2, <1>3, <2>8 DEF Cargo, Unpacked
<1> QED
  BY <1>7, <1>8

\* Sequences of numbers from 1 on are told apart by their lengths.
LEMMA NumberedPrefix ==
  ASSUME NEW s \in Seq(Nat), NEW t \in Seq(Nat), Numbered(s), Numbered(t), Len(s) <= Len(t)
  PROVE  IsPrefix(s, t) /\ (Len(s) = Len(t) => s = t) /\ (Len(s) < Len(t) => IsStrictPrefix(s, t))
<1>1. Len(s) \in Nat /\ Len(t) \in Nat /\ DOMAIN s = 1 .. Len(s) /\ DOMAIN t = 1 .. Len(t)
  OBVIOUS
<1>2. SubSeq(s, 1, Len(s)) = SubSeq(t, 1, Len(s))
  <2>1. \A i \in 1 .. Len(s) : s[i] = t[i]
    BY <1>1 DEF Numbered
  <2> QED
    BY <1>1, <2>1
<1>3. Len(s) = Len(t) => s = t
  <2> SUFFICES ASSUME Len(s) = Len(t) PROVE s = t
    OBVIOUS
  <2>1. \A i \in 1 .. Len(s) : s[i] = t[i]
    BY <1>1 DEF Numbered
  <2> QED
    BY <1>1, <2>1, SeqEqual
<1>4. Len(s) < Len(t) => s # t
  BY <1>1
<1> QED
  BY <1>2, <1>3, <1>4 DEF IsPrefix, IsStrictPrefix

LEMMA NInvCloses ==
  NInv => CloseDelivers
<1> SUFFICES ASSUME NInv, NEW p \in Sides, hs[p].state = "eof", hs[Other(p)].closed, broken[p] = "no"
             PROVE  read[p] = written[Other(p)]
  BY DEF CloseDelivers
<1>1. PICK q \in Sides : q = Other(p) /\ Other(q) = p
  BY TwoSides
<1>2. Cargo(q) /\ Unpacked(q, p) /\ Hand(p) /\ Hand(q)
  BY <1>1 DEF NInv
<1>3. r[p].opened = Len(frames[q]) /\ out[p].recv = <<>> /\ r[p].item.kind = "none"
  BY <1>1, <1>2 DEF Hand
<1>4. out[q].fill = 0
  BY <1>1, <1>2 DEF Hand
<1>5. Len(read[p]) = EndOf(q, Len(frames[q]))
  BY <1>2, <1>3 DEF Unpacked, Used
<1>6. EndOf(q, Len(frames[q])) = Len(written[q]) - 0
  BY <1>2, <1>4 DEF Cargo
<1>7. /\ read[p] \in Seq(Nat) /\ written[q] \in Seq(Nat)
      /\ Numbered(read[p]) /\ Numbered(written[q])
  BY <1>1, ReadSoFar
<1>8. PICK s, t : s = read[p] /\ t = written[q]
  OBVIOUS
<1>9. s \in Seq(Nat) /\ t \in Seq(Nat) /\ Numbered(s) /\ Numbered(t)
  BY <1>7, <1>8
<1>10. Len(s) = Len(t) /\ Len(s) <= Len(t)
  BY <1>5, <1>6, <1>8, <1>9
<1>11. s = t
  BY <1>9, <1>10, NumberedPrefix
<1> QED
  BY <1>1, <1>8, <1>11

(***************************************************************************)
(* Closing delivers: who reads up to the end of a connection that the      *)
(* other end closed has read everything it wrote, however the bytes were   *)
(* cut into frames and the frames into parts (io.rs poll_close).           *)
(***************************************************************************)
THEOREM ClosingDelivers == Spec => []CloseDelivers
  BY ChannelInvariant, NInvCloses, PTL

-----------------------------------------------------------------------------
(* The secure channel.                                                     *)

LEMMA SCSame ==
  /\ \A p : SC!Other(p) = Other(p)
  /\ \A s, t : IsPrefix(s, t) => SC!IsPrefix(s, t)
  /\ \A s, t : IsStrictPrefix(s, t) => SC!IsStrictPrefix(s, t)
<1>1. \A p : SC!Other(p) = Other(p)
  BY DEF SC!Other, Other
<1>2. \A s, t : IsPrefix(s, t) => SC!IsPrefix(s, t)
  BY Zenon DEF IsPrefix, SC!IsPrefix
<1>3. \A s, t : IsStrictPrefix(s, t) => SC!IsStrictPrefix(s, t)
  BY <1>2, Zenon DEF IsStrictPrefix, SC!IsStrictPrefix
<1> QED
  BY <1>1, <1>2, <1>3

\* A step that gives an end its peer.
LEMMA FinishRefines ==
  ASSUME NInv, NInv', NEW p \in Sides, Finish(p)
  PROVE  [SC!Next]_app
<1>1. Typed /\ Hand(p) /\ Going(p) /\ Hand(p)'
  BY DEF NInv, Finish
<1>2. peer[p] = Nobody
  BY <1>1 DEF Hand, InHandshake
<1>3. CASE Admits(p)
  <2>1. /\ peer' = [peer EXCEPT ![p] = Remote(p)] /\ hs' = [hs EXCEPT ![p].state = "done"]
        /\ UNCHANGED <<written, read>>
    BY <1>3 DEF Finish
  <2>2. hs'[p].state = "done" /\ peer'[p] = Remote(p)
    BY <1>1, <2>1 DEF Typed, Hands
  <2>3. Remote(p) = Other(p)
    BY <1>1, <2>2 DEF Hand, Upgraded
  <2> QED
    BY <1>2, <2>1, <2>3, SCSame DEF SC!Next, SC!Establish
<1>4. CASE ~Admits(p)
  BY <1>4 DEF Finish, app
<1> QED
  BY <1>3, <1>4

\* A step in which an end's application writes.
LEMMA AppWriteRefines ==
  ASSUME NInv, NInv', NEW p \in Sides, AppWrite(p)
  PROVE  [SC!Next]_app
<1>1. PICK q \in Sides : q = Other(p) /\ Other(q) = p /\ p # q
  BY TwoSides
<1>2. Typed /\ Typed' /\ UNCHANGED <<peer, read>>
  BY DEF NInv, AppWrite
<1>3. peer[p] # Nobody
  BY DEF AppWrite, Open, Established
<1>4. PICK s, t, base, off : /\ s = written[p] /\ t = written'[p] /\ base = Len(written[p])
                             /\ off = (IF out[p].fill = MaxFrame THEN 0 ELSE out[p].fill)
  OBVIOUS
<1>5. s \in Seq(Nat) /\ t \in Seq(Nat) /\ Numbered(s) /\ Numbered(t) /\ base = Len(s) /\ base \in Nat
  <2>1. s \in Seq(Nat) /\ t \in Seq(Nat)
    BY <1>2, <1>4 DEF Typed
  <2>2. Numbered(s)
    BY <1>4 DEF NInv, Cargo
  <2>3. Numbered(written[p])'
    BY DEF NInv, Cargo
  <2>4. Numbered(t)
    BY <1>4, <2>3 DEF Numbered
  <2> QED
    BY <1>4, <2>1, <2>2, <2>4
<1>6. PICK n, took, new, more : Written(p, off, base, n, took, new, more)
  BY <1>4, AppWriteIs
<1>7. /\ t = s \o more /\ written'[q] = written[q]
      /\ n \in 1 .. MaxBytes[p] - base /\ took = Took(off, n)
      /\ DOMAIN more = 1 .. took /\ more = [i \in DOMAIN more |-> more[i]]
      /\ \A i \in 1 .. took : more[i] = base + i
  BY <1>1, <1>2, <1>4, <1>6 DEF Written, Typed
<1>8. took \in Nat /\ took >= 1
  <2>1. out[p].fill \in Nat /\ out[p].fill <= MaxFrame
    <3>1. out[p].fill \in Nat /\ Len(out[p].send) \in Nat
      <4>1. out[p] \in Buffers
        BY <1>2 DEF Typed
      <4>2. out[p].fill \in Nat /\ out[p].send \in Seq(Nat)
        BY <4>1 DEF Buffers
      <4> QED
        BY <4>2
    <3>2. out[p].fill <= Len(out[p].send) /\ Len(out[p].send) <= MaxFrame
      BY DEF NInv, Cargo
    <3> QED
      BY <3>1, <3>2, Constants
  <2>2. off \in Nat /\ off < MaxFrame
    BY <1>4, <2>1, Constants
  <2>3. n \in Nat /\ n >= 1
    <3>1. MaxBytes[p] \in Nat
      BY Constants
    <3> QED
      BY <1>5, <1>7, <3>1
  <2> QED
    BY <1>7, <2>2, <2>3, Constants DEF Took
<1>9. Len(s) < Len(t)
  <2>1. more \in [1 .. took -> Nat]
    <3>1. \A i \in 1 .. took : base + i \in Nat
      BY <1>5, <1>8
    <3> QED
      BY <1>7, <3>1
  <2>2. Numbers(more, Len(s), took)
    BY <1>5, <1>7, <1>8, <2>1 DEF Numbers
  <2>3. Len(s \o more) = Len(s) + took
    BY <1>5, <2>2, NumbersWritten
  <2> QED
    BY <1>5, <1>7, <1>8, <2>3
<1>10. IsStrictPrefix(s, t)
  <2>1. Len(s) <= Len(t)
    BY <1>5, <1>9
  <2> QED
    BY <1>5, <1>9, <2>1, NumberedPrefix
<1>11. SC!Write(p)
  BY <1>1, <1>2, <1>3, <1>4, <1>7, <1>10, SCSame DEF SC!Write
<1> QED
  BY <1>11 DEF SC!Next

\* A step in which an end's application reads.
LEMMA AppReadRefines ==
  ASSUME NInv, NInv', NEW p \in Sides, AppRead(p), read'[p] \in Seq(Nat), Numbered(read'[p]),
         Len(read'[p]) <= Len(written[Other(p)])
  PROVE  [SC!Next]_app
<1>1. PICK q \in Sides : q = Other(p) /\ Other(q) = p /\ p # q
  BY TwoSides
<1>2. Typed /\ UNCHANGED <<peer, written>>
  BY DEF NInv, AppRead
<1>3. peer[p] # Nobody
  BY DEF AppRead, Established
<1>4. PICK n \in 1 .. Len(out[p].recv) - out[p].taken :
        read' = [read EXCEPT ![p] = @ \o SubSeq(out[p].recv, out[p].taken + 1, out[p].taken + n)]
  BY DEF AppRead
<1>5. /\ read[p] \in Seq(Nat) /\ written[q] \in Seq(Nat)
      /\ Numbered(read[p]) /\ Numbered(written[q])
  BY <1>1, ReadSoFar
<1>6. Len(read[p]) < Len(read'[p])
  <2>1. out[p].recv \in Seq(Nat) /\ out[p].taken \in Nat /\ Len(out[p].recv) \in Nat
    BY <1>2 DEF Typed, Buffers
  <2>2. PICK s : s = SubSeq(out[p].recv, out[p].taken + 1, out[p].taken + n)
    OBVIOUS
  <2>3. s \in Seq(Nat) /\ Len(s) = n /\ n \in Nat /\ n >= 1
    <3>1. PICK t, a : t = out[p].recv /\ a = out[p].taken
      OBVIOUS
    <3>2. t \in Seq(Nat) /\ a \in Nat /\ Len(t) \in Nat /\ n \in 1 .. Len(t) - a
      BY <2>1, <3>1
    <3>3. n \in Nat /\ n >= 1 /\ a + n <= Len(t)
      BY <3>2
    <3>4. s = SubSeq(t, a + 1, a + n)
      BY <2>2, <3>1
    <3>5. s \in Seq(Nat)
      BY <3>2, <3>3, <3>4, Slice
    <3>6. Len(s) = n
      BY <3>2, <3>3, <3>4, Slice
    <3> QED
      BY <3>3, <3>5, <3>6
  <2>4. read'[p] = read[p] \o s
    BY <1>2, <1>4, <2>2 DEF Typed
  <2>5. Len(read[p] \o s) = Len(read[p]) + Len(s)
    BY <1>5, <2>3, ConcatProperties
  <2>6. Len(read[p]) \in Nat
    BY <1>5
  <2> QED
    BY <2>3, <2>4, <2>5, <2>6
<1>7. read'[q] = read[q]
  BY <1>1, <1>2, <1>4 DEF Typed
<1>8. IsStrictPrefix(read[p], read'[p])
  BY <1>5, <1>6, NumberedPrefix
<1>9. IsPrefix(read'[p], written[q])
  BY <1>1, <1>5, NumberedPrefix
<1>10. SC!Read(p)
  BY <1>1, <1>2, <1>3, <1>7, <1>8, <1>9, SCSame DEF SC!Read
<1> QED
  BY <1>10 DEF SC!Next

ReadIsWritten ==
    \A p \in Sides : read[p] \in Seq(Nat) /\ Numbered(read[p]) /\ Len(read[p]) <= Len(written[Other(p)])

LEMMA NextRefines ==
  ASSUME NInv, NInv', ReadIsWritten', Next
  PROVE  [SC!Next]_app
<1>1. ASSUME NEW p \in Sides, Framing(p) PROVE UNCHANGED app
  BY <1>1 DEF Framing, WriteSome, WriteEof, ReadLen, ReadData, ReadEof, ReadReset, app
<1>2. ASSUME NEW p \in Sides, Send(p) \/ Sent(p) \/ Recv(p) PROVE UNCHANGED app
  BY <1>2 DEF Send, Sent, Recv, app
<1>3. ASSUME NEW p \in Sides, Flush(p) \/ Close(p) \/ Refill(p) \/ End(p) PROVE UNCHANGED app
  BY <1>3 DEF Flush, Close, Refill, End, app
<1>4. Reset => UNCHANGED app
  BY DEF Reset, app
<1>5. ASSUME NEW p \in Sides, AppRead(p) PROVE [SC!Next]_app
  <2>1. written' = written
    BY <1>5 DEF AppRead
  <2>2. read'[p] \in Seq(Nat) /\ Numbered(read[p])' /\ Len(read'[p]) <= Len(written'[Other(p)])
    BY DEF ReadIsWritten
  <2>3. Numbered(read'[p])
    BY <2>2 DEF Numbered
  <2> QED
    BY <1>5, <2>1, <2>2, <2>3, AppReadRefines
<1>6. ASSUME NEW p \in Sides, Framing(p) \/ Handshake(p) \/ Stream(p) \/ End(p) PROVE [SC!Next]_app
  BY <1>1, <1>2, <1>3, <1>5, <1>6, FinishRefines, AppWriteRefines DEF Handshake, Stream
<1> QED
  BY <1>4, <1>6 DEF Next

(***************************************************************************)
(* Whatever the polls, ends and resets interleave with, the two ends are a *)
(* secure channel: an end learns who its peer is before any byte passes,   *)
(* and each then reads a prefix of what the other wrote, from the first    *)
(* byte on (handshake.rs, framed.rs, io.rs).                               *)
(***************************************************************************)
THEOREM IsSecureChannel == Spec => RefinesSecureChannel
<1>1. Init => SC!Init
  BY DEF Init, SC!Init
<1>2. NInv => ReadIsWritten
  BY ReadSoFar DEF ReadIsWritten
<1>3. NInv /\ NInv' /\ ReadIsWritten' /\ [Next]_vars => [SC!Next]_app
  <2>1. UNCHANGED vars => UNCHANGED app
    BY DEF vars, app
  <2> QED
    BY <2>1, NextRefines
<1> QED
  BY <1>1, <1>2, <1>3, ChannelInvariant, PTL DEF Spec, RefinesSecureChannel, SC!Spec, SC!vars, app
=============================================================================
