---------------------------- MODULE ScommReader ----------------------------
(***************************************************************************)
(* The controller-facing reader of one port: the loop of                   *)
(* scomm_vendor_recv_scomm_thread (src/skwbt/src/scom_vendor.c) that       *)
(* reads the transport fd into read_buffer, carries last_len bytes over    *)
(* between reads, cuts complete HCI frames off the front of the buffer and *)
(* dispatches them: vendor-log frames to skwlog_write, all others to the   *)
(* snoop capture and scomm_vendor_send_to_host.                            *)
(*                                                                         *)
(* The controller is the environment: it writes whole frames (and, where  *)
(* the model allows, single noise bytes between frames) to the wire.  A    *)
(* read takes any number of the bytes on the wire that fit into the free   *)
(* part of the buffer, so every split of the stream into reads is covered. *)
(* Bytes are integers 0..255; a frame is the sequence of its bytes.        *)
(***************************************************************************)
EXTENDS Integers, Sequences, SequencesExt

CONSTANTS
  Frames,     \* the frames the controller may send (sequences of bytes)
  Noise,      \* bytes the controller may send between frames (may be {})
  BufCap,     \* size of read_buffer (2056 in the code)
  MaxEmits    \* bound on the number of frames and noise bytes sent

VARIABLES
  wire,       \* bytes written by the controller, not yet read
  buf,        \* read_buffer[0 .. last_len-1]
  sent,       \* history: the frames the controller wrote, in order
  emits,      \* number of frames and noise bytes written so far
  toHost,     \* frames written to the host bridge socket, in order
  cpLog       \* frames written to the driver log by skwlog_write

vars == <<wire, buf, sent, emits, toHost, cpLog>>

-----------------------------------------------------------------------------
(* Packet types (bt_hci_bdroid.h) and the frame codec.                     *)

HCI_COMMAND_PKT == 1
HCI_ACLDATA_PKT == 2
HCI_SCODATA_PKT == 3
HCI_EVENT_PKT   == 4
HCI_ISO_PKT     == 5
HCI_EVENT_SKWLOG == 7

\* hci_preamble_sizes[]: header bytes after the type byte
hci_preamble_sizes ==
  (HCI_COMMAND_PKT :> 3) @@ (HCI_ACLDATA_PKT :> 4) @@ (HCI_SCODATA_PKT :> 3)
  @@ (HCI_EVENT_PKT :> 2) @@ (HCI_ISO_PKT :> 4) @@ (HCI_EVENT_SKWLOG :> 3)

\* the types the reader accepts as the first byte of a frame
RecvTypes == {HCI_EVENT_PKT, HCI_ACLDATA_PKT, HCI_SCODATA_PKT,
              HCI_EVENT_SKWLOG, HCI_ISO_PKT}

\* read_buffer[i] of the C code is b[i+1]
Byte(b, i) == b[i + 1]
U16(b, i)  == Byte(b, i) + 256 * Byte(b, i + 1)

\* declared payload length, read from the header of a frame of type b[1]
PayloadLen(b) ==
  CASE Byte(b, 0) \in {HCI_ACLDATA_PKT, HCI_ISO_PKT} -> U16(b, 3)
    [] Byte(b, 0) = HCI_EVENT_PKT                   -> Byte(b, 2)
    [] Byte(b, 0) = HCI_EVENT_SKWLOG                -> U16(b, 2)
    [] OTHER                                        -> Byte(b, 3)

\* hdr_lens: the type byte and the preamble
HdrLen(t) == hci_preamble_sizes[t] + 1

\* mutant: the frame length without the type byte
PktLenNoTypeByte(b) == (PayloadLen(b) + hci_preamble_sizes[Byte(b, 0)]) % 65536

\* pkt_len is a uint16_t in the code
PktLen(b) == (PayloadLen(b) + HdrLen(Byte(b, 0))) % 65536

\* scomm_vendor_find_valid_type: index of the first byte that is a type
\* the scan recognises (ISO and Command are not among them), else len
ScanTypes == {HCI_EVENT_PKT, HCI_ACLDATA_PKT, HCI_SCODATA_PKT, HCI_EVENT_SKWLOG}
find_valid_type(b) ==
  LET i == SelectInSeq(b, LAMBDA x : x \in ScanTypes)
  IN  IF i = 0 THEN Len(b) ELSE i - 1

Drop(b, n) == SubSeq(b, n + 1, Len(b))

(***************************************************************************)
(* The parse loop run after every read (the do { ... } while (1) block).   *)
(* It returns the frames for the host, the frames for the log, and the     *)
(* bytes carried over as last_len.  After a dispatched frame it loops only *)
(* while at least 4 bytes are left; after discarding invalid bytes it      *)
(* stops without looking at what follows.                                  *)
(***************************************************************************)
\* mutant: one frame per read, without re-entering the loop for the rest
ParseOneFrame(b) ==
  LET t == Byte(b, 0)
      none == [host |-> <<>>, log |-> <<>>, rest |-> b]
  IN  CASE t \notin RecvTypes ->
             [none EXCEPT !.rest = Drop(b, find_valid_type(b))]
        [] Len(b) >= HdrLen(t) /\ Len(b) >= PktLen(b) ->
             IF t = HCI_EVENT_SKWLOG
             THEN [none EXCEPT !.log = <<SubSeq(b, 1, PktLen(b))>>,
                               !.rest = Drop(b, PktLen(b))]
             ELSE [none EXCEPT !.host = <<SubSeq(b, 1, PktLen(b))>>,
                               !.rest = Drop(b, PktLen(b))]
        [] OTHER -> none

RECURSIVE Parse(_)
Parse(b) ==
  LET t == Byte(b, 0) IN
  IF t \in RecvTypes
  THEN IF Len(b) >= HdrLen(t) /\ Len(b) >= PktLen(b)
       THEN LET f    == SubSeq(b, 1, PktLen(b))
                rest == Drop(b, PktLen(b))
                more == IF Len(rest) >= 4
                          THEN Parse(rest)
                          ELSE [host |-> <<>>, log |-> <<>>, rest |-> rest]
            IN  IF t = HCI_EVENT_SKWLOG
                THEN [more EXCEPT !.log = <<f>> \o @]
                ELSE [more EXCEPT !.host = <<f>> \o @]
       ELSE [host |-> <<>>, log |-> <<>>, rest |-> b]
  ELSE [host |-> <<>>, log |-> <<>>, rest |-> Drop(b, find_valid_type(b))]

-----------------------------------------------------------------------------
Init ==
  /\ wire = <<>>
  /\ buf = <<>>
  /\ sent = <<>>
  /\ emits = 0
  /\ toHost = <<>>
  /\ cpLog = <<>>

\* The controller writes one frame to the transport.
EmitFrame ==
  /\ emits < MaxEmits
  /\ \E f \in Frames :
       /\ wire' = wire \o f
       /\ sent' = Append(sent, f)
  /\ emits' = emits + 1
  /\ UNCHANGED <<buf, toHost, cpLog>>

\* The controller emits a noise byte between frames.
EmitNoise ==
  /\ emits < MaxEmits
  /\ \E n \in Noise : wire' = Append(wire, n)
  /\ emits' = emits + 1
  /\ UNCHANGED <<buf, sent, toHost, cpLog>>

(***************************************************************************)
(* One turn of the reader loop on POLLIN: read(fd, read_buffer + last_len, *)
(* 2056 - last_len) returns k > 0 bytes, then the parse loop dispatches.   *)
(* A read into a full buffer returns 0 and the loop just polls again: no   *)
(* state changes, so it is a stuttering step here.                         *)
(***************************************************************************)
\* mutant: read() asked for the whole buffer size, ignoring last_len
FreeSpaceIgnoringLastLen(b) == BufCap

\* the length read() is asked for: 2056 - last_len
FreeSpace(b) == BufCap - Len(b)

RecvScomm ==
  \E k \in 1..FreeSpace(buf) :
    /\ k <= Len(wire)
    /\ LET r == Parse(buf \o SubSeq(wire, 1, k)) IN
         /\ toHost' = toHost \o r.host
         /\ cpLog' = cpLog \o r.log
         /\ buf' = r.rest
    /\ wire' = Drop(wire, k)
    /\ UNCHANGED <<sent, emits>>

Next == EmitFrame \/ EmitNoise \/ RecvScomm

\* poll() reports POLLIN whenever the transport has data, and the reader
\* thread is scheduled by the OS: the read step is weakly fair.
Spec == Init /\ [][Next]_vars /\ WF_vars(RecvScomm)

-----------------------------------------------------------------------------
TypeOK ==
  /\ wire \in Seq(0..255)
  /\ buf \in Seq(0..255) /\ Len(buf) <= BufCap
  /\ sent \in Seq(Frames)
  /\ emits \in 0..MaxEmits
  /\ toHost \in Seq(Seq(0..255))
  /\ cpLog \in Seq(Seq(0..255))

IsLogFrame(f) == f[1] = HCI_EVENT_SKWLOG
IsHostFrame(f) == ~IsLogFrame(f)

\* Reassembly is exact and in order: what the reader has forwarded to the
\* host is a prefix of the non-log frames the controller sent, and what it
\* has written to the driver log a prefix of the log frames; no frame is
\* forged from bytes of several frames or noise, dropped or reordered, for
\* any split of the byte stream into reads.
ForwardedInOrder ==
  /\ IsPrefix(toHost, SelectSeq(sent, IsHostFrame))
  /\ IsPrefix(cpLog, SelectSeq(sent, IsLogFrame))

\* Every frame the controller sends is eventually dispatched, whatever the
\* split into reads (the reader does not sit on a complete frame).
EveryFrameDispatched ==
  \A n \in 1..MaxEmits :
    (Len(sent) >= n) ~> (Len(toHost) + Len(cpLog) >= n)
=============================================================================
