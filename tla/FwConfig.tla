------------------------------ MODULE FwConfig ------------------------------
(***************************************************************************)
(* The firmware configuration state machine of scom_vendor.c:             *)
(* scomm_vendor_config_start sends HCI Reset; every command-complete       *)
(* callback (scomm_vendor_config_callback) allocates a command buffer,    *)
(* acts on hw_cfg_cb.state and hands the next command to the host stack's *)
(* xmit_cb.  The NV-data file is uploaded in NVDS commands: for chip 6316 *)
(* as batches of whole (tag, len, value) triplets of at most 252 bytes,    *)
(* for every other chip as 252-byte blocks.                                *)
(*                                                                         *)
(* The host stack and the controller are the environment: xmit_cb accepts *)
(* (or, where allowed, rejects) a command, and a command it accepted is    *)
(* later completed, which runs the callback.  Command buffers and the NV   *)
(* file handle are tracked so that leaks, double frees, use after free and *)
(* fclose of a closed handle are recorded in misuse.                       *)
(***************************************************************************)
EXTENDS Integers, Sequences, SequencesExt

CONSTANTS
  ChipIds,        \* chip ids the Read-Local-Version reply may carry
  TlvFiles,       \* possible sv6316.nvbin contents after the 4-byte header:
                  \* sequences of [tag, len, avail]; avail < len is a
                  \* value cut short by the end of the file
  BlockSizes,     \* possible sizes in bytes of sv6160.nvbin
  XmitResults,    \* what xmit_cb may return ({TRUE} or {TRUE, FALSE})
  VendorStorage,  \* what /dev/vendor_storage may hold: [open, ioctlOk, data]
  NvFilePresent   \* what fopen of the NV file may do (TRUE: it opens)

VARIABLES
  state,          \* hw_cfg_cb.state
  chip,           \* chip_version
  nvTlv,          \* content of sv6316.nvbin
  nvSize,         \* size of sv6160.nvbin
  storage,        \* the platform's vendor storage (skw_gen_addr.c reads it)
  nvPos,          \* file position: triplet index (6316) or byte offset
  nvOpen,         \* hw_cfg_cb.nv_fp is an open handle
  fileOffset,     \* hw_cfg_cb.file_offset, the uint8_t chunk index
  pending,        \* opcode of the command xmit_cb accepted, not completed
  cmds,           \* history: commands accepted by xmit_cb, in order
  results,        \* history: results reported through fwcfg_cb
  misuse,         \* history: resources the code misused
  started         \* config_start has been called

vars == <<state, chip, nvTlv, nvSize, storage, nvPos, nvOpen, fileOffset, pending,
          cmds, results, misuse, started>>

-----------------------------------------------------------------------------
HW_CFG_INIT == "INIT"
HW_CFG_START == "START"
HW_CFG_READ_HCI_VERSION == "READ_HCI_VERSION"
HW_CFG_NV_SEND == "NV_SEND"
HW_CFG_NV_SEND_CMPL == "NV_SEND_CMPL"
HW_CFG_WRITE_BD_ADDR == "WRITE_BD_ADDR"

HCI_RESET == "RESET"
HCI_READ_LOCAL_VERSION_INFO == "READ_LOCAL_VERSION_INFO"
HCI_CMD_SKW_BT_NVDS == "NVDS"
HCI_CMD_WRITE_BD_ADDR == "WRITE_BD_ADDR"
NoCmd == "none"

SKW_CHIPID_6316 == 21249      \* 0x5301
SKW_CHIPID_6160 == 23         \* 0x0017

NV_FILE_RD_BLOCK_SIZE == 252
NvBatchLimit == 252           \* the literal in the triplet overflow check

Cmd(op, idx, plen, items) == [op |-> op, idx |-> idx, plen |-> plen, items |-> items]

(***************************************************************************)
(* The triplet loop of the 6316 branch (while (1) { ... }): from triplet   *)
(* i with total_len bytes gathered, take triplets until the file ends, the *)
(* next triplet would overflow the limit (fseek back to it), or a value is *)
(* cut short.  next is the first triplet not taken.                        *)
(***************************************************************************)
\* mutants: the check without the triplet header, and with >= for >
OverflowsNoHeader(nv_param_len, total_len) ==
  nv_param_len + total_len > NvBatchLimit
OverflowsAtLimit(nv_param_len, total_len) ==
  nv_param_len + total_len + 3 >= NvBatchLimit

\* the next triplet would not fit: (nv_param_len + total_len + 3) > 252
Overflows(nv_param_len, total_len) ==
  nv_param_len + total_len + 3 > NvBatchLimit

RECURSIVE TlvBatch(_, _, _)
TlvBatch(f, i, total_len) ==
  IF i > Len(f)
  THEN [next |-> i, total |-> total_len, stop |-> "eof"]
  ELSE LET nv_param_len == f[i].len IN
       IF Overflows(nv_param_len, total_len)
       THEN [next |-> i, total |-> total_len, stop |-> "full"]
       ELSE IF nv_param_len > 0 /\ f[i].avail < nv_param_len
       THEN [next |-> i + 1, total |-> total_len + 3, stop |-> "short"]
       ELSE TlvBatch(f, i + 1, total_len + 3 + nv_param_len)

\* the bytes a triplet occupies in an NVDS command
TripletBytes(t) == 3 + t.len

Drop(s, n) == SubSeq(s, n + 1, Len(s))

-----------------------------------------------------------------------------
(* Helpers for the effects of one callback.                                *)

\* xmit_cb(op, p_buf, ...) returned r: an accepted command is outstanding
Xmit(cmd, r) ==
  /\ cmds' = IF r THEN Append(cmds, cmd) ELSE cmds
  /\ pending' = IF r THEN cmd.op ELSE NoCmd

\* xmit_cb whose result the code ignores: a rejected buffer is never freed
XmitUnchecked(cmd) ==
  \E r \in XmitResults :
    /\ Xmit(cmd, r)
    /\ misuse' = misuse \cup (IF r THEN {} ELSE {"p_buf"})

\* misuse recorded for the command buffer, given the operations the
\* callback performed on it after allocating it: exactly one hand-over to
\* xmit_cb or one dealloc is correct
BufMisuse(ops) == IF ops \in {<<"xmit">>, <<"free">>} THEN {} ELSE {"p_buf"}

\* the NV-send step for the triplet format (chip 6316), from triplet pos
\* with chunk index off
TlvSend(pos, off) ==
  LET b   == TlvBatch(nvTlv, pos, 0)
      cmd == Cmd(HCI_CMD_SKW_BT_NVDS, off, b.total, SubSeq(nvTlv, pos, b.next - 1))
  IN
  CASE b.stop = "short" ->
         \* scomm_vendor_init_err(p_buf) breaks out of the loop only: the
         \* freed buffer is still transmitted, and freed again if rejected
         \E r \in XmitResults :
           /\ Xmit(cmd, r)
           /\ state' = HW_CFG_INIT
           /\ nvOpen' = FALSE
           /\ misuse' = misuse \cup BufMisuse(<<"free", "xmit">> \o
                                              (IF r THEN <<>> ELSE <<"free">>))
                               \cup (IF r THEN {} ELSE {"nv_fp"})
           /\ fileOffset' = (off + 1) % 256
           /\ nvPos' = b.next
    [] b.total = 0 ->
         \* nothing to send: the buffer is neither sent nor freed
         /\ pending' = NoCmd
         /\ UNCHANGED cmds
         /\ state' = IF b.stop = "eof" THEN HW_CFG_WRITE_BD_ADDR ELSE HW_CFG_NV_SEND
         /\ nvOpen' = (b.stop # "eof")
         /\ misuse' = misuse \cup BufMisuse(<<>>)
         /\ fileOffset' = off
         /\ nvPos' = b.next
    [] OTHER ->
         \E r \in XmitResults :
           /\ Xmit(cmd, r)
           /\ state' = CASE ~r             -> HW_CFG_INIT
                         [] b.stop = "eof" -> HW_CFG_WRITE_BD_ADDR
                         [] OTHER          -> HW_CFG_NV_SEND
           /\ nvOpen' = (r /\ b.stop = "full")
           /\ misuse' = misuse \cup BufMisuse(IF r THEN <<"xmit">> ELSE <<"free">>)
           /\ fileOffset' = (off + 1) % 256
           /\ nvPos' = b.next

\* mutant: a full block also taken as the end of the file
BlockAtEofInclusive(len) == len <= NV_FILE_RD_BLOCK_SIZE

\* (len < NV_FILE_RD_BLOCK_SIZE) || (len == 0) || feof(nv_fp): fread of a
\* full block does not set the end-of-file flag
BlockAtEof(len) == len < NV_FILE_RD_BLOCK_SIZE

\* the NV-send step for the block format: one fread of up to 252 bytes
BlockSend(pos, off) ==
  LET len == IF nvSize - pos < NV_FILE_RD_BLOCK_SIZE
               THEN nvSize - pos ELSE NV_FILE_RD_BLOCK_SIZE
      eof == BlockAtEof(len)
  IN \E r \in XmitResults :
       /\ Xmit(Cmd(HCI_CMD_SKW_BT_NVDS, off, len, <<>>), r)
       /\ fileOffset' = (off + 1) % 256
       /\ nvPos' = pos + len
       /\ state' = CASE ~r  -> HW_CFG_INIT
                     [] eof -> HW_CFG_WRITE_BD_ADDR
                     [] OTHER -> HW_CFG_NV_SEND
       /\ nvOpen' = (r /\ ~eof)
       \* end of file closes nv_fp and sets it to NULL; a rejected send
       \* then runs scomm_vendor_init_err, which fcloses it again
       /\ misuse' = misuse \cup BufMisuse(IF r THEN <<"xmit">> ELSE <<"free">>)
                           \cup (IF ~r /\ eof THEN {"nv_fp"} ELSE {})

NvSend(c, pos, off) ==
  IF c = SKW_CHIPID_6316 THEN TlvSend(pos, off) ELSE BlockSend(pos, off)

-----------------------------------------------------------------------------
Init ==
  /\ state = HW_CFG_INIT
  /\ chip = 0
  /\ nvTlv \in TlvFiles
  /\ nvSize \in BlockSizes
  /\ storage \in VendorStorage
  /\ nvPos = 0
  /\ nvOpen = FALSE
  /\ fileOffset = 0
  /\ pending = NoCmd
  /\ cmds = <<>>
  /\ results = <<>>
  /\ misuse = {}
  /\ started = FALSE

\* scomm_vendor_config_start: reset hw_cfg_cb and send HCI Reset
scomm_vendor_config_start ==
  /\ ~started
  /\ started' = TRUE
  /\ state' = HW_CFG_START
  /\ fileOffset' = 0
  /\ XmitUnchecked(Cmd(HCI_RESET, 0, 0, <<>>))
  /\ UNCHANGED <<chip, nvTlv, nvSize, storage, nvPos, nvOpen, results>>

\* The callbacks: the host stack completes the outstanding command with
\* status 0 and scomm_vendor_config_callback runs the case of state.
Complete == pending # NoCmd

CompleteStart ==
  /\ Complete /\ state = HW_CFG_START
  /\ XmitUnchecked(Cmd(HCI_READ_LOCAL_VERSION_INFO, 0, 0, <<>>))
  /\ state' = HW_CFG_READ_HCI_VERSION
  /\ UNCHANGED <<chip, nvTlv, nvSize, storage, nvPos, nvOpen, fileOffset, results,
                 started>>

\* the version reply selects the chip and the file; if the file opens,
\* falls through into the NV_SEND case with file_offset 0; if not, reports
\* failure and returns without freeing the buffer
\* mutant: the default case keeps the id read from the reply
ChipVersionUnmapped(v) == v

\* chip_version as the switch leaves it: any id but 6316 becomes 6160
ChipVersion(v) == IF v = SKW_CHIPID_6316 THEN SKW_CHIPID_6316 ELSE SKW_CHIPID_6160

CompleteReadVersion ==
  /\ Complete /\ state = HW_CFG_READ_HCI_VERSION
  /\ \E v \in ChipIds, opened \in NvFilePresent :
       LET c == ChipVersion(v)
       IN  /\ chip' = c
           /\ IF opened
              THEN /\ NvSend(c, IF c = SKW_CHIPID_6316 THEN 1 ELSE 0, 0)
                   /\ UNCHANGED results
              ELSE /\ results' = Append(results, "FAIL")
                   /\ state' = HW_CFG_INIT
                   /\ pending' = NoCmd
                   /\ misuse' = misuse \cup BufMisuse(<<>>)
                   /\ UNCHANGED <<nvPos, nvOpen, fileOffset, cmds>>
  /\ UNCHANGED <<nvTlv, nvSize, storage, started>>

CompleteNvSend ==
  /\ Complete /\ state = HW_CFG_NV_SEND
  /\ NvSend(chip, nvPos, fileOffset)
  /\ UNCHANGED <<chip, nvTlv, nvSize, storage, results, started>>

(***************************************************************************)
(* skw_gen_addr.c: the address the platform provisioned in its vendor     *)
(* storage.  m_get_mac_address opens /dev/vendor_storage (-1 if it cannot) *)
(* and reads the Bluetooth item with an ioctl; only if the ioctl succeeds  *)
(* does it copy the six bytes, reversed, and it returns 0 either way.      *)
(***************************************************************************)
BD_ADDR_LEN == 6
ZeroAddr == [i \in 1..BD_ADDR_LEN |-> 0]

\* mutant: the commented-out memcpy, which keeps the storage byte order
m_get_mac_address_memcpy(vs) ==
  IF ~vs.open THEN [ret |-> -1, addr |-> ZeroAddr]
  ELSE [ret |-> 0, addr |-> IF vs.ioctlOk THEN vs.data ELSE ZeroAddr]

\* local_addr[i] = req->data[j] for i = 0..5, j = 5..0
m_get_mac_address(vs) ==
  IF ~vs.open THEN [ret |-> -1, addr |-> ZeroAddr]
  ELSE [ret |-> 0, addr |-> IF vs.ioctlOk
                            THEN [i \in 1..BD_ADDR_LEN |-> vs.data[BD_ADDR_LEN + 1 - i]]
                            ELSE ZeroAddr]

\* the byte sum (uint32_t, at most 6 * 255) is not 0
skw_addr_check_valid(bd_addr) == FoldLeft(+, 0, bd_addr) > 0

\* memset(bd_addr, 0, 6); valid only when m_get_mac_address returned 0 and
\* the address is not all zero
skw_addr_from_ap(vs) ==
  LET r == m_get_mac_address(vs)
  IN  [valid |-> r.ret = 0 /\ skw_addr_check_valid(r.addr), addr |-> r.addr]

\* the address command, or, when no address is available from the AP,
\* fall through into the NV_SEND_CMPL case
CompleteWriteBdAddr ==
  /\ Complete /\ state = HW_CFG_WRITE_BD_ADDR
  /\ LET a == skw_addr_from_ap(storage) IN
       IF a.valid
       THEN /\ XmitUnchecked(Cmd(HCI_CMD_WRITE_BD_ADDR, 0, 6, a.addr))
            /\ state' = HW_CFG_NV_SEND_CMPL
            /\ UNCHANGED results
       ELSE /\ results' = Append(results, "SUCCESS")
            /\ pending' = NoCmd
            /\ state' = HW_CFG_INIT
            /\ UNCHANGED <<cmds, misuse>>
  /\ UNCHANGED <<chip, nvTlv, nvSize, storage, nvPos, nvOpen, fileOffset, started>>

CompleteNvSendCmpl ==
  /\ Complete /\ state = HW_CFG_NV_SEND_CMPL
  /\ results' = Append(results, "SUCCESS")
  /\ pending' = NoCmd
  /\ state' = HW_CFG_INIT
  /\ UNCHANGED <<chip, nvTlv, nvSize, storage, nvPos, nvOpen, fileOffset, cmds, misuse, started>>

\* a completion arriving in HW_CFG_INIT matches no case: the buffer
\* allocated for it is never used or freed
CompleteInInit ==
  /\ Complete /\ state = HW_CFG_INIT
  /\ pending' = NoCmd
  /\ misuse' = misuse \cup BufMisuse(<<>>)
  /\ UNCHANGED <<state, chip, nvTlv, nvSize, storage, nvPos, nvOpen, fileOffset, cmds,
                 results, started>>

Next ==
  \/ scomm_vendor_config_start
  \/ CompleteStart
  \/ CompleteReadVersion
  \/ CompleteNvSend
  \/ CompleteWriteBdAddr
  \/ CompleteNvSendCmpl
  \/ CompleteInInit

\* The host stack completes every command it accepted (the controller
\* answers), and the stack does call config_start when enabling.
Spec == Init /\ [][Next]_vars /\ WF_vars(Next)

-----------------------------------------------------------------------------
Opcodes == {HCI_RESET, HCI_READ_LOCAL_VERSION_INFO, HCI_CMD_SKW_BT_NVDS,
            HCI_CMD_WRITE_BD_ADDR}

TypeOK ==
  /\ state \in {HW_CFG_INIT, HW_CFG_START, HW_CFG_READ_HCI_VERSION,
                HW_CFG_NV_SEND, HW_CFG_NV_SEND_CMPL, HW_CFG_WRITE_BD_ADDR}
  /\ chip \in {0, SKW_CHIPID_6316, SKW_CHIPID_6160}
  /\ nvTlv \in TlvFiles /\ nvSize \in BlockSizes /\ storage \in VendorStorage
  /\ nvPos \in Nat /\ nvOpen \in BOOLEAN
  /\ fileOffset \in 0..255
  /\ pending \in Opcodes \cup {NoCmd}
  /\ \A i \in DOMAIN cmds : cmds[i].op \in Opcodes
  /\ results \in Seq({"SUCCESS", "FAIL"})
  /\ misuse \subseteq {"p_buf", "nv_fp"}
  /\ started \in BOOLEAN

\* the NVDS commands sent so far, in order
NvCmds == SelectSeq(cmds, LAMBDA c : c.op = HCI_CMD_SKW_BT_NVDS)
NvItems == FlattenSeq([i \in DOMAIN NvCmds |-> NvCmds[i].items])
SumPlen == FoldLeft(LAMBDA acc, c : acc + c.plen, 0, NvCmds)

\* Every NVDS command the controller receives is laid out as its firmware
\* parses it: the chunk index counts the commands (modulo 256, the width
\* of file_offset); a triplet-format command carries whole triplets only,
\* at most 252 bytes of them, continuing exactly where the previous one
\* stopped; a block-format command carries a full 252-byte block unless it
\* is the last one.
NvChunking ==
  /\ \A i \in DOMAIN NvCmds : NvCmds[i].idx = (i - 1) % 256
  /\ \A i \in DOMAIN NvCmds : NvCmds[i].plen <= NvBatchLimit
  /\ chip = SKW_CHIPID_6316 =>
       /\ IsPrefix(NvItems, nvTlv)
       /\ \A i \in DOMAIN NvCmds :
            NvCmds[i].plen = FoldLeft(LAMBDA acc, t : acc + TripletBytes(t), 0,
                                      NvCmds[i].items)
  /\ chip = SKW_CHIPID_6160 =>
       \A i \in 1..(Len(NvCmds) - 1) : NvCmds[i].plen = NV_FILE_RD_BLOCK_SIZE

\* Success is reported only after the whole bootstrap went through in
\* order: Reset, Read-Local-Version, the NVDS commands carrying the entire
\* NV file of the detected chip, then at most one Write-BD-Address.
UploadComplete ==
  "SUCCESS" \in ToSet(results) =>
    /\ SubSeq(cmds, 1, 2) = <<Cmd(HCI_RESET, 0, 0, <<>>),
                             Cmd(HCI_READ_LOCAL_VERSION_INFO, 0, 0, <<>>)>>
    /\ LET rest == Drop(cmds, 2)
           n    == Len(NvCmds)
       IN  /\ n >= 1
           /\ SubSeq(rest, 1, n) = NvCmds
           /\ Len(rest) - n \in {0, 1}
           /\ Len(rest) > n => rest[n + 1].op = HCI_CMD_WRITE_BD_ADDR
    /\ chip = SKW_CHIPID_6316 => NvItems = nvTlv
    /\ chip = SKW_CHIPID_6160 => SumPlen = nvSize

\* When the bootstrap succeeds, the controller was given the address the
\* platform provisioned exactly when its vendor storage could be read and
\* holds a nonzero address, and then in HCI byte order (least significant
\* byte first, the reverse of the storage order); otherwise no
\* Write-BD-Address was sent and the controller keeps the NV file's address.
BdAddrFromPlatform ==
  "SUCCESS" \in ToSet(results) =>
    LET sent == SelectSeq(cmds, LAMBDA c : c.op = HCI_CMD_WRITE_BD_ADDR)
        provisioned == storage.open /\ storage.ioctlOk
                       /\ \E i \in DOMAIN storage.data : storage.data[i] # 0
    IN  sent = IF provisioned
               THEN <<Cmd(HCI_CMD_WRITE_BD_ADDR, 0, 6, Reverse(storage.data))>>
               ELSE <<>>

\* Every command buffer a callback allocates is handed to xmit_cb or freed,
\* exactly once: none is leaked, freed twice, or sent after being freed.
BufferOwnership == "p_buf" \notin misuse


\* Once config_start has been called, the bootstrap reports a result
\* (success or failure) to the host stack: it never stalls silently.
BootstrapTerminates == started ~> (results # <<>>)
=============================================================================
