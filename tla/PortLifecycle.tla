--------------------------- MODULE PortLifecycle ---------------------------
(***************************************************************************)
(* Open and close of port 0 (src/skwbt/src/scom_vendor.c) and the two      *)
(* threads that run between them:                                          *)
(*   - the HAL thread: op(BT_VND_OP_USERIAL_OPEN) of bt_vendor_skw.c with   *)
(*     the boot and device opens and scomm_vendor_socket_open, then         *)
(*     op(BT_VND_OP_USERIAL_CLOSE): scomm_vendor_write_bt_state and         *)
(*     scomm_vendor_close, that is scomm_vendor_port_close and              *)
(*     scomm_vendor_socket_close of each port, then close(btpw_fp);        *)
(*   - the controller-facing reader, scomm_vendor_recv_scomm_thread: poll,  *)
(*     read, hang-up handling and exit (the frame parse is ScommReader);   *)
(*   - the host-facing reactor, scomm_vendor_recv_socket_thread, with its   *)
(*     read_ready handler scomm_vendor_recv_rawdata reduced to: read a     *)
(*     frame from the host end of the bridge, then write it to the         *)
(*     transport while driver_state is set.                                *)
(* The controller (data, hang-up) and the host stack (frames written into  *)
(* the bridge) are the environment.                                        *)
(*                                                                         *)
(* Each descriptor is "none" (not yet opened), "open" or "closed"; every   *)
(* poll, read, write or ioctl of a closed descriptor is recorded in        *)
(* usedAfterClose, every close counted in closeCount.                      *)
(***************************************************************************)
EXTENDS Naturals, FiniteSets

CONSTANTS
  MaxCtrlData,    \* bound on the reads' worth of data the controller sends
  MaxHostWrites,  \* bound on the frames the host stack writes
  HupMayOccur,    \* whether the transport may hang up (BOOLEAN)
  HupSetsPollIn,  \* poll results a hang-up may give: {TRUE}, {FALSE} or both
  UartTrans,      \* skwbt_transtype & SKWBT_TRANS_TYPE_UART after init (BOOLEAN set)
  UartOnly,       \* skwbtuartonly from skwbt.conf (BOOLEAN set)
  OpenResults,    \* what an open() of a device node may do (TRUE: it opens)
  Chip6160,       \* chip_version == SKW_CHIPID_6160 at close (BOOLEAN set)
  NoSleep,        \* skwbtNoSleep from skwbt.conf (BOOLEAN set)
  BridgeCap,      \* frames uart_fd[1] holds unread before a write to it blocks
  SaveLog,        \* btsnoop_save_log from skwbt.conf (BOOLEAN)
  Slice,          \* skwlog_slice from skwbt.conf (BOOLEAN)
  LogEn,          \* btcp_log_en from skwbt.conf (BOOLEAN)
  SnoopLimit,     \* btsnoop_rev_length that rotates the snoop file (1 GB), in frames
  LogLimit        \* skwlog_rev_length that rotates the vendor log (1.5 GB), in frames

ASSUME SnoopLimit >= 1 /\ LogLimit >= 2

\* the port's descriptors, and btboot_fp and btpw_fp of bt_vendor_skw.c
SocketFds == {"uart0", "uart1", "sig0", "sig1", "epoll"}
Fds == {"transport", "btboot", "btpw"} \cup SocketFds

VARIABLES
  hal,            \* program counter of the HAL thread (open, then close)
  rpc,            \* program counter of the reader thread
  spc,            \* program counter of the reactor thread
  fdState,        \* [Fds -> {"none", "open", "closed"}]
  closeCount,     \* [Fds -> Nat]: close() calls on each descriptor
  usedAfterClose, \* descriptors used by some thread after they were closed
  fdValid,        \* scomm->fd != -1
  epollReg,       \* uart_fd[1] is in the epoll set
  thread_running, driver_state, is_busying, recv_comm_thread_running,
  thread_uart_id, \* TRUE while the field holds the reader's handle (not -1)
  joined,         \* threads the HAL thread has joined
  data,           \* the transport has bytes to read
  hup,            \* the controller side has hung up
  hostData,       \* the host stack has a frame waiting in the bridge
  ctrlSent, hostSent,
  hwErrorSent,    \* the hardware-error event was written to the host
  opened,         \* what USERIAL_OPEN returned: "none", "fd" or "failed"
  toHost,         \* frames in the bridge that the stack has not read yet
  wake,           \* recv_rawdata writes the wake byte to btpw_fp
  snoopFd,        \* hci_btsnoop_fd: "none" (-1), "open", or "stale" (a closed fd)
  logFd,          \* skwlog_fp, likewise
  snoopLen,       \* btsnoop_rev_length, in frames
  logLen,         \* skwlog_rev_length, in frames
  snoopLock       \* holder of btsnoop_log_lock: "free", "reader" or "reactor"

vars == <<hal, rpc, spc, fdState, closeCount, usedAfterClose, fdValid,
          epollReg, thread_running, driver_state, is_busying,
          recv_comm_thread_running, thread_uart_id, joined, data, hup,
          hostData, ctrlSent, hostSent, hwErrorSent, opened, toHost, wake,
          snoopFd, logFd, snoopLen, logLen, snoopLock>>

logVars == <<snoopFd, logFd, snoopLen, logLen, snoopLock>>

envVars == <<data, hup, hostData, ctrlSent, hostSent, toHost, wake>>

IsOpen(f) == fdState[f] = "open"

\* the use of descriptor f by some thread; recorded if f is already closed
Use(f) == usedAfterClose' = IF IsOpen(f) THEN usedAfterClose
                                         ELSE usedAfterClose \cup {f}

\* close(f): counted whether or not f is still open
Close(F) == /\ fdState' = [g \in Fds |-> IF g \in F THEN "closed" ELSE fdState[g]]
            /\ closeCount' = [g \in Fds |-> IF g \in F THEN closeCount[g] + 1
                                                       ELSE closeCount[g]]

-----------------------------------------------------------------------------
Init ==
  /\ hal = "idle" /\ rpc = "none" /\ spc = "none"
  /\ fdState = [f \in Fds |-> "none"]
  /\ closeCount = [f \in Fds |-> 0]
  /\ usedAfterClose = {}
  /\ fdValid = FALSE /\ epollReg = FALSE
  \* scomm_vendor_init: memset 0, fd = -1, driver_state = FALSE
  /\ thread_running = FALSE /\ driver_state = FALSE /\ is_busying = FALSE
  /\ recv_comm_thread_running = FALSE /\ thread_uart_id = FALSE
  /\ joined = {}
  /\ data = FALSE /\ hup = FALSE /\ hostData = FALSE
  /\ ctrlSent = 0 /\ hostSent = 0 /\ hwErrorSent = FALSE
  /\ opened = "none"
  /\ toHost = 0 /\ wake = FALSE
  \* init() ran skwlog_init and, with btsnoop_log_en, skw_btsnoop_init; each
  \* open may have failed
  /\ snoopFd \in {"none", "open"}
  /\ logFd \in IF LogEn THEN {"none", "open"} ELSE {"none"}
  /\ snoopLen = 0 /\ logLen = 0 /\ snoopLock = "free"

(***************************************************************************)
(* HAL thread, op(BT_VND_OP_USERIAL_OPEN).  On UART with SkwBtUartOnly     *)
(* false, and on USB/SDIO, skwbt_boot_open must open /dev/BTBOOT or the op *)
(* returns 0; on UART it then opens /dev/BTDATA into btpw_fp without a     *)
(* check.  scomm_vendor_uart_open(0), whose fixed H4 settings always pass  *)
(* the baud and format checks, or scomm_vendor_usbsdio_open(0) opens the   *)
(* transport; if that fails fd stays -1 and the op returns 0.  Only port 0 *)
(* is configured, so the USB/SDIO loop skips ports 1-3.                    *)
(***************************************************************************)
\* skwbt_boot_open: btboot_fp = open("/dev/BTBOOT"); FALSE when it fails
skwbt_boot_open(ok) == ok

\* scomm_vendor_uart_open(0): the fixed H4 settings pass the baud, data-bit,
\* parity and stop-bit checks, so the transport opens if open() does
scomm_vendor_uart_open(ok) == IF ok THEN {"transport"} ELSE {}

\* scomm_vendor_check_port_valid and scomm_vendor_usbsdio_open over the
\* ports: only port 0 has a name, so only its transport is opened
scomm_vendor_usbsdio_open(ok) == IF ok THEN {"transport"} ELSE {}

UserialOpen ==
  /\ hal = "idle"
  /\ \E uart \in UartTrans, uartOnly \in UartOnly,
        boot \in OpenResults, pw \in OpenResults, dev \in OpenResults,
        noSleep \in NoSleep :
       LET needBoot == ~uart \/ ~uartOnly
           port     == IF uart THEN scomm_vendor_uart_open(dev)
                               ELSE scomm_vendor_usbsdio_open(dev)
           opens    == (IF needBoot THEN {"btboot"} ELSE {})
                       \cup (IF uart /\ ~uartOnly /\ pw THEN {"btpw"} ELSE {})
                       \cup port
       IN  /\ IF needBoot /\ ~skwbt_boot_open(boot)
              THEN /\ opened' = "failed" /\ hal' = "open_failed"
                   /\ UNCHANGED fdState
              ELSE /\ fdState' = [g \in Fds |-> IF g \in opens THEN "open"
                                                             ELSE fdState[g]]
                   /\ opened' = IF port # {} THEN opened ELSE "failed"
                   /\ hal' = IF port # {} THEN "socket_open" ELSE "open_failed"
           \* the recv_rawdata test: UART, not uart-only, not NoSleep, btpw_fp > 0
           /\ wake' = (fdState'["btpw"] = "open" /\ ~noSleep)
  /\ UNCHANGED <<rpc, spc, closeCount, usedAfterClose, fdValid, epollReg,
                 thread_running, driver_state, is_busying,
                 recv_comm_thread_running, thread_uart_id, joined, data, hup,
                 hostData, ctrlSent, hostSent, toHost, hwErrorSent, logVars>>

(***************************************************************************)
(* scomm_vendor_socket_open(0) creates the bridge and signal socket pairs and *)
(* scomm_vendor_socket_open creates the bridge and signal socket pairs and *)
(* the epoll set, sets thread_running, registers uart_fd[1] and starts the *)
(* reactor and the reader (the failure returns of socketpair, epoll and    *)
(* pthread_create are not modelled), then spins until the reader reports   *)
(* it is running and sets driver_state.  USERIAL_OPEN then hands uart_fd[0] *)
(* to the stack and returns 1.                                             *)
(***************************************************************************)
\* mutant: uart_fd[1] left out of the epoll set (epoll_ctl not called)
SocketOpenNoEpollReg ==
  /\ hal = "socket_open"
  /\ fdState' = [f \in Fds |-> IF f \in SocketFds THEN "open" ELSE fdState[f]]
  /\ fdValid' = TRUE
  /\ thread_running' = TRUE
  /\ recv_comm_thread_running' = FALSE
  /\ epollReg' = FALSE
  /\ thread_uart_id' = TRUE
  /\ rpc' = "start" /\ spc' = "loop"
  /\ hal' = "wait_ready"
  /\ UNCHANGED <<closeCount, usedAfterClose, driver_state, is_busying, joined,
                 envVars, logVars, hwErrorSent, opened>>

SocketOpen ==
  /\ hal = "socket_open"
  /\ fdState' = [f \in Fds |-> IF f \in SocketFds THEN "open" ELSE fdState[f]]
  /\ fdValid' = TRUE
  /\ thread_running' = TRUE
  /\ recv_comm_thread_running' = FALSE
  /\ epollReg' = TRUE
  /\ thread_uart_id' = TRUE
  /\ rpc' = "start" /\ spc' = "loop"
  /\ hal' = "wait_ready"
  /\ UNCHANGED <<closeCount, usedAfterClose, driver_state, is_busying, joined,
                 envVars, logVars, hwErrorSent, opened>>

OpenReady ==
  /\ hal = "wait_ready"
  /\ recv_comm_thread_running
  /\ driver_state' = TRUE
  /\ opened' = "fd"
  /\ hal' = "open"
  /\ UNCHANGED <<rpc, spc, fdState, closeCount, usedAfterClose, fdValid,
                 epollReg, thread_running, is_busying, recv_comm_thread_running,
                 thread_uart_id, joined, envVars, logVars, hwErrorSent>>
\* scomm_vendor_write_bt_state: on a 6160 write(scomm_vnd[0].fd, ...)
scomm_vendor_write_bt_state(chip6160) ==
  IF chip6160 THEN Use("transport") ELSE UNCHANGED usedAfterClose

\* op(BT_VND_OP_USERIAL_CLOSE) begins, if btboot_fp > 0, with
\* scomm_vendor_write_bt_state, which on a 6160 writes a vendor command to
\* scomm_vnd[0].fd, and close(btboot_fp); then scomm_vendor_close
UserialClose ==
  /\ hal = "open"
  /\ \E chip6160 \in Chip6160 :
       IF IsOpen("btboot")
       THEN /\ scomm_vendor_write_bt_state(chip6160)
            /\ Close({"btboot"})
       ELSE UNCHANGED <<usedAfterClose, fdState, closeCount>>
  /\ hal' = "port_close"
  /\ UNCHANGED <<rpc, spc, fdValid, epollReg, thread_running, driver_state,
                 is_busying, recv_comm_thread_running, thread_uart_id, joined,
                 envVars, logVars, hwErrorSent, opened>>

(***************************************************************************)
(* HAL thread, scomm_vendor_close: scomm_vendor_port_close(0).  It clears  *)
(* thread_running and driver_state, spins while is_busying, nudges the     *)
(* transport with ioctl and writes the close byte to signal_fd[1], closes  *)
(* the transport, joins the reader if thread_uart_id is not -1, then runs  *)
(* scomm_vendor_socket_close and sets fd = -1.  The close byte goes into   *)
(* signal_fd[1], so it becomes readable at signal_fd[0]; both threads poll *)
(* signal_fd[1], so it wakes neither of them.  The extra ioctls of the     *)
(* SDIO retry loop go to the same transport as the first and are part of   *)
(* SignalClose.                                                            *)
(***************************************************************************)
PortCloseStart ==
  /\ hal = "port_close"
  /\ fdValid
  /\ thread_running' = FALSE
  /\ driver_state' = FALSE
  /\ hal' = "busy_wait"
  /\ UNCHANGED <<rpc, spc, fdState, closeCount, usedAfterClose, fdValid,
                 epollReg, is_busying, recv_comm_thread_running,
                 thread_uart_id, joined, envVars, logVars, hwErrorSent, opened>>

\* while (scomm->is_busying) usleep(20);
BusyWait ==
  /\ hal = "busy_wait"
  /\ ~is_busying
  /\ hal' = "signal"
  /\ UNCHANGED <<rpc, spc, fdState, closeCount, usedAfterClose, fdValid,
                 epollReg, thread_running, driver_state, is_busying,
                 recv_comm_thread_running, thread_uart_id, joined, envVars, logVars,
                 hwErrorSent, opened>>

\* ioctl(scomm->fd, 0); write(signal_fd[1], &close_signal, 1); usleep(300)
SignalClose ==
  /\ hal = "signal"
  /\ Use("transport")
  /\ hal' = "close_fd"
  /\ UNCHANGED <<rpc, spc, fdState, closeCount, fdValid, epollReg,
                 thread_running, driver_state, is_busying,
                 recv_comm_thread_running, thread_uart_id, joined, envVars, logVars,
                 hwErrorSent, opened>>

\* if (scomm->fd > 0) close(scomm->fd)
CloseTransport ==
  /\ hal = "close_fd"
  /\ Close({"transport"})
  /\ hal' = "join_reader"
  /\ UNCHANGED <<rpc, spc, usedAfterClose, fdValid, epollReg, thread_running,
                 driver_state, is_busying, recv_comm_thread_running,
                 thread_uart_id, joined, envVars, logVars, hwErrorSent, opened>>

\* if (scomm->thread_uart_id != -1) pthread_join(...)
JoinReader ==
  /\ hal = "join_reader"
  /\ IF thread_uart_id
       THEN rpc = "done" /\ joined' = joined \cup {"reader"}
       ELSE UNCHANGED joined
  /\ hal' = "close_uart0"
  /\ UNCHANGED <<rpc, spc, fdState, closeCount, usedAfterClose, fdValid,
                 epollReg, thread_running, driver_state, is_busying,
                 recv_comm_thread_running, thread_uart_id, envVars, logVars,
                 hwErrorSent, opened>>

\* scomm_vendor_socket_close: close(uart_fd[0])
CloseUart0 ==
  /\ hal = "close_uart0"
  /\ Close({"uart0"})
  /\ hal' = "close_uart1"
  /\ UNCHANGED <<rpc, spc, usedAfterClose, fdValid, epollReg, thread_running,
                 driver_state, is_busying, recv_comm_thread_running,
                 thread_uart_id, joined, envVars, logVars, hwErrorSent, opened>>

\* EPOLL_CTL_DEL of uart_fd[1] and signal_fd[1]; close(uart_fd[1])
CloseUart1 ==
  /\ hal = "close_uart1"
  /\ Use("epoll")
  /\ epollReg' = FALSE
  /\ Close({"uart1"})
  /\ hal' = "join_reactor"
  /\ UNCHANGED <<rpc, spc, fdValid, thread_running, driver_state, is_busying,
                 recv_comm_thread_running, thread_uart_id, joined, envVars, logVars,
                 hwErrorSent, opened>>

\* pthread_join(thread_socket_id) (never -1 once the open succeeded)
JoinReactor ==
  /\ hal = "join_reactor"
  /\ spc = "done"
  /\ joined' = joined \cup {"reactor"}
  /\ hal' = "close_rest"
  /\ UNCHANGED <<rpc, spc, fdState, closeCount, usedAfterClose, fdValid,
                 epollReg, thread_running, driver_state, is_busying,
                 recv_comm_thread_running, thread_uart_id, envVars, logVars,
                 hwErrorSent, opened>>

\* mutant: socket_close without close(epoll_fd)
CloseRestKeepEpoll ==
  /\ hal = "close_rest"
  /\ Close({"sig0", "sig1"})
  /\ fdValid' = FALSE
  /\ hal' = "close_others"
  /\ UNCHANGED <<rpc, spc, usedAfterClose, epollReg, thread_running,
                 driver_state, is_busying, recv_comm_thread_running,
                 thread_uart_id, joined, envVars, logVars, hwErrorSent, opened>>

\* close(epoll_fd), close(signal_fd[0..1]); every field to -1; fd = -1
CloseRest ==
  /\ hal = "close_rest"
  /\ Close({"epoll", "sig0", "sig1"})
  /\ fdValid' = FALSE
  /\ hal' = "close_others"
  /\ UNCHANGED <<rpc, spc, usedAfterClose, epollReg, thread_running,
                 driver_state, is_busying, recv_comm_thread_running,
                 thread_uart_id, joined, envVars, logVars, hwErrorSent, opened>>
\* the rest of scomm_vendor_close: port_close(1..3) return at once, as
\* their fd is -1; then if (btpw_fp > 0) close(btpw_fp)
VendorCloseTail ==
  /\ hal = "close_others"
  /\ IF fdState["btpw"] # "none" THEN Close({"btpw"})
                                ELSE UNCHANGED <<fdState, closeCount>>
  /\ hal' = "closed"
  /\ UNCHANGED <<rpc, spc, usedAfterClose, fdValid, epollReg, thread_running,
                 driver_state, is_busying, recv_comm_thread_running,
                 thread_uart_id, joined, envVars, logVars, hwErrorSent, opened>>
-----------------------------------------------------------------------------
(***************************************************************************)
(* Reader thread, scomm_vendor_recv_scomm_thread.  pfd[1].fd is the        *)
(* transport; pfd[0] (signal_fd[1]) never becomes readable (see above), so *)
(* the "exit signal" branch is never taken and the thread leaves its loop  *)
(* only through the thread_running test, a read error or a hang-up.        *)
(***************************************************************************)
readerFrame == <<hal, spc, fdValid, epollReg, thread_running,
                 recv_comm_thread_running, joined, hup, hostData, ctrlSent,
                 hostSent, opened, toHost, wake,
                 logVars>>

ReaderStart ==
  /\ rpc = "start"
  /\ recv_comm_thread_running' = TRUE
  /\ rpc' = "loop"
  /\ UNCHANGED <<hal, spc, fdState, closeCount, usedAfterClose, fdValid,
                 epollReg, thread_running, driver_state, is_busying,
                 thread_uart_id, joined, envVars, logVars, hwErrorSent, opened>>

\* while (scomm->thread_running)
ReaderLoop ==
  /\ rpc = "loop"
  /\ rpc' = IF thread_running THEN "poll" ELSE "exit"
  /\ UNCHANGED <<hal, spc, fdState, closeCount, usedAfterClose, fdValid,
                 epollReg, thread_running, driver_state, is_busying,
                 recv_comm_thread_running, thread_uart_id, joined, envVars, logVars,
                 hwErrorSent, opened>>

\* poll reports POLLIN: data, or a hang-up the driver reports as readable
PollIn == IsOpen("transport") /\ (data \/ (hup /\ TRUE \in HupSetsPollIn))

ReaderPollIn ==
  /\ rpc = "poll"
  /\ PollIn
  /\ Use("transport")
  /\ is_busying' = FALSE
  /\ rpc' = "read"
  /\ UNCHANGED <<fdState, closeCount, driver_state, thread_uart_id, data,
                 hwErrorSent, opened>>
  /\ UNCHANGED readerFrame

\* POLLHUP without POLLIN: driver_state = FALSE; close(scomm->fd); break
ReaderPollHup ==
  /\ rpc = "poll"
  /\ IsOpen("transport") /\ ~data /\ hup /\ FALSE \in HupSetsPollIn
  /\ Use("transport")
  /\ driver_state' = FALSE
  /\ Close({"transport"})
  /\ rpc' = "exit"
  /\ UNCHANGED <<is_busying, thread_uart_id, data, hwErrorSent, opened>>
  /\ UNCHANGED readerFrame

\* the 500 ms timeout, or POLLNVAL on a transport closed under the poll
ReaderPollIdle ==
  /\ rpc = "poll"
  /\ ~IsOpen("transport") \/ (~data /\ ~hup)
  /\ Use("transport")
  /\ rpc' = "loop"
  /\ UNCHANGED <<fdState, closeCount, driver_state, is_busying,
                 thread_uart_id, data, hwErrorSent, opened>>
  /\ UNCHANGED readerFrame

\* is_busying = FALSE; read(...); is_busying = TRUE: bytes_read > 0, after
\* which the parse loop (ScommReader) runs: a completed vendor log frame goes
\* to skwlog_write, any other completed frame to skw_btsnoop_capture and
\* scomm_vendor_send_to_host(0, ...); otherwise the thread polls again
ReaderReadData ==
  /\ rpc = "read"
  /\ IsOpen("transport") /\ data
  /\ Use("transport")
  /\ is_busying' = TRUE
  /\ data' = FALSE
  /\ rpc' \in {"cap", "log", "loop"}
  /\ UNCHANGED <<fdState, closeCount, driver_state, thread_uart_id,
                 hwErrorSent, opened>>
  /\ UNCHANGED readerFrame

\* bytes_read == 0 (end of file on a hung-up transport): continue while
\* thread_running, else break
ReaderReadEof ==
  /\ rpc = "read"
  /\ IsOpen("transport") /\ ~data /\ hup
  /\ Use("transport")
  /\ is_busying' = TRUE
  /\ rpc' = IF thread_running THEN "loop" ELSE "exit"
  /\ UNCHANGED <<fdState, closeCount, driver_state, thread_uart_id, data,
                 hwErrorSent, opened>>
  /\ UNCHANGED readerFrame

\* bytes_read < 0 (a hung-up device, or EBADF on a closed descriptor):
\* scomm_vendor_send_hw_error() if thread_running on port 0, which sends the
\* HCI hardware-error event {04 10 01 code} with scomm_vendor_send_to_host;
\* break
ReaderReadErr ==
  /\ rpc = "read"
  /\ ~IsOpen("transport") \/ (~data /\ hup)
  /\ Use("transport")
  /\ is_busying' = TRUE
  /\ rpc' = IF thread_running THEN "err_check" ELSE "exit"
  /\ UNCHANGED <<fdState, closeCount, driver_state, thread_uart_id, data,
                 hwErrorSent, opened>>
  /\ UNCHANGED readerFrame

\* where the reader goes once scomm_vendor_send_to_host returns
AfterSend(pc) == IF pc \in {"fwd_check", "fwd_write"} THEN "loop" ELSE "exit"

\* scomm_vendor_send_to_host: pthread_mutex_lock(&write2host_lock), then
\* while (length > 0 && thread_running): only the reader of port 0 takes
\* the lock, so it is never contended
ReaderSendCheck ==
  /\ rpc \in {"fwd_check", "err_check"}
  /\ rpc' = CASE ~thread_running     -> AfterSend(rpc)
               [] rpc = "fwd_check"  -> "fwd_write"
               [] OTHER              -> "err_write"
  /\ UNCHANGED <<fdState, closeCount, usedAfterClose, driver_state,
                 is_busying, thread_uart_id, data, hwErrorSent>>
  /\ UNCHANGED readerFrame

\* write(uart_fd[1], ...) of the whole frame: the stream socket is blocking,
\* so the call waits, with is_busying still set, while the bridge is full;
\* length is then 0 and the loop ends (-1 and 0, retried while
\* thread_running, need the stack's end closed, which only port_close does
\* and only after the join)
ReaderSendWrite ==
  /\ rpc \in {"fwd_write", "err_write"}
  /\ toHost < BridgeCap
  /\ Use("uart1")
  /\ toHost' = toHost + 1
  /\ hwErrorSent' = (hwErrorSent \/ rpc = "err_write")
  /\ rpc' = AfterSend(rpc)
  /\ UNCHANGED <<hal, spc, fdState, closeCount, fdValid, epollReg,
                 thread_running, driver_state, is_busying,
                 recv_comm_thread_running, thread_uart_id, joined, data, hup,
                 hostData, ctrlSent, hostSent, opened, wake,
                 logVars>>

\* mutant: the exit path without is_busying = FALSE
ReaderExitKeepsBusy ==
  /\ rpc = "exit"
  /\ thread_uart_id' = FALSE
  /\ rpc' = "done"
  /\ UNCHANGED <<fdState, closeCount, usedAfterClose, driver_state, data,
                 is_busying, hwErrorSent, opened>>
  /\ UNCHANGED readerFrame

\* after the loop: is_busying = FALSE; thread_uart_id = -1; return
ReaderExit ==
  /\ rpc = "exit"
  /\ is_busying' = FALSE
  /\ thread_uart_id' = FALSE
  /\ rpc' = "done"
  /\ UNCHANGED <<fdState, closeCount, usedAfterClose, driver_state, data,
                 hwErrorSent, opened>>
  /\ UNCHANGED readerFrame
-----------------------------------------------------------------------------
(***************************************************************************)
(* Reactor thread, scomm_vendor_recv_socket_thread: epoll_wait (500 ms) on *)
(* uart_fd[1] and signal_fd[1], and scomm_vendor_recv_rawdata when        *)
(* uart_fd[1] is readable: a frame from the host, or end of file once      *)
(* uart_fd[0] is closed.                                                   *)
(***************************************************************************)
reactorFrame == <<hal, rpc, fdState, closeCount, fdValid, epollReg,
                  thread_running, is_busying, recv_comm_thread_running,
                  thread_uart_id, joined, data, hup, ctrlSent, hostSent,
                  hwErrorSent, opened, toHost, wake,
                  logVars>>

\* while (thread_running); leaving it returns from the thread
ReactorLoop ==
  /\ spc = "loop"
  /\ spc' = IF thread_running THEN "wait" ELSE "done"
  /\ UNCHANGED <<usedAfterClose, driver_state, hostData>>
  /\ UNCHANGED reactorFrame

Uart1Ready == epollReg /\ (hostData \/ ~IsOpen("uart0"))

ReactorEvent ==
  /\ spc = "wait"
  /\ Uart1Ready
  /\ Use("epoll")
  /\ spc' = "read"
  /\ UNCHANGED <<driver_state, hostData>>
  /\ UNCHANGED reactorFrame

ReactorTimeout ==
  /\ spc = "wait"
  /\ ~Uart1Ready
  /\ Use("epoll")
  /\ spc' = "loop"
  /\ UNCHANGED <<driver_state, hostData>>
  /\ UNCHANGED reactorFrame

\* recv_rawdata reads a whole frame from uart_fd[1] and, on UART with a
\* power node, writes the wake byte to btpw_fp; it then captures the frame
\* (skw_btsnoop_capture) before its write loop
ReactorReadFrame ==
  /\ spc = "read"
  /\ IsOpen("uart1") /\ hostData
  /\ usedAfterClose' = usedAfterClose
                       \cup {f \in {"uart1"} \cup (IF wake THEN {"btpw"} ELSE {}) :
                             ~IsOpen(f)}
  /\ hostData' = FALSE
  /\ spc' = "cap"
  /\ UNCHANGED driver_state
  /\ UNCHANGED reactorFrame

\* the type byte read returns <= 0 (EOF after uart_fd[0] was closed, or
\* EBADF once uart_fd[1] is closed): return
ReactorReadFail ==
  /\ spc = "read"
  /\ ~IsOpen("uart1") \/ (~hostData /\ ~IsOpen("uart0"))
  /\ Use("uart1")
  /\ spc' = "loop"
  /\ UNCHANGED <<driver_state, hostData>>
  /\ UNCHANGED reactorFrame

\* write(scomm_vnd[0].fd, ...) after the driver_state test; on -1 return
ReactorWrite ==
  /\ spc = "write"
  /\ Use("transport")
  /\ spc' = "loop"
  /\ UNCHANGED <<driver_state, hostData>>
  /\ UNCHANGED reactorFrame

-----------------------------------------------------------------------------
(***************************************************************************)
(* The capture files (skw_btsnoop.c, skw_log.c), written by both threads:  *)
(* the reader captures each controller frame and writes vendor log frames; *)
(* the reactor captures each host frame.  A length is counted in frames.  *)
(* skwlog_lock is held only inside one step, so it is implicit; the        *)
(* btsnoop lock spans the rotation and is explicit.  The files are closed  *)
(* only by cleanup(), after the port's close, which is not modelled.       *)
(***************************************************************************)
pc(t) == IF t = "reader" THEN rpc ELSE spc

Goto(t, v) == IF t = "reader" THEN rpc' = v /\ UNCHANGED spc
                              ELSE spc' = v /\ UNCHANGED rpc

\* where a thread goes once skw_btsnoop_capture returns: the reader sends
\* the frame to the host; the reactor enters its write loop, whose test
\* reads driver_state
AfterCapture(t) == CASE t = "reader" -> "fwd_check"
                     [] driver_state -> "write"
                     [] OTHER        -> "loop"

\* a write(fd) of a capture file: recorded if fd is a closed descriptor
FileWrite(f, fd) == usedAfterClose' = IF fd = "stale" THEN usedAfterClose \cup {f}
                                                      ELSE usedAfterClose

captureFrame == <<hal, fdState, closeCount, fdValid, epollReg, thread_running,
                  driver_state, is_busying, recv_comm_thread_running,
                  thread_uart_id, joined, data, hup, hostData, ctrlSent,
                  hostSent, hwErrorSent, opened, toHost, wake>>

\* skw_btsnoop_capture: if (!btsnoop_log_en || hci_btsnoop_fd == -1) return,
\* tested before the lock is taken
CapCheck(t) ==
  /\ pc(t) = "cap"
  /\ Goto(t, IF snoopFd = "none" THEN AfterCapture(t) ELSE "cap_lock")
  /\ UNCHANGED <<usedAfterClose, logVars>>
  /\ UNCHANGED captureFrame

\* pthread_mutex_lock(&btsnoop_log_lock); the record header and the packet
\* through skw_btsnoop_write, which skips fd -1; btsnoop_rev_length += len;
\* at the limit close(hci_btsnoop_fd), hci_btsnoop_fd = -1 and
\* skw_btsnoop_open with the lock still held; else unlock
CapLocked(t) ==
  /\ pc(t) = "cap_lock" /\ snoopLock = "free"
  /\ IF snoopFd # "none" THEN FileWrite("snoop", snoopFd)
                         ELSE UNCHANGED usedAfterClose
  /\ snoopLen' = snoopLen + 1
  /\ IF snoopLen + 1 >= SnoopLimit
     THEN /\ snoopFd' = "none" /\ snoopLock' = t /\ Goto(t, "snoop_open")
     ELSE /\ Goto(t, AfterCapture(t)) /\ UNCHANGED <<snoopFd, snoopLock>>
  /\ UNCHANGED <<logFd, logLen>>
  /\ UNCHANGED captureFrame

\* skwlog_reopen(TRUE): under skwlog_lock, skwlog_rev_length = 0, close the
\* log if open and skwlog_open(TRUE), which opens nothing without
\* btcp_log_en; skwlog_write in the rotation of skwlog_write does the same
LogReopened(ok) == IF LogEn /\ ok THEN "open" ELSE "none"

\* skw_btsnoop_open at the rotation (btsnoop_rev_length = 0; it returns at
\* once if hci_btsnoop_fd != -1).  With save_log and slice the file is over
\* 1 GB: remove the .last file and rename; the test
\* !rename(...) && errno != ENOENT returns, without reopening, after a
\* rename that succeeded while errno held a stale value; otherwise
\* skwlog_reopen(TRUE), whose skwlog_print_current_time writes one record
\* to a log that opened.  Then open the file and write its header; the
\* capture unlocks.
SnoopOpen(t) ==
  /\ pc(t) = "snoop_open"
  /\ snoopLen' = 0
  /\ snoopLock' = "free"
  /\ Goto(t, AfterCapture(t))
  /\ \E staleErrno \in BOOLEAN, logOk \in OpenResults, snoopOk \in OpenResults :
       CASE snoopFd # "none" \/ (SaveLog /\ Slice /\ staleErrno) ->
              UNCHANGED <<snoopFd, logFd, logLen>>
         [] SaveLog /\ Slice ->
              /\ logFd' = LogReopened(logOk)
              /\ logLen' = IF logFd' = "open" THEN 1 ELSE 0
              /\ snoopFd' = IF snoopOk THEN "open" ELSE "none"
         [] OTHER ->
              /\ snoopFd' = IF snoopOk THEN "open" ELSE "none"
              /\ UNCHANGED <<logFd, logLen>>
  /\ UNCHANGED usedAfterClose
  /\ UNCHANGED captureFrame

\* skwlog_write: if (skwlog_fp > 0), tested before the lock is taken
LogCheck ==
  /\ rpc = "log"
  /\ rpc' = IF logFd # "none" THEN "log_lock" ELSE "loop"
  /\ UNCHANGED <<spc, usedAfterClose, logVars>>
  /\ UNCHANGED captureFrame

\* under skwlog_lock: write(skwlog_fp), skwlog_rev_length += length; at the
\* limit skwlog_rev_length = 0, close, skwlog_fp = -1 and skwlog_open(TRUE)
LogLocked ==
  /\ rpc = "log_lock"
  /\ IF logFd # "none" THEN FileWrite("log", logFd)
                       ELSE UNCHANGED usedAfterClose
  /\ \E ok \in OpenResults :
       IF logLen + 1 >= LogLimit
       THEN logFd' = LogReopened(ok) /\ logLen' = 0
       ELSE logLen' = logLen + 1 /\ UNCHANGED logFd
  /\ rpc' = "loop"
  /\ UNCHANGED <<spc, snoopFd, snoopLen, snoopLock>>
  /\ UNCHANGED captureFrame

CaptureSteps(t) == CapCheck(t) \/ CapLocked(t) \/ SnoopOpen(t)

-----------------------------------------------------------------------------
(* The environment.                                                        *)

CtrlData ==
  /\ IsOpen("transport") /\ ~hup /\ ~data
  /\ ctrlSent < MaxCtrlData
  /\ data' = TRUE
  /\ ctrlSent' = ctrlSent + 1
  /\ UNCHANGED <<hal, rpc, spc, fdState, closeCount, usedAfterClose, fdValid,
                 epollReg, thread_running, driver_state, is_busying,
                 recv_comm_thread_running, thread_uart_id, joined, hup,
                 hostData, hostSent, hwErrorSent, opened, toHost, wake,
                 logVars>>

CtrlHangup ==
  /\ HupMayOccur /\ ~hup /\ IsOpen("transport")
  /\ hup' = TRUE
  /\ UNCHANGED <<hal, rpc, spc, fdState, closeCount, usedAfterClose, fdValid,
                 epollReg, thread_running, driver_state, is_busying,
                 recv_comm_thread_running, thread_uart_id, joined, data,
                 hostData, ctrlSent, hostSent, hwErrorSent, opened, toHost, wake,
                 logVars>>

\* the host stack writes a frame while the port is open for it
HostWrite ==
  /\ hal = "open" /\ ~hostData
  /\ hostSent < MaxHostWrites
  /\ hostData' = TRUE
  /\ hostSent' = hostSent + 1
  /\ UNCHANGED <<hal, rpc, spc, fdState, closeCount, usedAfterClose, fdValid,
                 epollReg, thread_running, driver_state, is_busying,
                 recv_comm_thread_running, thread_uart_id, joined, data, hup,
                 ctrlSent, hwErrorSent, opened, toHost, wake,
                 logVars>>

\* the stack reads a frame from its end of the bridge, uart_fd[0]
StackRead ==
  /\ IsOpen("uart0") /\ toHost > 0
  /\ toHost' = toHost - 1
  /\ UNCHANGED <<hal, rpc, spc, fdState, closeCount, usedAfterClose, fdValid,
                 epollReg, thread_running, driver_state, is_busying,
                 recv_comm_thread_running, thread_uart_id, joined, data, hup,
                 hostData, ctrlSent, hostSent, hwErrorSent, opened, wake,
                 logVars>>

-----------------------------------------------------------------------------
OpenSteps == UserialOpen \/ SocketOpen \/ OpenReady
CloseSteps == PortCloseStart \/ BusyWait \/ SignalClose \/ CloseTransport \/ JoinReader
              \/ CloseUart0 \/ CloseUart1 \/ JoinReactor \/ CloseRest
              \/ VendorCloseTail
ReaderSteps == ReaderStart \/ ReaderLoop \/ ReaderPollIn \/ ReaderPollHup
               \/ ReaderPollIdle \/ ReaderReadData \/ ReaderReadEof
               \/ ReaderReadErr \/ ReaderSendCheck \/ ReaderSendWrite
               \/ CaptureSteps("reader") \/ LogCheck \/ LogLocked
               \/ ReaderExit
ReactorSteps == ReactorLoop \/ ReactorEvent \/ ReactorTimeout
                \/ ReactorReadFrame \/ ReactorReadFail \/ ReactorWrite
                \/ CaptureSteps("reactor")
EnvSteps == CtrlData \/ CtrlHangup \/ HostWrite \/ StackRead

Next == OpenSteps \/ UserialClose \/ CloseSteps \/ ReaderSteps
        \/ ReactorSteps \/ EnvSteps

(***************************************************************************)
(* The threads are scheduled by the OS, and their polls and epoll waits   *)
(* are bounded by a 500 ms timeout: their steps are weakly fair.  The HAL  *)
(* thread, once in open or close, runs it to the end.  When the stack      *)
(* closes the port (UserialClose), the controller and the host are not    *)
(* constrained, with one exception: the reader's write into the bridge    *)
(* has no timeout and returns only when the stack reads its end, so the   *)
(* stack is assumed to keep reading uart_fd[0] until the library closes   *)
(* it (WF on StackRead).  A stack that stops reading first leaves the      *)
(* reader blocked with is_busying set and port_close spinning on it.      *)
(***************************************************************************)
Spec == Init /\ [][Next]_vars
        /\ WF_vars(OpenSteps) /\ WF_vars(CloseSteps)
        /\ WF_vars(ReaderSteps) /\ WF_vars(ReactorSteps)
        /\ WF_vars(StackRead)

-----------------------------------------------------------------------------
\* Once port_close has returned, no thread of the port is left running and
\* every descriptor socket_open created has been closed.
CloseReleasesPort ==
  hal = "closed" =>
    /\ \A f \in Fds : fdState[f] # "open"
    /\ rpc = "done" /\ spc = "done"

\* port_close returns: the busy wait, the joins and the threads' loops all
\* end once thread_running is cleared, for any controller input and any
\* host that keeps reading its end of the bridge (WF on StackRead).
CloseTerminates == hal = "port_close" ~> hal = "closed"

\* No thread polls, reads, writes or ioctls a descriptor after it has been
\* closed: the order flag, drain, signal, join, close that the close path
\* is meant to keep.
NoUseAfterClose == usedAfterClose = {}

\* Every descriptor is closed at most once (a second close may close a
\* descriptor number already reused by another open).
CloseOnce == \A f \in Fds : closeCount[f] <= 1

\* The reader thread, created joinable, is joined by port_close.
ReaderJoined == hal = "closed" => "reader" \in joined

-----------------------------------------------------------------------------
(***************************************************************************)
(* The port as the stack sees it (UserialPort).  The open has happened     *)
(* once socket_open has started the threads; the close has begun once     *)
(* USERIAL_CLOSE is called and ends when it returns.                       *)
(***************************************************************************)
PortState ==
  CASE hal \in {"idle", "socket_open"} -> "idle"
    [] hal = "open_failed"            -> "failed"
    [] hal \in {"wait_ready", "open"}  -> "open"
    [] hal = "closed"                 -> "released"
    [] OTHER                          -> "closing"

ThreadsRunning == rpc \notin {"none", "done"} \/ spc \notin {"none", "done"}

Port == INSTANCE UserialPort
          WITH port <- PortState, hostFrame <- hostData, busy <- ThreadsRunning

\* The open, forward and close of the two threads and the HAL thread
\* implement the port the stack is promised: a failed open starts nothing;
\* a host frame written while the port is open is taken by the reactor;
\* no thread ends before USERIAL_CLOSE and both have ended when it returns;
\* and it returns.
PortRefinement == Port!Spec
=============================================================================
