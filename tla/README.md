# TLA+ models of the seekwave Bluetooth vendor library and Wi-Fi HAL

This directory holds TLA+ models of `src/skwbt/src/scom_vendor.c`, the part of the
seekwave (SKW) Bluetooth vendor library that owns the transport to the controller, the library entry
points of `bt_vendor_skw.c`, the BD address code of `skw_gen_addr.c`, and the
Wi-Fi HAL `src/wlan/wifi_hal`.
The models are checked with TLC. Every module is translated from the C source.
`PROJECT.json` maps each definition to the lines it models. It also lists the
runs, the mutants that show each property can fail, the findings, and the hazards.

## The system

The Android Bluetooth stack loads `libbt-vendor`. Through `bt_vendor_skw.c` the
stack asks the library to open the UART or SDIO port, to configure the firmware,
and to close the port. Inside `scom_vendor.c` these parts work together:

* **The port (`scomm_vnd[i]`).** Each port has a transport fd, a socketpair
  `uart_fd[0..1]` to the stack (the host bridge), a signal socketpair, and an
  epoll fd. It also has the flags `thread_running`, `driver_state`, `is_busying`
  and `recv_comm_thread_running`.
* **The reader thread.** `scomm_vendor_recv_scomm_thread` polls the transport.
  It reads into `read_buffer`, carrying `last_len` bytes over from the last read,
  and cuts HCI frames off the front of the buffer. It sends log frames to
  `skwlog_write` and every other frame to `scomm_vendor_send_to_host`.
* **The reactor thread.** `scomm_vendor_recv_socket_thread` waits on epoll for
  the stack's side of the socketpair. `scomm_vendor_recv_rawdata` reassembles one
  HCI packet from it and writes the packet to the transport.
* **Open and close.** `scomm_vendor_socket_open` creates the descriptors, starts
  both threads, and waits until the reader runs. `scomm_vendor_port_close` stops
  the reader and closes the transport. `scomm_vendor_socket_close` stops the
  reactor and closes the rest.
* **Firmware configuration.** `scomm_vendor_config_start` sends HCI_Reset. From
  then on `scomm_vendor_config_callback` runs once per command-complete event.
  It reads the local version and picks the NV file for the chip. It uploads that
  file in NVDS commands, as batched triplets for chip 6316 and as 252-byte blocks
  for every other chip, then writes the BD address and reports the result.

The threads share the `scomm_vnd` fields, and nothing locks them. Those races
are what PortLifecycle models.

The Wi-Fi vendor HAL (`src/wlan/wifi_hal/main.cpp`) is a separate library.
`skw_wifi_initialize` allocates a `hal_info` with a socketpair `exit_socks`, a
command netlink socket `nl_hal` and an event socket `nl_event`. The framework
runs `skw_wifi_event_loop` on a thread of its own: it polls `nl_event` and
`exit_socks[1]` with no timeout and loops until `hal->exit`, then calls
`skw_wifi_deinitialize`, which frees everything. `skw_wifi_cleanup`, called
from another thread, sets `hal->exit` and writes to `exit_socks[0]` to wake the
loop. `skw_wifi_get_usable_channels` converts the framework's band and mode
masks to the driver's bit layout, sends a vendor command through `sendMsg`
(`wifi_command.cpp`), and converts the returned channels back.

## Modules

| Module | Models | State | Actions |
|---|---|---|---|
| `ScommReader` | the codec (`hci_preamble_sizes`, payload lengths, `scomm_vendor_find_valid_type`) and the reader's read/parse loop | bytes on the wire, `read_buffer` (`buf`), frames forwarded to the host and to the log | the controller emits a frame or a noise byte; `RecvScomm` is one read followed by the whole parse loop (`Parse`, a RECURSIVE operator that mirrors the `do {} while(1)` loop, including its `last_len >= 4` re-entry and the early break after a resync) |
| `MC_ScommReader` | the frames TLC uses: one of each type, plus noise | | |
| `FwConfig` | `scomm_vendor_config_start`, every case of `scomm_vendor_config_callback`, `scomm_vendor_init_err` | `hw_cfg_cb` (state, chip, file offset, position in the NV file, `nv_fp`), the callback's `p_buf`, commands sent, the result reported to the stack, and misuse of `p_buf`/`nv_fp` | one action per switch case and per outcome: `Start`, the command-complete action for each state, the TLV batch and the block send (each with its end-of-file, short-read and xmit-rejected paths), and a completion arriving in `HW_CFG_INIT` |
| `WifiHal` | the Wi-Fi HAL handle's life, `skw_wifi_get_ifaces` and `skw_wifi_get_usable_channels` | `hal` (none, live, freed), the state of the four sockets, `hal->exit`, the handler, whether the exit byte is readable, the program counters of the event-loop thread and the cleanup thread, queued netlink events, the last channel query, misuse of released resources, `hal->interfaces` and `nr_interfaces`, the latest `get_ifaces` call | `skw_wifi_initialize` with each failure return (`InitFailAt`), the event loop's poll and its `while (!hal->exit)` test, `skw_wifi_deinitialize`, cleanup in two steps (set exit, write), a netlink event, the channel query with its conversions as RECURSIVE operators over the bit loops of the C code, and `skw_wifi_get_ifaces` as one step: the constructor's memset of `ifaces[0]` only (`CmdIface`; other slots hold a value of `Garbage`), the parser's IFINDEX-else-WDEV (`ParseIface`), the copy into `hal->interfaces`, and the early return on an empty dump. The builders' WDEV-else-IFINDEX choice is `Addressee`; the channel query records the address it builds on `interfaces[0]` |
| `MC_WifiHal` | channel replies: a NACK, an empty reply, and channels with every SKW width and mode (including unknown ones); interface dumps: empty, one station, a station and a nameless netdev-less wdev, a P2P device before a second station | | |
| `MC_FwConfig` | NV files as triplet lists and file sizes, well-formed, truncated and oversized | | |
| `PortLifecycle` | one open and close of port 0 through the library's `BT_VND_OP_USERIAL_OPEN`/`CLOSE` (`bt_vendor_skw.c`: the `btboot` and `btpw` device files, UART or USB/SDIO transport, `write_bt_state` on close, `scomm_vendor_close`), and inside it `socket_open`, `port_close`, `socket_close`, the reader's poll/read/hang-up/exit, its `scomm_vendor_send_to_host` of a completed frame or of the hardware-error event, the reactor's loop with `recv_rawdata` (including the wake byte to `btpw_fp`), and the capture files both threads write: `skw_btsnoop_capture` with its rotation through `skw_btsnoop_open` (which may call `skwlog_reopen`), and the reader's `skwlog_write` | program counters of the HAL, the reader and the reactor; the state of each of the eight fds, how often each was closed, and uses after close; the flags of `scomm_vnd[0]`; `thread_uart_id`; frames in the bridge the stack has not read (`toHost`); `hci_btsnoop_fd` and `skwlog_fp` (-1, open, or a closed descriptor), their lengths in frames, the holder of `btsnoop_log_lock` | each statement group of the C code between two points where another thread can interleave is one action. A close or write that touches a closed fd is recorded, not blocked. The reader's write into the bridge blocks while it holds `BridgeCap` unread frames, as a blocking stream socket does. The stack reading its end is `StackRead`. The capture code is written once for both threads (`CapCheck(t)`, `CapLocked(t)`, `SnoopOpen(t)`). `skwlog_lock` is held only within one step, so it needs no variable. |
| `UserialPort` | the contract the stack relies on for a port: the open fails or starts the threads; a host frame written while the port is open is taken; the threads end only after the close begins; and the close returns once they have ended | `port`, `hostFrame`, `busy` | `Open`, `HostWrite`, `Forward`, `Close`, `Stop`, `Release` |

Data is abstracted wherever the properties cannot tell it apart. FwConfig treats
an NV file as the lengths of its triplets and blocks, not as its bytes.
PortLifecycle treats a frame as a token. ScommReader keeps real bytes, because
its properties are about framing.

## Runs

| Run | Expect | What it shows |
|---|---|---|
| `reader_clean` | pass | With clean streams of all five types (event, ACL, SCO, ISO, log) split into reads in every possible way, the host and the log each receive a prefix of the frames sent, in order (`ForwardedInOrder`). Every frame is eventually dispatched (`EveryFrameDispatched`). |
| `reader_resync` | pass | With noise bytes between frames of the types the resync scan knows, no frame is forged, dropped or reordered, and the buffer never exceeds its size. |
| `reader_iso_after_noise` | violation | `find_valid_type` does not list ISO, so an ISO frame after noise is discarded and the frames after it are forwarded. |
| `fw_ok` | pass | For each chip id (6316, 6160, and an unknown id that maps to 6160) and well-formed NV files, several properties hold. The NVDS chunks are at most 252 bytes, numbered 0, 1, 2… (`NvChunking`). Success is reported only after the whole file and the address were sent (`UploadComplete`). The bootstrap always ends with a report (`BootstrapTerminates`). The Write-BD-Address command carries the platform address byte-reversed exactly when the vendor storage opened, the ioctl succeeded and the address is not all zeros, and is skipped otherwise (`BdAddrFromPlatform`). |
| `fw_faults` | pass | With missing, truncated or oversized files and with `xmit_cb` rejections, success is still never reported early. |
| `fw_short_read_uaf` | violation | A truncated triplet makes `init_err` free `p_buf`, and the same buffer is then passed to `xmit_cb`. |
| `port_ok` | pass | `port_close` followed by `socket_close` always returns, given the threads' fairness (`CloseTerminates`). When close has returned, both threads have ended and every fd is closed (`CloseReleasesPort`). Under the mapping `PortState` (from `hal`), `hostFrame <- hostData` and `busy <- ThreadsRunning`, every behaviour of PortLifecycle is a behaviour of `UserialPort` (`PortRefinement`). This includes the liveness: a host frame written while the port is open is eventually taken by the reactor. |
| `port_use_after_close` | violation | The transport is closed before the reader is joined, and the reader polls it after the close. |
| `port_double_close` | violation | After a hang-up the reader closes the transport, and `port_close` closes it again. |
| `port_reader_not_joined` | violation | A reader that exits before the join point sets `thread_uart_id = -1`, so it is never joined. |
| `wifi_ok` | pass | For every failure of `skw_wifi_initialize`, 4-bit band and mode masks, and replies longer than `max_size`, the driver is asked for exactly the requested bands and for the STA and SoftAP modes, and the first `max_size` channels of the reply come back in order with their frequency, the same width and the STA and SoftAP bits of their modes (`UsableChannelsConverted`). Bands and widths are compared by name (`HalBandName`, `SkwBandName`, `HalWidthName`, `SkwWidthName`, taken from the two headers), not through the conversion tables. The P2P bits are not checked, because the code and its documentation encode them differently (see the hazard at `main.cpp:1635`). Once cleanup starts, the loop always ends, the handler is called and every socket is released (`CleanupCompletes`). After a `get_ifaces` call that succeeded, `nr_interfaces` is the dump's length, the handed-out entries carry the handle and the dumped names, later slots are clear, and `interfaces[0]` and every channel query since are addressed to the first dumped interface (`IfaceTableFromDump`). |
| `wifi_cleanup_uaf` | violation | A netlink event wakes the loop after cleanup set `hal->exit`. The loop frees `hal` and closes `exit_socks` before cleanup writes `hal->exit_socks[0]`. |

`PROJECT.json` names a mutant for each property of each passing run. A mutant is a
plausible bug in the mapped definition: a length without the type byte, one frame
per read, a read size that ignores `last_len`, an off-by-one in the batch limit,
`<=` for `<` at end of file, a close path that keeps the epoll fd, an exit that
leaves `is_busying` set, or a `socket_open` that never adds `uart_fd[1]` to the
epoll set, or a btsnoop rotation that leaves `hci_btsnoop_fd` set after closing it. TLC finds each mutant's property violated.

## Bounds

* **ScommReader.** The buffer is 8 bytes instead of 2056. Every test frame is
  4–6 bytes long, so a read can still end inside the header or the payload,
  and two frames can sit in the buffer together. It allows up to 3 frames
  (4 with noise). That covers every frame type in the first, middle and last
  position, and gives `last_len` every value the parse loop branches on.
  uint16 wrap is kept in `PktLen`. It is not exercised.
* **FwConfig.**
  * Triplet files are 1–3 triplets long. They include one that fills a
    252-byte batch exactly, which forces a second batch.
  * Block files are 0, 100, 252 and 600 bytes long. 252 exercises the
    exact-multiple path.
  * These sizes cover every branch of the NV_SEND case.
* **PortLifecycle.** Up to 2 controller reads and 2 host writes (1 in `port_ok`),
  and at most one hang-up. Either thread can therefore be in every program location when the
  close starts. The bridge holds one unread frame (`BridgeCap = 1`), so the
  second forwarded frame blocks the reader until the stack reads. The btsnoop
  file rotates after 2 frames and the vendor log after 2 records. Three frames
  therefore rotate the snoop file once, with either thread rotating while the
  other waits. `SaveLog` and `Slice` are TRUE, the configuration in which the
  rotation also reopens the vendor log under the btsnoop lock. Every open of a
  capture file may fail.
* **WifiHal.** Up to two netlink events, enough for one to arrive before and
  one after cleanup sets `hal->exit`. Masks of four bits cover every band and
  interface type and one unknown bit. Replies of up to two channels with
  `max_size` 1 and 2 cover clamping and no clamping. Band masks {0, 5, 8, 15}
  and mode masks {0, 2, 7, 12} still set every bit alone or together with
  others. Two `get_ifaces` calls let a longer dump be followed by a shorter or
  an empty one. `SKW_NR_IFACE` is 2 instead of 8: the parser and the copy
  treat every slot alike, and two slots are enough to tell the zeroed first
  slot from an uninitialized one. `Garbage = {0, 9}` gives an uninitialized
  `wdev_idx` that is zero or not.

ScommReader and FwConfig end when their inputs run out, and PortLifecycle ends
once it has closed. For that reason all runs set `CHECK_DEADLOCK FALSE`.

## Fairness

The reader and the reactor are OS threads. Each of their polls times out after
500 ms, so they keep taking steps, and their steps are weakly fair. Once
`port_close` has started, it runs to completion on the HAL thread, so the close
and open steps are weakly fair. The controller, the host and the moment the
close starts are environment choices, and they are not fair. In ScommReader the
read is weakly fair: poll reports POLLIN whenever data is waiting. FwConfig
assumes that the controller answers every command, which is what
`BootstrapTerminates` depends on. In WifiHal the event-loop thread and the
thread in `skw_wifi_cleanup` are OS threads, so their steps are weakly fair.
The framework always starts the loop thread once it has a handle, so that
step is weakly fair too. Calls to cleanup and the channel query, and netlink
events, are environment choices and not fair.

The one environment step that is fair is `StackRead`, in PortLifecycle. The
reader's write into the bridge has no timeout: it returns only when the stack
reads `uart_fd[0]`. The model therefore assumes the stack keeps reading its end
until the library closes it. Without this assumption TLC reaches a hang: the
reader is blocked in the write with `is_busying` set, the bridge is full, and
`port_close` spins in its busy wait. `PROJECT.json` lists this as a hazard at
`scom_vendor.c:603`.

## Not modelled

* **Ports 1–3 and the SDIO paths.** Their control flow differs: they have no
  reactor thread, so closing one joins `thread_socket_id` 0, and the
  USB/SDIO decision routes ACL, SCO and ISO frames to them. Both are listed as
  hazards at `bt_vendor_skw.c:404`; modelling them needs a thread set per port.
* **Failure returns of `socket_open`.** Only a failed open of `btboot` or of
  the transport is modelled; failing `socketpair`/`epoll_create` calls are not.
* **The lock and the -1/0 retry of `scomm_vendor_send_to_host`.** Only the
  port-0 reader takes `write2host_lock`, so it is never contended. A write
  returns -1 or 0 only once the stack's end is closed, and only `socket_close`
  closes it, after the reader has been joined.
* **The parse loop's several frames per read.** PortLifecycle forwards at most
  one frame per read. ScommReader covers the rest.
* **The partial-read loops of `recv_rawdata`.** PortLifecycle reads a host
  frame in one step.
* **File contents and the capture files' init and cleanup.** The records'
  bytes, timestamps and file names are not modelled. Neither are `skwlog_init`,
  `skw_btsnoop_init` and `cleanup()`. Init only chooses whether each file is
  open. `skw_gen_addr.c` is file I/O.
* **Library dispatch.** The `op` cases other than USERIAL_OPEN/CLOSE and the
  power and firmware-config cases of `bt_vendor_skw.c` only forward to the
  parts modelled above, or do file I/O.
* **The rest of the Wi-Fi HAL.** This covers `skw_wifi_get_iface_name`, a
  `strncpy` that changes no state, and dumps longer than `SKW_NR_IFACE`,
  which overwrite the stack past `ifaces[]` with no outcome to model. It
  also covers the vendor commands that copy strings and buffers, and the
  some 80 entry points that only return `WIFI_ERROR_NOT_SUPPORTED`. TLC
  reaches two `get_ifaces` defects, listed as hazards, that no property
  holding of the code can state. First, a second interface with an IFINDEX
  keeps an uninitialized `wdev_idx` (wlan1 gets WDEV 9). Second, after an
  empty dump `nr_interfaces` counts cleared entries whose `hal_handle` is
  NULL.
* **`driver_cmd_nl80211.c`.** Not modelled yet; see item 6 of the plan.

`PROJECT.json` lists each of these as a component with the reason.

## Plan for later work

1. `HostReader`: `scomm_vendor_recv_rawdata` with partial reads. It should
   show the over-read when a short read is followed by a read of
   `need_read_lens`, and the endless loop on a read of 0 that keeps
   `socket_close` from joining the reactor.
2. Ports 1–3 with their own readers sharing `write2host_lock` in
   `scomm_vendor_send_to_host`. The check would be that frames are not
   interleaved on the bridge. It would also show the USB/SDIO classification
   at `bt_vendor_skw.c:404`, which sends ACL, SCO and ISO frames to ports that
   are not open.
3. Give `ScommReader` a run with a frame longer than the buffer (the stall at
   line 728) and one with a parameterless event behind another frame (the
   `last_len >= 4` threshold).
4. Ports 1–3 on USB/SDIO, to show `pthread_join` on a `thread_uart_id` of 0
   (`scom_vendor.c:989`), and repeated power cycles (`btpw_fp` not reset,
   line 1120). USERIAL_OPEN/CLOSE and `scomm_vendor_close` are already in
   PortLifecycle.
5. A capture-completeness run. It would state that every frame crossing the
   library while capture is enabled reaches the btsnoop file. PortLifecycle
   already reaches the two ways this fails: the stale `errno` test after a
   successful rename (`skw_btsnoop.c:74`) and the fd test outside the lock
   during a rotation (`skw_btsnoop.c:181`).
6. `DriverCmd`: `wpa_driver_nl80211_driver_cmd`, with the static
   `drv_errors` counter, the HANGED report after
   `DRV_NUMBER_SEQUENTIAL_ERRORS` failed private commands, and the
   re-routing of a netdev-less P2P device to its parent. The check would be
   that HANGED is reported for every streak of failures. Because the counter
   is shared by all interfaces, a success on one interface hides failures
   on another.
