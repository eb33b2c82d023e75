------------------------------ MODULE WifiHal ------------------------------
(***************************************************************************)
(* The seekwave Wi-Fi vendor HAL (src/wlan/wifi_hal/main.cpp): the life of *)
(* its hal_info handle and the one query that converts data, and what each *)
(* of them does with the handle's resources.                               *)
(*                                                                         *)
(* The Wi-Fi framework is the environment.  It calls skw_wifi_initialize;  *)
(* if that returns a handle, it runs skw_wifi_event_loop in a thread of    *)
(* its own, may call skw_wifi_get_usable_channels, and finally calls       *)
(* skw_wifi_cleanup from another thread.  The kernel sends netlink events  *)
(* to the event socket and answers the vendor command.                     *)
(*                                                                         *)
(* The event loop's thread frees the handle (skw_wifi_deinitialize) once   *)
(* it sees hal->exit; cleanup sets hal->exit and then writes to            *)
(* hal->exit_socks[0].  Resources are tracked so that a leak, or a use of  *)
(* a freed handle or closed socket, is recorded in misuse.                 *)
(***************************************************************************)
EXTENDS Integers, Sequences, FiniteSets, Bitwise, TLC

CONSTANTS
  InitFailAt,     \* the step at which skw_wifi_initialize may fail, or "none"
  MaxNlEvents,    \* bound on the netlink events the kernel sends
  BandMasks,      \* wlan_mac_band masks the framework may ask about
  IfaceMasks,     \* interface-type masks the framework may ask about
  ChanReplies,    \* vendor replies: sequences of skw_usable_chan records, or "nack"
  MaxSizes,       \* max_size values the framework may pass
  Dumps,          \* NL80211_CMD_GET_INTERFACE dumps: sequences of IfaceMsg
  SKW_NR_IFACE,   \* length of the interface tables (8 in main.h)
  Garbage,        \* values an uninitialized int of the stack may hold
  MaxIfaceCalls   \* bound on the framework's skw_wifi_get_ifaces calls

VARIABLES
  hal,            \* the hal_info allocation: "none", "live" or "freed"
  res,            \* state of each socket the handle owns
  initRes,        \* what skw_wifi_initialize returned: "idle", "ok", "failed"
  loopPc,         \* program counter of the event-loop thread
  exitFlag,       \* hal->exit
  handlerSet,     \* hal->cleaned_up_handler is set
  exitByte,       \* the exit byte is readable on exit_socks[1]
  cleanPc,        \* program counter of the thread in skw_wifi_cleanup
  handlerCalled,  \* the cleaned-up handler has been called
  nlPending,      \* netlink events queued on the event socket
  nlSent,         \* netlink events sent so far
  query,          \* the last get_usable_channels call and its result
  misuse,         \* history: resources leaked or used after release
  interfaces,     \* hal->interfaces: interface_info per table slot
  nr_interfaces,  \* hal->nr_interfaces
  ifaceCall       \* the latest get_ifaces call: its dump and its result

vars == <<hal, res, initRes, loopPc, exitFlag, handlerSet, exitByte, cleanPc,
          handlerCalled, nlPending, nlSent, query, misuse, interfaces,
          nr_interfaces, ifaceCall>>
ifaceVars == <<interfaces, nr_interfaces, ifaceCall>>

-----------------------------------------------------------------------------
(* Enumerations of main.h, and those of the framework's wifi_hal.h that    *)
(* the conversions use.                                                    *)

SKW_INVALID == -1
SKW_BIT(nr) == 2^nr

SKW_CHAN_WIDTH_20 == 0
SKW_CHAN_WIDTH_40 == 1
SKW_CHAN_WIDTH_80 == 2
SKW_CHAN_WIDTH_80P80 == 3
SKW_CHAN_WIDTH_160 == 4

SKW_MODE_STA == 1
SKW_MODE_AP == 2
SKW_MODE_GC == 3
SKW_MODE_GO == 4

SKW_BAND_2GHZ == 0
SKW_BAND_5GHZ == 1
SKW_BAND_6GHZ == 2
SKW_BAND_60GHZ == 3

\* wifi_hal.h (framework): channel widths, wlan_mac_band, interface types
WIFI_CHAN_WIDTH_20 == 0
WIFI_CHAN_WIDTH_40 == 1
WIFI_CHAN_WIDTH_80 == 2
WIFI_CHAN_WIDTH_160 == 3
WIFI_CHAN_WIDTH_80P80 == 4
WIFI_CHAN_WIDTH_INVALID == -1
WLAN_MAC_2_4_BAND == 1
WLAN_MAC_5_0_BAND == 2
WLAN_MAC_60_0_BAND == 4
WLAN_MAC_6_0_BAND == 8
WIFI_INTERFACE_TYPE_STA == 0
WIFI_INTERFACE_TYPE_AP == 1
WIFI_INTERFACE_TYPE_P2P == 2

-----------------------------------------------------------------------------
(* The conversions of skw_wifi_get_usable_channels.                         *)

to_hal_band_width(skw_bw) ==
  CASE skw_bw = SKW_CHAN_WIDTH_20    -> WIFI_CHAN_WIDTH_20
    [] skw_bw = SKW_CHAN_WIDTH_40    -> WIFI_CHAN_WIDTH_40
    [] skw_bw = SKW_CHAN_WIDTH_80    -> WIFI_CHAN_WIDTH_80
    [] skw_bw = SKW_CHAN_WIDTH_160   -> WIFI_CHAN_WIDTH_160
    [] skw_bw = SKW_CHAN_WIDTH_80P80 -> WIFI_CHAN_WIDTH_80P80
    [] OTHER                         -> WIFI_CHAN_WIDTH_INVALID

to_skw_band(hal_bw) ==
  CASE hal_bw = WLAN_MAC_2_4_BAND  -> SKW_BAND_2GHZ
    [] hal_bw = WLAN_MAC_5_0_BAND  -> SKW_BAND_5GHZ
    [] hal_bw = WLAN_MAC_6_0_BAND  -> SKW_BAND_6GHZ
    [] hal_bw = WLAN_MAC_60_0_BAND -> SKW_BAND_60GHZ
    [] OTHER                       -> SKW_INVALID

to_hal_iface_mode_mask(skw_mode_mask) ==
  CASE skw_mode_mask = SKW_BIT(SKW_MODE_STA) -> SKW_BIT(WIFI_INTERFACE_TYPE_STA)
    [] skw_mode_mask = SKW_BIT(SKW_MODE_AP)  -> SKW_BIT(WIFI_INTERFACE_TYPE_AP)
    [] skw_mode_mask \in {SKW_BIT(SKW_MODE_GC), SKW_BIT(SKW_MODE_GO)}
                                             -> SKW_BIT(WIFI_INTERFACE_TYPE_P2P)
    [] OTHER                                 -> SKW_INVALID

to_skw_iface_mode_mask(hal_mode_mask) ==
  CASE hal_mode_mask = SKW_BIT(WIFI_INTERFACE_TYPE_STA) -> SKW_BIT(SKW_MODE_STA)
    [] hal_mode_mask = SKW_BIT(WIFI_INTERFACE_TYPE_AP)  -> SKW_BIT(SKW_MODE_AP)
    [] hal_mode_mask = SKW_BIT(WIFI_INTERFACE_TYPE_P2P) -> SKW_BIT(SKW_MODE_GC)
    [] OTHER                                            -> SKW_INVALID

\* mutant: the lowest set bit without the carry
LowBitNoCarry(m) == ((m - 1) ^^ m) \div 2

\* ((tmp ^ mask) + 1) >> 1 with tmp = mask - 1: the lowest set bit of mask
LowBit(m) == (((m - 1) ^^ m) + 1) \div 2

\* Each while (mask) { tmp = mask - 1; ...; mask &= tmp; } loop: convert
\* the lowest set bit, OR in the result unless it is SKW_INVALID, clear it.
RECURSIVE to_skw_band_mask(_)
to_skw_band_mask(m) ==
  IF m = 0 THEN 0
  ELSE LET band == to_skw_band(LowBit(m))
           rest == to_skw_band_mask(m & (m - 1))
       IN  IF band # SKW_INVALID THEN rest | SKW_BIT(band) ELSE rest

RECURSIVE to_hal_iface_mask(_)
to_hal_iface_mask(m) ==
  IF m = 0 THEN 0
  ELSE LET mask == to_hal_iface_mode_mask(LowBit(m))
           rest == to_hal_iface_mask(m & (m - 1))
       IN  IF mask # SKW_INVALID THEN rest | mask ELSE rest

RECURSIVE to_skw_iface_mask(_)
to_skw_iface_mask(m) ==
  IF m = 0 THEN 0
  ELSE LET mask == to_skw_iface_mode_mask(LowBit(m))
           rest == to_skw_iface_mask(m & (m - 1))
       IN  IF mask # SKW_INVALID THEN rest | mask ELSE rest

-----------------------------------------------------------------------------
Sockets == {"exit0", "exit1", "nl_hal", "nl_event"}

NoQuery == [called |-> FALSE]

\* an interface_info of a zeroed hal_info (malloc + memset in
\* skw_wifi_initialize, and the memset of skw_wifi_get_ifaces)
ZeroIface == [iface_idx |-> 0, wdev_idx |-> 0, hal_handle |-> FALSE, name |-> ""]

\* the sockets skw_wifi_initialize has created when it fails at step f,
\* and those it has freed again on its way out
Created(f) ==
  CASE f = "alloc"      -> {}
    [] f = "socketpair" -> {}
    [] f = "nl_hal"     -> {"exit0", "exit1"}
    [] f = "resolve"    -> {"exit0", "exit1", "nl_hal"}
    [] f = "nl_event"   -> {"exit0", "exit1", "nl_hal"}
    [] OTHER            -> Sockets
Freed(f) == IF f \in {"resolve", "nl_event"} THEN {"nl_hal"} ELSE {}

Init ==
  /\ hal = "none"
  /\ res = [s \in Sockets |-> "none"]
  /\ initRes = "idle"
  /\ loopPc = "idle"
  /\ exitFlag = FALSE
  /\ handlerSet = FALSE
  /\ exitByte = FALSE
  /\ cleanPc = "idle"
  /\ handlerCalled = FALSE
  /\ nlPending = 0
  /\ nlSent = 0
  /\ query = NoQuery
  /\ misuse = {}
  /\ interfaces = [i \in 1..SKW_NR_IFACE |-> ZeroIface]
  /\ nr_interfaces = 0
  /\ ifaceCall = [calls |-> 0, result |-> "none", dump |-> <<>>]

\* skw_wifi_initialize, with skw_wifi_hal_init and skw_wifi_event_init:
\* on failure after the socketpair, hal is freed but exit_socks are not
\* closed
skw_wifi_initialize ==
  /\ initRes = "idle"
  /\ \E f \in InitFailAt :
       LET live == Created(f) \ Freed(f) IN
       /\ res' = [s \in Sockets |-> CASE s \in live      -> "open"
                                      [] s \in Created(f) -> "closed"
                                      [] OTHER            -> "none"]
       /\ hal' = CASE f = "alloc" -> "none"
                   [] f = "none"  -> "live"
                   [] OTHER       -> "freed"
       /\ initRes' = IF f = "none" THEN "ok" ELSE "failed"
       /\ misuse' = IF f # "none" /\ live # {} THEN misuse \cup {"leak"} ELSE misuse
  /\ UNCHANGED <<loopPc, exitFlag, handlerSet, exitByte, cleanPc, handlerCalled,
                 nlPending, nlSent, query>>
  /\ UNCHANGED ifaceVars

\* The framework starts the thread running skw_wifi_event_loop once a
\* handle has been returned.
StartEventLoop ==
  /\ initRes = "ok" /\ loopPc = "idle"
  /\ loopPc' = "poll"
  /\ UNCHANGED <<hal, res, initRes, exitFlag, handlerSet, exitByte, cleanPc,
                 handlerCalled, nlPending, nlSent, query, misuse>>
  /\ UNCHANGED ifaceVars

\* The kernel multicasts an event to the event socket.
NlEvent ==
  /\ res["nl_event"] = "open"
  /\ nlSent < MaxNlEvents
  /\ nlPending' = nlPending + 1
  /\ nlSent' = nlSent + 1
  /\ UNCHANGED <<hal, res, initRes, loopPc, exitFlag, handlerSet, exitByte,
                 cleanPc, handlerCalled, query, misuse>>
  /\ UNCHANGED ifaceVars

\* poll(fd, 2, -1) returns once the event socket or exit_socks[1] is
\* readable; a netlink message is handed to skw_socket_handler.  The
\* exit byte is never read, so it stays readable.
EventLoopPoll ==
  /\ loopPc = "poll"
  /\ nlPending > 0 \/ exitByte
  /\ nlPending' = IF nlPending > 0 THEN nlPending - 1 ELSE 0
  /\ loopPc' = "check"
  /\ UNCHANGED <<hal, res, initRes, exitFlag, handlerSet, exitByte, cleanPc,
                 handlerCalled, nlSent, query, misuse>>
  /\ UNCHANGED ifaceVars

\* } while (!hal->exit);
EventLoopCheck ==
  /\ loopPc = "check"
  /\ loopPc' = IF exitFlag THEN "deinit" ELSE "poll"
  /\ UNCHANGED <<hal, res, initRes, exitFlag, handlerSet, exitByte, cleanPc,
                 handlerCalled, nlPending, nlSent, query, misuse>>
  /\ UNCHANGED ifaceVars

\* skw_wifi_deinitialize at the end of the event loop: call the cleaned-up
\* handler, free both netlink sockets, close exit_socks, free hal
skw_wifi_deinitialize ==
  /\ loopPc = "deinit"
  /\ handlerCalled' = handlerSet
  /\ res' = [s \in Sockets |-> IF res[s] = "open" THEN "closed" ELSE res[s]]
  /\ hal' = "freed"
  /\ exitByte' = FALSE
  /\ nlPending' = 0
  /\ loopPc' = "done"
  /\ UNCHANGED <<initRes, exitFlag, handlerSet, cleanPc, nlSent, query, misuse>>
  /\ UNCHANGED ifaceVars

\* skw_wifi_cleanup, up to the write: store the handler, set hal->exit
CleanupStart ==
  /\ initRes = "ok" /\ cleanPc = "idle"
  /\ handlerSet' = TRUE
  /\ exitFlag' = TRUE
  /\ cleanPc' = "write"
  /\ UNCHANGED <<hal, res, initRes, loopPc, exitByte, handlerCalled, nlPending,
                 nlSent, query, misuse>>
  /\ UNCHANGED ifaceVars

\* the rest of skw_wifi_cleanup: write(hal->exit_socks[0], "exit", 4),
\* which reads hal and writes a socket the event loop may have released
UseAfterRelease(s) ==
  (IF hal = "freed" THEN {"hal"} ELSE {}) \cup
  (IF res[s] = "closed" THEN {s} ELSE {})

\* mutant: the byte written to the end the event loop polls, so that it
\* is readable only on the end nobody polls
CleanupWriteWrongEnd ==
  /\ cleanPc = "write"
  /\ misuse' = misuse \cup UseAfterRelease("exit1")
  /\ cleanPc' = "done"
  /\ UNCHANGED <<hal, res, initRes, loopPc, exitFlag, handlerSet, exitByte,
                 handlerCalled, nlPending, nlSent, query>>
  /\ UNCHANGED ifaceVars

CleanupWrite ==
  /\ cleanPc = "write"
  /\ misuse' = misuse \cup UseAfterRelease("exit0")
  /\ exitByte' = (res["exit0"] = "open" /\ res["exit1"] = "open")
  /\ cleanPc' = "done"
  /\ UNCHANGED <<hal, res, initRes, loopPc, exitFlag, handlerSet,
                 handlerCalled, nlPending, nlSent, query>>
  /\ UNCHANGED ifaceVars

(***************************************************************************)
(* skw_wifi_get_ifaces: dump the kernel's interfaces with                  *)
(* NL80211_CMD_GET_INTERFACE into a GetInterfacesCommand on the stack,     *)
(* then copy them into hal->interfaces and hand out interface handles.     *)
(* A dump message is a record of its attributes: the kernel's ifindex and  *)
(* wdev ids are positive, so 0 (and "" for the name) stands for an absent  *)
(* attribute.  A name is a single value, never built character by          *)
(* character.                                                              *)
(***************************************************************************)
\* the uninitialized interface_info of the stack
Junk == [iface_idx : Garbage, wdev_idx : Garbage, name : {"junk"}]

\* mutant: the constructor leaves ifaces[0] uninitialized as well
CmdIfaceUnzeroed(i, junk) == junk[i]

\* cmd.ifaces[i] before the dump: the constructor's
\* memset(ifaces, 0x0, sizeof(interface_info)) clears ifaces[0] only
CmdIface(i, junk) ==
  IF i = 1 THEN [iface_idx |-> 0, wdev_idx |-> 0, name |-> ""] ELSE junk[i]

\* GetInterfacesCommand::parser on one dump message: the IFINDEX if there
\* is one, else the WDEV, and the IFNAME if there is one
ParseIface(base, m) ==
  [iface_idx |-> IF m.ifindex # 0 THEN m.ifindex ELSE base.iface_idx,
   wdev_idx  |-> IF m.ifindex # 0 THEN base.wdev_idx ELSE m.wdev,
   name      |-> IF m.name # "" THEN m.name ELSE base.name]

\* the builders of the vendor commands: if (iface->wdev_idx)
\* put_u32(NL80211_ATTR_WDEV, ...) else put_u32(NL80211_ATTR_IFINDEX, ...)
Addressee(iface) ==
  IF iface.wdev_idx # 0 THEN <<"WDEV", iface.wdev_idx>>
                        ELSE <<"IFINDEX", iface.iface_idx>>

\* memset(hal->interfaces), the dump, and on a non-empty dump
\* nr_interfaces and the copy of each entry with hal_handle = handle.  An
\* empty dump returns WIFI_ERROR_UNKNOWN with the table cleared and
\* nr_interfaces left as it was.  Dumps hold at most SKW_NR_IFACE messages.
skw_wifi_get_ifaces ==
  /\ initRes = "ok" /\ cleanPc = "idle" /\ ifaceCall.calls < MaxIfaceCalls
  /\ \E dump \in Dumps, junk \in [1..SKW_NR_IFACE -> Junk] :
       LET n == Len(dump)
           cmd(i) == ParseIface(CmdIface(i, junk), dump[i])
       IN  /\ interfaces' =
                [i \in 1..SKW_NR_IFACE |->
                   IF i <= n THEN [iface_idx |-> cmd(i).iface_idx,
                                   wdev_idx |-> cmd(i).wdev_idx,
                                   hal_handle |-> TRUE, name |-> cmd(i).name]
                             ELSE ZeroIface]
           /\ nr_interfaces' = IF n = 0 THEN nr_interfaces ELSE n
           /\ ifaceCall' = [calls |-> ifaceCall.calls + 1, dump |-> dump,
                            result |-> IF n = 0 THEN "ERROR_UNKNOWN" ELSE "SUCCESS"]
  /\ UNCHANGED <<hal, res, initRes, loopPc, exitFlag, handlerSet, exitByte,
                 cleanPc, handlerCalled, nlPending, nlSent, query, misuse>>

(***************************************************************************)
(* skw_wifi_get_usable_channels: convert the masks, send the vendor        *)
(* command (sendMsg), let GetUsableChannels::parser keep the reply, and    *)
(* convert at most max_size of the returned channels.  A rejected command  *)
(* calls errorHandler, which sets err to 0: the call returns success with  *)
(* no channels.                                                            *)
(***************************************************************************)
\* mutant: the channel count not clamped to max_size
UsableCountUnclamped(nr_chan, max_size) == nr_chan

\* *size = nr_chan > max_size ? max_size : nr_chan
UsableCount(nr_chan, max_size) == IF nr_chan > max_size THEN max_size ELSE nr_chan

\* sendMsg with its callbacks, as GetUsableChannels uses it: msgHandler
\* hands the reply to GetUsableChannels::parser, which keeps the vendor
\* data; on a NACK only errorHandler runs, and it sets err to 0 like the
\* ack and finish handlers, so the loop ends with nothing parsed
sendMsg(reply) == IF reply = "nack" THEN <<>> ELSE reply

HalChannel(c) ==
  [freq |-> c.freq, width |-> to_hal_band_width(c.bw),
   modes |-> to_hal_iface_mask(c.modes)]

skw_wifi_get_usable_channels ==
  /\ initRes = "ok" /\ cleanPc = "idle" /\ ~query.called
  /\ \E band_mask \in BandMasks, iface_mode_mask \in IfaceMasks,
        max_size \in MaxSizes, reply \in ChanReplies :
       LET chan == sendMsg(reply)
           size == UsableCount(Len(chan), max_size)
       IN  query' = [called |-> TRUE, band_mask |-> band_mask,
                     iface_mode_mask |-> iface_mode_mask, max_size |-> max_size,
                     reply |-> chan,
                     info |-> [band_mask |-> to_skw_band_mask(band_mask),
                               iface_mode_mask |-> to_skw_iface_mask(iface_mode_mask)],
                     result |-> "SUCCESS",
                     target |-> Addressee(interfaces[1]),
                     ifaceCalls |-> ifaceCall.calls,
                     channels |-> [i \in 1..size |-> HalChannel(chan[i])]]
  /\ UNCHANGED <<hal, res, initRes, loopPc, exitFlag, handlerSet, exitByte,
                 cleanPc, handlerCalled, nlPending, nlSent, misuse>>
  /\ UNCHANGED ifaceVars

-----------------------------------------------------------------------------
Framework == StartEventLoop \/ skw_wifi_get_usable_channels \/ skw_wifi_get_ifaces
             \/ CleanupStart
EventLoop == EventLoopPoll \/ EventLoopCheck \/ skw_wifi_deinitialize

Next ==
  \/ skw_wifi_initialize
  \/ Framework
  \/ NlEvent
  \/ EventLoop
  \/ CleanupWrite

\* The event loop and the cleanup call run on threads the OS schedules;
\* the framework decides when (and whether) to start and stop.
Spec == Init /\ [][Next]_vars /\ WF_vars(EventLoop) /\ WF_vars(CleanupWrite)
             /\ WF_vars(StartEventLoop)

-----------------------------------------------------------------------------
\* the bit positions set in a mask of at most 8 bits
Bits(x) == {i \in 0..7 : (x \div 2^i) % 2 = 1}

\* What the bands and widths mean, independently of the conversion tables:
\* the framework's wlan_mac_band bits and channel widths (wifi_hal.h) and
\* the driver's SKW_BAND and SKW_CHANNEL_WIDTH values (main.h), each named
\* by the band or width it stands for.
HalBandName == (1 :> "2.4GHz") @@ (2 :> "5GHz") @@ (4 :> "60GHz") @@ (8 :> "6GHz")
SkwBandName == (0 :> "2.4GHz") @@ (1 :> "5GHz") @@ (2 :> "6GHz") @@ (3 :> "60GHz")
SkwWidthName == (0 :> "20") @@ (1 :> "40") @@ (2 :> "80") @@ (3 :> "80+80") @@ (4 :> "160")
HalWidthName == (0 :> "20") @@ (1 :> "40") @@ (2 :> "80") @@ (3 :> "160") @@ (4 :> "80+80")
NameOf(f, x) == IF x \in DOMAIN f THEN f[x] ELSE "unknown"

\* The channel query passes the driver exactly the bands the framework
\* asked for (unknown bits dropped), and the STA and SoftAP bits of the
\* mode mask, which are bits 0 and 1 in both the documented
\* wifi_interface_mode encoding and the code's; it returns the first
\* min(n, max_size) channels of the reply in order, each with its
\* frequency, the same width, and the STA and SoftAP bits of its modes.
\* The P2P bits are left out: the code converts them with
\* WIFI_INTERFACE_TYPE_P2P, not the documented P2P_CLIENT and P2P_GO bits.
UsableChannelsConverted ==
  query.called =>
    /\ {NameOf(SkwBandName, j) : j \in Bits(query.info.band_mask)} =
         {HalBandName[2^k] : k \in {k \in Bits(query.band_mask) : 2^k \in DOMAIN HalBandName}}
    /\ \A k \in {0, 1} :
         k \in Bits(query.iface_mode_mask) <=>
           SKW_BIT(IF k = 0 THEN SKW_MODE_STA ELSE SKW_MODE_AP)
             \in {2^j : j \in Bits(query.info.iface_mode_mask)}
    /\ Len(query.channels) = IF Len(query.reply) < query.max_size
                             THEN Len(query.reply) ELSE query.max_size
    /\ \A i \in DOMAIN query.channels :
         /\ query.channels[i].freq = query.reply[i].freq
         /\ NameOf(HalWidthName, query.channels[i].width) =
              NameOf(SkwWidthName, query.reply[i].bw)
         /\ \A k \in {0, 1} :
              k \in Bits(query.channels[i].modes) <=>
                SKW_BIT(IF k = 0 THEN SKW_MODE_STA ELSE SKW_MODE_AP)
                  \in {2^j : j \in Bits(query.reply[i].modes)}

\* the ways a vendor command may name the interface of dump message m:
\* its WDEV, or its IFINDEX when the kernel sent one
Addresses(m) ==
  {<<"WDEV", m.wdev>>} \cup (IF m.ifindex # 0 THEN {<<"IFINDEX", m.ifindex>>} ELSE {})

\* After a get_ifaces call that succeeded, hal->interfaces holds the dump:
\* nr_interfaces is its length, each handed-out entry carries the handle
\* and the dumped name, the slots past it are clear, and the first entry,
\* on which skw_wifi_get_usable_channels builds its vendor command, names
\* the first dumped interface (through the parser's IFINDEX-else-WDEV and
\* the builder's WDEV-else-IFINDEX choice); so does every usable-channels
\* command sent since.
IfaceTableFromDump ==
  LET dump == ifaceCall.dump IN
  ifaceCall.result = "SUCCESS" =>
    /\ nr_interfaces = Len(dump)
    /\ \A i \in 1..SKW_NR_IFACE :
         IF i <= nr_interfaces
         THEN /\ interfaces[i].hal_handle
              /\ dump[i].name # "" => interfaces[i].name = dump[i].name
         ELSE interfaces[i] = ZeroIface
    /\ Addressee(interfaces[1]) \in Addresses(dump[1])
    /\ query.called /\ query.ifaceCalls = ifaceCall.calls =>
         query.target \in Addresses(dump[1])

\* Once the framework has called skw_wifi_cleanup, the event loop ends:
\* the cleaned-up handler is called and every socket and the handle are
\* released (the exit byte must reach the socket the loop polls).
CleanupCompletes ==
  cleanPc # "idle" ~>
    (handlerCalled /\ hal = "freed" /\ \A s \in Sockets : res[s] # "open")

\* No resource of the handle is leaked by a failed skw_wifi_initialize,
\* and neither cleanup nor the event loop uses the handle or one of its
\* sockets after the other thread released it.
NoResourceMisuse == misuse = {}
====
