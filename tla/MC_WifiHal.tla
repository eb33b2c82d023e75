----------------------------- MODULE MC_WifiHal -----------------------------
(* Inputs of the Wi-Fi HAL model: the masks the framework passes and the   *)
(* replies the driver gives to the usable-channels vendor command.         *)
EXTENDS WifiHal

\* skw_usable_chan records: centre frequency, SKW width, SKW mode mask
Chan(f, bw, modes) == [freq |-> f, bw |-> bw, modes |-> modes]

\* STA only; GC and GO; STA, AP, GC, GO and IBSS; no mode
Replies ==
  { "nack", <<>>,
    <<Chan(2412, SKW_CHAN_WIDTH_20, 2)>>,
    <<Chan(5180, SKW_CHAN_WIDTH_80P80, 24), Chan(5745, SKW_CHAN_WIDTH_160, 94)>>,
    <<Chan(2437, 5, 0), Chan(5200, SKW_CHAN_WIDTH_40, 20)>> }

\* NL80211_CMD_GET_INTERFACE messages: IFINDEX (0 when absent), WDEV,
\* IFNAME ("" when absent)
Msg(ifindex, wdev, name) == [ifindex |-> ifindex, wdev |-> wdev, name |-> name]

\* an empty dump; a station; a station and a netdev-less wdev without a
\* name; a P2P device (no netdev) before a second station
IfaceDumps ==
  { <<>>,
    <<Msg(3, 1, "wlan0")>>,
    <<Msg(3, 1, "wlan0"), Msg(0, 2, "")>>,
    <<Msg(0, 2, "p2p-dev-wlan0"), Msg(4, 3, "wlan1")>> }

AllFailures == {"none", "alloc", "socketpair", "nl_hal", "resolve", "nl_event"}
OnlySuccess == {"none"}
====
