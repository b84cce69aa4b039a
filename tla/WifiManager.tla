---------------------------- MODULE WifiManager -----------------------------
(***************************************************************************)
(* wifi_manager: the station, with retries and a fallback to the access    *)
(* point, and the access point, which a setting closes while the station   *)
(* is connected.  Three tasks change its variables without a lock: the     *)
(* event loop, the timer of the retries, and the console.  One action is   *)
(* what a task does up to and with a call of the Wi-Fi stack.              *)
(*                                                                         *)
(* The stack is outside: it puts its events in the queue of the event      *)
(* loop, may connect the station or fail, and may lose the connection.     *)
(* A change of the stack's mode is taken to succeed.  SSIDs are left out:  *)
(* any attempt may succeed.                                                *)
(***************************************************************************)
EXTENDS Naturals, Sequences

CONSTANTS MaxRetry,   \* max_retry
          MaxEvents   \* bound: length of the queue at which the stack waits

ASSUME WifiAssumption == MaxRetry \in Nat /\ MaxEvents \in Nat

VARIABLES
    config,       \* s_sta_configured, and ap_behavior is close_on_sta
    retry_count,
    connected,
    ap_active,
    timer,        \* s_reconnect_timer runs
    handler,      \* event loop: a call that the handler has still to make
    console,      \* where wifi_manager_apply_sta_config or scan_aps is
    radio,        \* external: its interfaces, and the station's link
    events,       \* external: queued events
    crossed       \* history: a step of applying a configuration was taken while
                  \* an event of the station was queued or handled

wifiVars == <<config, retry_count, connected, ap_active, timer, handler, console, radio, events,
              crossed>>

Configs == [sta : BOOLEAN, close : BOOLEAN]

WifiInit == /\ config \in Configs
            /\ retry_count = 0 /\ connected = FALSE /\ ap_active = FALSE /\ timer = FALSE
            /\ handler = "none" /\ console = "none"
            /\ radio = [ap |-> TRUE, sta |-> config.sta, link |-> "down"]
            /\ events = IF config.sta THEN <<"sta_start", "ap_start">> ELSE <<"ap_start">>
            /\ crossed = FALSE

-----------------------------------------------------------------------------
(* The stack's calls.                                                      *)

\* esp_wifi_set_mode.
SetMode(ap, sta) ==
    LET stops == IF radio.sta /\ ~sta /\ radio.link # "down" THEN <<"disconnected">> ELSE <<>>
        starts == IF ~radio.sta /\ sta THEN <<"sta_start">> ELSE <<>>
        point == IF radio.ap = ap THEN <<>> ELSE IF ap THEN <<"ap_start">> ELSE <<"ap_stop">>
    IN /\ radio' = [ap |-> ap, sta |-> sta, link |-> IF sta THEN radio.link ELSE "down"]
       /\ events' = events \o stops \o starts \o point

\* esp_wifi_connect; without the station, or at another attempt, an error.
Connects == radio' = [radio EXCEPT !.link = IF radio.sta /\ @ = "down" THEN "trying" ELSE @]

StationEvents == \/ handler # "none"
                 \/ \E i \in DOMAIN events : events[i] \in {"got_ip", "disconnected"}

-----------------------------------------------------------------------------
(* wifi_event_handler.                                                     *)

Handles(event) == /\ handler = "none" /\ events # <<>> /\ Head(events) = event
                  /\ events' = Tail(events)

OnStaStart == /\ Handles("sta_start")
              /\ IF config.sta THEN Connects ELSE UNCHANGED radio
              /\ UNCHANGED <<config, retry_count, connected, ap_active, timer, handler, console>>

\* The connection is lost, or an attempt fails: another one, later.
OnRetry == /\ Handles("disconnected")
           /\ connected' = FALSE
           /\ config.sta /\ retry_count < MaxRetry
           /\ retry_count' = retry_count + 1
           /\ timer' = TRUE
           /\ UNCHANGED <<config, ap_active, handler, console, radio>>

OnGiveUp == /\ Handles("disconnected")
            /\ connected' = FALSE
            /\ IF config.sta
               THEN /\ retry_count >= MaxRetry
                    /\ config' = [config EXCEPT !.sta = FALSE] /\ retry_count' = 0
                    /\ handler' = "fall_back"
               ELSE UNCHANGED <<config, retry_count, handler>>
            /\ UNCHANGED <<ap_active, timer, console, radio>>

FallBackVariant == /\ handler = "fall_back" /\ handler' = "none"
                   /\ UNCHANGED <<config, retry_count, connected, ap_active, timer, console,
                                  radio, events>>
FallBack == /\ handler = "fall_back" /\ handler' = "none"
            /\ SetMode(TRUE, FALSE)
            /\ UNCHANGED <<config, retry_count, connected, ap_active, timer, console>>

OnGotIp == /\ Handles("got_ip")
           /\ retry_count' = 0 /\ connected' = TRUE
           /\ handler' = IF config.close /\ ap_active THEN "close_ap" ELSE "none"
           /\ UNCHANGED <<config, ap_active, timer, console, radio>>

CloseAp == /\ handler = "close_ap" /\ handler' = "none"
           /\ SetMode(FALSE, TRUE)
           /\ ap_active' = FALSE
           /\ UNCHANGED <<config, retry_count, connected, timer, console>>

OnApChange == \E on \in BOOLEAN :
    /\ Handles(IF on THEN "ap_start" ELSE "ap_stop")
    /\ ap_active' = on
    /\ UNCHANGED <<config, retry_count, connected, timer, handler, console, radio>>

\* reconnect_timer_cb, a second or more after the disconnection: by then the
\* loop has handled what was queued.
TimerFires == /\ timer /\ timer' = FALSE /\ ~StationEvents
              /\ IF config.sta THEN Connects ELSE UNCHANGED radio
              /\ UNCHANGED <<config, retry_count, connected, ap_active, handler, console, events>>

-----------------------------------------------------------------------------
(* wifi_manager_apply_sta_config and wifi_manager_scan_aps.                *)

ConsoleGoes(from, to) == console = from /\ console' = to

Apply(c) == /\ ConsoleGoes("none", "reset") /\ Len(events) < MaxEvents
            /\ config' = c
            /\ UNCHANGED <<retry_count, connected, ap_active, timer, handler, radio, events>>

ApplyResets == /\ ConsoleGoes("reset", "mode")
               /\ timer' = FALSE /\ retry_count' = 0 /\ connected' = FALSE
               /\ UNCHANGED <<config, ap_active, handler, radio, events>>

\* The handler's fallback may have come in between.
ApplyMode == /\ ConsoleGoes("mode", IF config.sta THEN "leave" ELSE "none")
             /\ SetMode(TRUE, config.sta)
             /\ UNCHANGED <<config, retry_count, connected, ap_active, timer, handler>>

ApplyLeaves == /\ ConsoleGoes("leave", "join")
               /\ radio' = [radio EXCEPT !.link = "down"]
               /\ events' = IF radio.link = "down" THEN events
                            ELSE Append(events, "disconnected")
               /\ UNCHANGED <<config, retry_count, connected, ap_active, timer, handler>>

ApplyJoins == /\ ConsoleGoes("join", "none")
              /\ Connects
              /\ UNCHANGED <<config, retry_count, connected, ap_active, timer, handler, events>>

\* The station is there for the time of the scan.
ScanBegins == /\ radio.ap /\ ~radio.sta /\ Len(events) < MaxEvents
        /\ ConsoleGoes("none", "scan")
        /\ SetMode(TRUE, TRUE)
        /\ UNCHANGED <<config, retry_count, connected, ap_active, timer, handler>>

ScanEnds == /\ ConsoleGoes("scan", "none")
            /\ SetMode(TRUE, FALSE)
            /\ UNCHANGED <<config, retry_count, connected, ap_active, timer, handler>>

-----------------------------------------------------------------------------
(* The stack's own steps.                                                  *)

LinkChanges(from, to, event) ==
    /\ radio.link = from /\ ~StationEvents
    /\ radio' = [radio EXCEPT !.link = to]
    /\ events' = Append(events, event)
    /\ UNCHANGED <<config, retry_count, connected, ap_active, timer, handler, console>>

LinkComesUp == LinkChanges("trying", "up", "got_ip")
LinkFails == LinkChanges("trying", "down", "disconnected")
LinkIsLost == LinkChanges("up", "down", "disconnected")

\* The console applies a configuration while an event of the station is queued
\* or handled.
Crosses == /\ console' # console /\ "scan" \notin {console, console'}
           /\ StationEvents

WifiNext ==
    /\ \/ OnStaStart \/ OnRetry \/ OnGiveUp \/ FallBack \/ OnGotIp \/ CloseAp
       \/ OnApChange \/ TimerFires
       \/ ApplyResets \/ ApplyMode \/ ApplyLeaves \/ ApplyJoins \/ ScanBegins \/ ScanEnds
       \/ LinkComesUp \/ LinkFails \/ LinkIsLost
       \/ \E c \in Configs : Apply(c)
    /\ crossed' = (crossed \/ Crosses)

WifiSpec == WifiInit /\ [][WifiNext]_wifiVars

-----------------------------------------------------------------------------
(* Properties.                                                             *)

\* The state stays within its types.
WifiTypeOK ==
    /\ config \in Configs /\ retry_count \in 0..MaxRetry
    /\ connected \in BOOLEAN /\ ap_active \in BOOLEAN /\ timer \in BOOLEAN
    /\ handler \in {"none", "fall_back", "close_ap"}
    /\ console \in {"none", "reset", "mode", "leave", "join", "scan"}
    /\ radio \in [ap : BOOLEAN, sta : BOOLEAN, link : {"down", "trying", "up"}]
    /\ events \in Seq({"sta_start", "ap_start", "ap_stop", "got_ip", "disconnected"})

\* No event, no call, no attempt and no retry is to come.
Settled == /\ ~crossed /\ events = <<>> /\ handler = "none" /\ console = "none" /\ ~timer
           /\ radio.link # "trying"

\* The device can always be reached, and says so: once nothing more is to come,
\* the station is connected, with the access point closed under it if the
\* settings ask for that, or the station has been given up and the access point
\* is there to configure another one at; wifi_manager_get_status agrees.
SettlesReachable ==
    Settled => /\ IF radio.link = "up" THEN config.close => ~radio.ap
                                       ELSE radio.ap /\ ~config.sta
               /\ connected = (radio.link = "up") /\ ap_active = radio.ap
=============================================================================
