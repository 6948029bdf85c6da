-------------------------------- MODULE Boot --------------------------------
(***************************************************************************)
(* app_main(): bring up Wi-Fi, wait until it is up or has failed, then     *)
(* construct and start the tasks one after the other; and the event        *)
(* handler that connects and reconnects the station before, during and     *)
(* after that, on the event loop task.                                     *)
(*                                                                         *)
(* The station is the Wi-Fi driver as the handler knows it: it tries when  *)
(* told to connect and reports an address or a disconnection, if ever.  A  *)
(* failed ESP_ERROR_CHECK restarts the chip and is not modelled.           *)
(***************************************************************************)
EXTENDS Naturals, Sequences

CONSTANT MAXIMUM_RETRY

ASSUME BootAssumption == MAXIMUM_RETRY \in Nat

VARIABLES
    station,        \* "off", "idle", "trying", "refused", "linked" to the AP, "online"
    attempts,       \* connection attempts since the station was last online
    loop,           \* events in the default event loop's queue
    s_retry_num,
    bits,           \* s_wifi_event_group
    pc,             \* where app_main is
    up              \* what has been set up and started

wifiVars == <<station, attempts, loop>>
vars == <<wifiVars, s_retry_num, bits, pc, up>>

Init ==
    /\ station = "off"
    /\ attempts = 0
    /\ loop = <<>>
    /\ s_retry_num = 0
    /\ bits = {}
    /\ pc = "wifi"
    /\ up = {}

-----------------------------------------------------------------------------
(* The station.                                                            *)

\* Authentication and association have succeeded; DHCP begins.
Associate ==
    /\ station = "trying"
    /\ station' = "linked"
    /\ UNCHANGED <<attempts, loop, s_retry_num, bits, pc, up>>

GotIp ==
    /\ station = "linked"
    /\ station' = "online"
    /\ attempts' = 0
    /\ loop' = Append(loop, "GOT_IP")
    /\ UNCHANGED <<s_retry_num, bits, pc, up>>

\* The AP is not there, refuses, or goes away.
Lose ==
    /\ station \in {"trying", "linked", "online"}
    /\ station' = "idle"
    /\ loop' = Append(loop, "STA_DISCONNECTED")
    /\ UNCHANGED <<attempts, s_retry_num, bits, pc, up>>

\* esp_wifi_connect().  It may return an error, which nobody looks at: then no event
\* comes of it.
Connect ==
    /\ station' \in {"trying", "refused"}
    /\ attempts' = attempts + 1

-----------------------------------------------------------------------------
(* wifi_event_handler(), on the event loop task.                           *)

Event(e) ==
    /\ loop # <<>>
    /\ Head(loop) = e
    /\ loop' = Tail(loop)

OnStart ==
    /\ Event("STA_START")
    /\ Connect
    /\ UNCHANGED <<s_retry_num, bits, pc, up>>

\* Fault variant: retries not counted.
OnDisconnectedUncounted ==
    /\ Event("STA_DISCONNECTED")
    /\ Connect
    /\ UNCHANGED <<s_retry_num, bits, pc, up>>

OnDisconnected ==
    /\ Event("STA_DISCONNECTED")
    /\ \/ /\ s_retry_num < MAXIMUM_RETRY
          /\ s_retry_num' = s_retry_num + 1
          /\ Connect
          /\ UNCHANGED bits
       \/ /\ s_retry_num >= MAXIMUM_RETRY
          /\ bits' = bits \cup {"WIFI_FAIL_BIT"}
          /\ UNCHANGED <<station, attempts, s_retry_num>>
    /\ UNCHANGED <<pc, up>>

\* Fault variant: the retry counter not reset.
OnGotIpKeepingCount ==
    /\ Event("GOT_IP")
    /\ bits' = bits \cup {"WIFI_CONNECTED_BIT"}
    /\ UNCHANGED <<station, attempts, s_retry_num, pc, up>>

OnGotIp ==
    /\ Event("GOT_IP")
    /\ s_retry_num' = 0
    /\ bits' = bits \cup {"WIFI_CONNECTED_BIT"}
    /\ UNCHANGED <<station, attempts, pc, up>>

-----------------------------------------------------------------------------
(* app_main().                                                             *)

\* wifi_init_sta() up to esp_wifi_start(), or without memory for the event group.
WifiInit ==
    /\ pc = "wifi"
    /\ \/ pc' = "failed" /\ UNCHANGED <<station, loop, up>>
       \/ /\ pc' = "wait"
          /\ station' = "idle"
          /\ loop' = Append(loop, "STA_START")
          /\ up' = {"event_loop"}
    /\ UNCHANGED <<attempts, s_retry_num, bits>>

\* Fault variant: only the bit for success waited for.
WaitBitsForAddress ==
    /\ pc = "wait"
    /\ "WIFI_CONNECTED_BIT" \in bits
    /\ pc' = "boot"
    /\ UNCHANGED <<wifiVars, s_retry_num, bits, up>>

\* xEventGroupWaitBits() returns; bits stay set.
WaitBits ==
    /\ pc = "wait"
    /\ bits # {}
    /\ pc' = IF "WIFI_CONNECTED_BIT" \in bits THEN "boot" ELSE "failed"
    /\ UNCHANGED <<wifiVars, s_retry_num, bits, up>>

\* Fault variant: the gateway started before the activity.
BootOrderGatewayEarly ==
    <<"nav_service", "pilot_input", "routes", "network_gateway", "nav_activity",
      "system_monitor">>

\* start() of each task, and configure_navigation_gateway().
BootOrder ==
    <<"nav_service", "pilot_input", "nav_activity", "routes", "network_gateway",
      "system_monitor">>

StartNext ==
    /\ pc = "boot"
    /\ \E i \in 1..Len(BootOrder) :
          /\ BootOrder[i] \notin up
          /\ \A j \in 1..(i - 1) : BootOrder[j] \in up
          /\ up' = up \cup {BootOrder[i]}
          /\ pc' = IF i = Len(BootOrder) THEN "running" ELSE "boot"
    /\ UNCHANGED <<wifiVars, s_retry_num, bits>>

-----------------------------------------------------------------------------

Handler == OnStart \/ OnDisconnected \/ OnGotIp

Next ==
    \/ Associate \/ GotIp \/ Lose
    \/ Handler
    \/ WifiInit \/ WaitBits \/ StartNext

\* The driver reports on every attempt it makes, the event loop runs handlers, and
\* app_main goes on when it can.  Nobody promises an AP, or one that stays, or one
\* that gives an address.
Fairness ==
    /\ WF_vars((Associate \/ Lose) /\ station = "trying")
    /\ WF_vars(Handler)
    /\ WF_vars(WifiInit \/ WaitBits \/ StartNext)

Spec == Init /\ [][Next]_vars /\ Fairness

-----------------------------------------------------------------------------
(* Properties.                                                             *)

TypeOK ==
    /\ station \in {"off", "idle", "trying", "refused", "linked", "online"}
    /\ attempts \in 0..(MAXIMUM_RETRY + 1)
    /\ loop \in Seq({"STA_START", "STA_DISCONNECTED", "GOT_IP"}) /\ Len(loop) <= 2
    /\ s_retry_num \in 0..MAXIMUM_RETRY
    /\ bits \subseteq {"WIFI_CONNECTED_BIT", "WIFI_FAIL_BIT"}
    /\ pc \in {"wifi", "wait", "failed", "boot", "running"}

\* As long as esp_wifi_connect() takes its calls, the handler lets the station rest
\* only after MAXIMUM_RETRY attempts in a row that led nowhere, and then says so: no
\* order of addresses, losses and late handling makes it give up early, or in silence.
GivesUpLate ==
    (station = "idle" /\ loop = <<>>) =>
        attempts >= MAXIMUM_RETRY /\ "WIFI_FAIL_BIT" \in bits

\* What each part uses once it runs: a post before start() meets an assertion, and
\* routes registered after it would be read while they grow.
Uses == [
    event_loop      |-> {},
    nav_service     |-> {"event_loop"},
    pilot_input     |-> {},
    nav_activity    |-> {"event_loop", "nav_service"},
    routes          |-> {"pilot_input", "nav_activity"},
    network_gateway |-> {"routes", "pilot_input", "nav_activity"},
    system_monitor  |-> {}]

\* A task that runs finds started what it posts to.
StartedBeforeUse == \A part \in up : Uses[part] \subseteq up

\* With an AP that comes and goes for ever too, either all tasks start or app_main
\* gives up.  It waits for ever in two cases only, of which no event tells it: the
\* station stays with an AP that gives no address, or esp_wifi_connect() was refused.
BootEnds ==
    <>(pc \in {"running", "failed"}) \/ <>[](station \in {"linked", "refused"})

=============================================================================
