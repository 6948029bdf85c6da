-------------------------- MODULE MCNetworkGateway --------------------------
(***************************************************************************)
(* Instances of NetworkGateway for TLC: the decoders and routes of         *)
(* gateway_bootstrap.cpp, with payload sizes cut down to two bytes.        *)
(***************************************************************************)
EXTENDS NetworkGateway, TLC

JOYSTICK_INPUT    == 4097
START_MANUAL_NAV  == 4098
HALT_MANUAL_NAV   == 4099
LLM_RESPONSE_TEXT == 8193
NotRegistered     == 9999

FixedSize(n) == [min |-> n, max |-> n]
VariableSize(m, n) == [min |-> m, max |-> n]

BootDecoders ==
    (JOYSTICK_INPUT :> FixedSize(2)) @@ (START_MANUAL_NAV :> FixedSize(1)) @@
    (HALT_MANUAL_NAV :> FixedSize(1)) @@ (LLM_RESPONSE_TEXT :> VariableSize(1, 2))

\* No route for LLM_RESPONSE_TEXT.
BootRoutes ==
    (JOYSTICK_INPUT :> "pilot_input") @@ (START_MANUAL_NAV :> "nav_activity") @@
    (HALT_MANUAL_NAV :> "nav_activity")

BootTasks == {"pilot_input", "nav_activity"}

OneEach == [t \in BootTasks |-> 1]

\* One connection takes the largest frame but one cell, or the end of a frame and
\* the start of another; the other is slow.
Windows ==
    LET fast == CHOOSE p \in Peers : TRUE IN
    [p \in Peers |-> IF p = fast THEN 4 ELSE 1]

\* Two to tell apart, one to ignore, one to reject.
SampleFrames ==
    {[id |-> JOYSTICK_INPUT, payload |-> <<0, 1>>],
     [id |-> HALT_MANUAL_NAV, payload |-> <<1>>],
     [id |-> NotRegistered, payload |-> <<0>>],
     [id |-> START_MANUAL_NAV, payload |-> <<1, 1, 1>>]}

=============================================================================
