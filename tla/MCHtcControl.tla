---------------------------- MODULE MCHtcControl ----------------------------
(***************************************************************************)
(* Instances of HtcControl: the services of a WLAN load (HTT data, an      *)
(* optional HTT service that has no pipe, packet log and WMI) or those of  *)
(* endpoint ping, and targets that behave well or badly.                   *)
(***************************************************************************)
EXTENDS HtcControl

CONSTANTS HTT_DATA, HTT_DATA2, PKTLOG

All == {HTT_DATA, HTT_DATA2, PKTLOG, WMI, BE, BK}
Wlan == [epping |-> FALSE, order |-> <<HTT_DATA, HTT_DATA2, PKTLOG, WMI>>,
         required |-> {HTT_DATA, WMI}]
Ping == [epping |-> TRUE, order |-> <<BE, BK>>, required |-> {BE, BK}]

Met(mode, answers, ready, late, sendMayFail, panics) ==
    [epping |-> mode.epping, order |-> mode.order, required |-> mode.required,
     answers |-> answers, ready |-> ready, late |-> late,
     sendMayFail |-> sendMayFail, panics |-> panics]

\* Every way in which a request may be answered that the parameter checks of
\* htc_connect_service are for.
Any == {"ok", "refused", "clash", "range", "empty", "silent"}
AnyReady == {"ready", "short", "nocredit", "silent"}

\* Required services are accepted, the others get one of the answers given.
Accepting(mode, answers) ==
    [s \in All |-> IF s \in mode.required THEN {"ok"} ELSE answers]
Unreliable == [s \in All |-> Any]
\* An answer may also be cut short.
Unruly == [s \in All |-> Any \cup {"short"}]

MCLoads ==
    UNION {{Met(mode, Accepting(mode, Any), {"ready"}, FALSE, FALSE, FALSE),
            Met(mode, Accepting(mode, Any \ {"silent"}), {"ready"}, FALSE, FALSE, TRUE),
            Met(mode, Unreliable, AnyReady, FALSE, TRUE, FALSE),
            Met(mode, Unreliable, AnyReady, TRUE, TRUE, FALSE),
            Met(mode, Unruly, AnyReady, TRUE, TRUE, FALSE),
            Met(mode, Unruly, AnyReady, TRUE, TRUE, TRUE)} : mode \in {Wlan, Ping}}
=============================================================================
