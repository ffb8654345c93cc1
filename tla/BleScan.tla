------------------------------- MODULE BleScan -------------------------------
(***************************************************************************)
(* The scan arbiter of components/ble_host/ble_host.c: one GAP scan for    *)
(* every client of the node.  Its static variables are one record "host",  *)
(* so that a client's callback, which may itself ask for a scan, composes  *)
(* with the handler that called it:                                        *)
(*   want, pending  the two flags of each matcher (s_matchers)             *)
(*   params         s_scan_params_set and s_scan_params_pending            *)
(*   scanning       s_scanning, what the node believes of the scan         *)
(*   cmds           calls made to the Bluetooth stack and not yet executed *)
(* Whether the controller really scans is "radio", in ProxyBle.            *)
(***************************************************************************)
EXTENDS Naturals, Sequences

CONSTANTS Clients   \* those that registered a matcher

Commands == {"params", "start", "stop"}

HostType == [want : [Clients -> BOOLEAN], pending : [Clients -> BOOLEAN],
             params : {"unset", "asked", "set"}, scanning : BOOLEAN, cmds : Seq(Commands)]

(* After ble_host_start: nobody has asked for a scan yet. *)
HostInit == [want |-> [c \in Clients |-> FALSE], pending |-> [c \in Clients |-> FALSE],
             params |-> "unset", scanning |-> FALSE, cmds |-> <<>>]

AnyoneWants(h) == \E c \in Clients : h.want[c]

(* scan_ensure(): ask the stack for the next thing the scan needs. *)
Ensure(h) ==
    IF h.scanning \/ ~AnyoneWants(h) \/ h.params = "asked" THEN h
    ELSE IF h.params = "unset"
         THEN [h EXCEPT !.params = "asked", !.cmds = Append(@, "params")]
         ELSE [h EXCEPT !.cmds = Append(@, "start")]

(* ble_host_scan_want(c, true), uninterrupted. *)
Want(h, c) == Ensure([h EXCEPT !.want[c] = TRUE, !.pending[c] = FALSE])

(* Mutation of ParamsSet: the completion does not come back to the scan. *)
ParamsSet_NoEnsure(h, ok) == [h EXCEPT !.params = IF ok THEN "set" ELSE "unset"]

(* SCAN_PARAM_SET_COMPLETE. *)
ParamsSet(h, ok) ==
    IF ok THEN Ensure([h EXCEPT !.params = "set"]) ELSE [h EXCEPT !.params = "unset"]

(* SCAN_START_COMPLETE: nothing but s_scanning changes, whatever the status. *)
StartComplete(h, ok) == [h EXCEPT !.scanning = ok]

(* scan_on_adv(): an advertisement that the matchers of "hits" accept. *)
Hit(h, hits) ==
    IF hits = {} THEN h
    ELSE [h EXCEPT !.want = [c \in Clients |-> @[c] /\ c \notin hits],
                   !.pending = [c \in Clients |-> @[c] \/ c \in hits],
                   !.cmds = Append(@, "stop")]

(* Mutation of ScanOver: a scan that ended is believed to run. *)
ScanOver_Believed(h) == [h EXCEPT !.pending = [c \in Clients |-> FALSE]]

(* The scan is over: "pending" is emptied into the found() callbacks. The *)
(* caller applies them and then Ensure.                                   *)
ScanOver(h) == [h EXCEPT !.scanning = FALSE, !.pending = [c \in Clients |-> FALSE]]
=============================================================================
