-------------------------- MODULE MCScannerDevices --------------------------
(***************************************************************************)
(* ScannerDevices with a scanner, a second one of the same model, an       *)
(* interface of that model that has no keys, and a keyboard of another     *)
(* vendor; the scanners are looked for by vendor and product, or by name   *)
(* at one path.                                                            *)
(***************************************************************************)
EXTENDS ScannerDevices

MCTraits == [d \in Devices |->
    IF d = "keyboard" THEN [vendor |-> {"v2"}, product |-> {"p1"}, name |-> {"usb"}]
    ELSE [vendor |-> {"v1"}, product |-> {"p1"}, name |-> {"usb", "scan"}]]

NoSelector == [path |-> AnyPath, vendor |-> Any, product |-> Any, name |-> Any]

MCSelectors == {NoSelector,
                [NoSelector EXCEPT !.vendor = "v1", !.product = "p1"],
                [NoSelector EXCEPT !.path = 1, !.name = "scan"]}

=============================================================================
