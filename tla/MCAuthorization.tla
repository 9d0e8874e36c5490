--------------------------- MODULE MCAuthorization ---------------------------
(* Two entries of each section of etc/ddi-role.json: one of each kind it has. *)
EXTENDS Authorization

Entry(resource, filter, operations) ==
    [resource |-> resource, filter |-> filter, operations |-> operations]

Base == {Entry("ddiuser", FALSE, {"GET", "ACTION", "POST"}), Entry("node", FALSE, {"GET"})}
Dns == {Entry("view", FALSE, {"GET"}), Entry("zone", TRUE, {"GET"})}
Dhcp == {Entry("plan", FALSE, {"GET"}), Entry("subnet", TRUE, {"GET"})}
================================================================================
