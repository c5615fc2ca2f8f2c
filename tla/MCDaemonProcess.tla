---------------------------- MODULE MCDaemonProcess ----------------------------
(***************************************************************************)
(* DaemonProcess with the unit and one daemon started by hand, two tags to *)
(* add and one of them to delete.                                          *)
(***************************************************************************)
EXTENDS DaemonProcess

CONSTANTS d1, d2, a, b

Changes == {[do |-> "add", tag |-> a], [do |-> "add", tag |-> b],
            [do |-> "delete", tag |-> a]}
=============================================================================
