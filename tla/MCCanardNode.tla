---------------------------- MODULE MCCanardNode ----------------------------
(***************************************************************************)
(* Small instances of CanardNode: three blocks and one descriptor, of a message    *)
(* or of a service.                                                        *)
(***************************************************************************)
EXTENDS CanardNode

CONSTANTS b1, b2, b3, message, service, none

MCThreeBlocks == {b1, b2, b3}
MCMessage == {message}
MCService == {service}
MCNoServices == {}
=============================================================================
