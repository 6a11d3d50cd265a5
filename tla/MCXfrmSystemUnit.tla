-------------------------- MODULE MCXfrmSystemUnit --------------------------
(* The systemd unit of a transport under a few edits, updates and reboots. *)
EXTENDS XfrmSystemUnit
=============================================================================
