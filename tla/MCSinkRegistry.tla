--------------------------- MODULE MCSinkRegistry ---------------------------
(***************************************************************************)
(* SinkRegistry on one sink that two workers share.                        *)
(***************************************************************************)
EXTENDS SinkRegistry
=============================================================================
