---------------------------- MODULE MCXmlRpcCall ----------------------------
(***************************************************************************)
(* XmlRpcCall for TLC: the constants are plain values, all in the cfg.     *)
(***************************************************************************)
EXTENDS XmlRpcCall
=============================================================================
