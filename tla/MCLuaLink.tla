------------------------------ MODULE MCLuaLink ------------------------------
(* LuaLink with the bounds of LuaLink.cfg. *)
EXTENDS LuaLink
=============================================================================
