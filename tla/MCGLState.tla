------------------------------ MODULE MCGLState ------------------------------
(* One group of calls at a time, next to hints and glGetError.             *)
EXTENDS GLState

MCUses == {{g} : g \in Groups}
=============================================================================
