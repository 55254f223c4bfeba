-------------------------- MODULE MCFramebufferCache --------------------------
(* Two framebuffers share an image of either kind, or one has both kinds.  *)
EXTENDS FramebufferCache

CONSTANTS t1, r1, f1, f2

MCCasts == {{t1, f1, f2}, {r1, f1, f2}, {t1, r1, f1}}
=============================================================================
