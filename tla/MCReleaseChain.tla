---- MODULE MCReleaseChain ----
(* Two tags and two builds of a release for TLC. *)
EXTENDS ReleaseChain
===============================================================================
