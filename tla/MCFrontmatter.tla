---------------------------- MODULE MCFrontmatter ----------------------------
(* Frontmatter instantiated for TLC. *)
EXTENDS Frontmatter
=============================================================================
