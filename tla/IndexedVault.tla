---------------------------- MODULE IndexedVault ----------------------------
(***************************************************************************)
(* What Khiip's storage promises: the markdown vault is authoritative, the *)
(* index refers to captures the vault holds, embeddings refer to captures  *)
(* the index holds, and none of the three ever loses an entry.             *)
(***************************************************************************)
CONSTANT Captures

VARIABLES files, rows, embeddings

vars == <<files, rows, embeddings>>

Init == files = {} /\ rows = {} /\ embeddings = {}

AddFile(c) ==
  /\ files' = files \cup {c}
  /\ UNCHANGED <<rows, embeddings>>

\* The captures of R are indexed and those of E embedded, in one commit.
Commit(R, E) ==
  /\ R \subseteq files
  /\ E \subseteq rows
  /\ rows' = rows \cup R
  /\ embeddings' = embeddings \cup E
  /\ UNCHANGED files

Next ==
  \/ \E c \in Captures : AddFile(c)
  \/ \E R, E \in SUBSET Captures : Commit(R, E)

Spec == Init /\ [][Next]_vars

\* Embeddings are of indexed captures, and those are in the vault.
Layered == embeddings \subseteq rows /\ rows \subseteq files
=============================================================================
