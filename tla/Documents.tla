------------------------------ MODULE Documents ------------------------------
(***************************************************************************)
(* What the server and the browser's editors both know of a document: its  *)
(* id, and what it may hold, which a save replaces as a whole (title,      *)
(* content, planned date and lesson metadata).                             *)
(***************************************************************************)
CONSTANTS
  Docs,   \* the ids of documents
  Texts   \* what a document or a draft of it may hold
=============================================================================
