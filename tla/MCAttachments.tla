----------------------------- MODULE MCAttachments -----------------------------
(* Two files, whose uploads are answered by up to five responses. *)
EXTENDS Attachments, TLC

CONSTANTS f1, f2
===============================================================================
