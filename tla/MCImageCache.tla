---------------------------- MODULE MCImageCache -----------------------------
(* One coin, a painting thread and two io threads. *)
EXTENDS ImageCache

const_Answers == AllAnswers
==============================================================================
