--------------------------- MODULE MCUploadServer ---------------------------
(* Small instances of UploadServer for TLC.                                *)
EXTENDS UploadServer

CONSTANTS
  c1, c2,
  Starts   \* source positions the PCM chunks name

\* Two uploaders with one logical stream each.  The source positions differ so
\* that a reopen with another source is among the messages.
MCBody ==
  [kind : {"open"}, from : {c1}, key : {<<c1, 0>>}, format : {"mono"}, source : {0}]
  \cup [kind : {"open"}, from : {c2}, key : {<<c2, 0>>}, format : {"mono", "stereo"}, source : {1}]
  \cup [kind : {"pcm"}, from : {c1}, stream : 1..3, start : Starts, count : {2}]
  \cup [kind : {"close"}, from : {c1}, stream : {1}, final : {2}]
  \cup [kind : {"mark"}, from : {c1}, stream : 1..2]

=============================================================================
