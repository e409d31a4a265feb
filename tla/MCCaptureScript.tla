--------------------------- MODULE MCCaptureScript ---------------------------
(* The instances of MCCapture, with one conversation to look at.           *)
EXTENDS MCCapture, CaptureScript

KeyOfA == GenerateKey(A, B)

=============================================================================
