--------------------------- MODULE MCCodeRequest ---------------------------
(* Two analysis threads; with NumIds = 1 a thread draws its only id again  *)
(* at once, with QCap = 2 a third message that nobody has read is lost.    *)
EXTENDS CodeRequest
=============================================================================
