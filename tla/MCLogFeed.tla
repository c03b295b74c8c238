------------------------------ MODULE MCLogFeed ------------------------------
(* A screen that writes more than the log holds, and one to switch to and back *)
(* from.  Pages of four lines; three are enough for a page not to be short.    *)
EXTENDS LogFeed

MCScreens == {"ada", "letta"}
MCMaxLine == [s \in MCScreens |-> IF s = "ada" THEN 7 ELSE 1]
=============================================================================
