------------------------- MODULE MCControllerWindow -------------------------
(* ControllerWindow on the window the program opens, a full-HD monitor and *)
(* a laptop's screen.                                                      *)
EXTENDS ControllerWindow

MCClient  == <<1084, 641>>
MCMonitor == <<1920, 1080>>
MCScreen  == <<1366, 768>>
=============================================================================
