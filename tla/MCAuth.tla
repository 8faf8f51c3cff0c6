------------------------------- MODULE MCAuth -------------------------------
(***************************************************************************)
(* AuthService for TLC: windows of two and three lives of a code, as in    *)
(* the code (600 and 900 s to 300 s).                                      *)
(***************************************************************************)
EXTENDS AuthProperties, TLC

=============================================================================
