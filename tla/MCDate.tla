-------------------------------- MODULE MCDate --------------------------------
(* Days of eight seconds for the 400 years and more that follow 1970, so     *)
(* that every kind of leap year occurs.                                      *)
EXTENDS Date
==============================================================================
