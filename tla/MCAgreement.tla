---------------------------- MODULE MCAgreement ----------------------------
(* Module Agreement for TLC.  The cfg files choose the number of edits and   *)
(* the odd spellings.                                                        *)
EXTENDS Agreement
=============================================================================
