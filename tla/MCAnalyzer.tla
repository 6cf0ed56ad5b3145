----------------------------- MODULE MCAnalyzer -----------------------------
(* Small instances of Analyzer.                                            *)
EXTENDS Analyzer

\* WHOBBS.h gives the strides; TLC configurations hold no negative number.
MCHddStride == -2
=============================================================================
