-------------------------- MODULE MCServiceVersion --------------------------
(* A TLC instance of ServiceVersion: an image whose version label is a word *)
(* ("latest"), followed by images that are labelled with their version.     *)
EXTENDS ServiceVersion

MCLabel == [b \in 0..MaxBuilds |-> IF b = 0 THEN Word ELSE b]
=============================================================================
